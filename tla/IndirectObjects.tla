-------------------------- MODULE IndirectObjects --------------------------
(***************************************************************************)
(* PDFParser::ParseNewObject over the xref table that XrefParser has read: *)
(* objects that stand in the file, and objects in object streams, whose    *)
(* reading first asks for the stream, for the lengths and parameters the   *)
(* stream refers to, and so for other objects inside the running calls.    *)
(* All calls share one PDFObjectParser, which reads the file or, through   *)
(* the InputStreamSkipperStream of a call, an object stream; one cache of  *)
(* object stream headers; and one stack of decryption keys.                *)
(***************************************************************************)
EXTENDS XrefParser

(***************************************************************************)
(* A file also has bodies: at each position an object with its header, its *)
(* kind, and for a stream the members of an object stream and the two      *)
(* references a stream may hold: one for the Length (and the filters) its  *)
(* reader asks for, one for the parameters of its crypt filter; 0 when     *)
(* they are direct.                                                        *)
(***************************************************************************)
CONSTANTS
    MaxAsks,   \* bound: objects the program asks for
    MaxCalls   \* bound: ParseNewObject calls inside each other

(* Members of object streams are not streams themselves.                   *)
Kinds == {"null", "plain", "integer", "stream", "broken"}

Members == [id : Nat, what : Kinds \ {"stream"}, short : BOOLEAN]

Bodies ==
    [id : Nat, revision : Nat, what : Kinds, members : Seq(Members),
     length : Nat, parameters : Nat]

ASSUME ObjectsAssumption ==
    /\ \A f \in Files : f.bodies \in Seq(Bodies) /\ f.encrypted \in BOOLEAN
    /\ MaxAsks \in Nat /\ MaxCalls \in Nat

VARIABLES
    calls,     \* the running calls: [id, step, stream], innermost last
    reading,   \* what mObjectParser reads: "file", "skipper", or "closed",
               \* the skipper over a stream that is deleted
    headers,   \* mObjectStreamsCache: the IDs of a stream's members
    keys,      \* mEncryptionKeysStack: the objects whose keys are on it
    answer,    \* what the last call returned
    asked,     \* the object the program has asked for last
    asks,
    undefined  \* has a deleted stream been read?

objectVars == <<calls, reading, headers, keys, answer, asked, asks, undefined>>
allVars == <<vars, objectVars>>

Nothing == [id |-> 0, what |-> "null", at |-> 0, stringsBy |-> 0, streamBy |-> 0]

NoBody == [id |-> 0, revision |-> 0, what |-> "broken", members |-> <<>>,
           length |-> 0, parameters |-> 0]

BodyAt(position) == IF position \in DOMAIN file.bodies THEN file.bodies[position] ELSE NoBody

Top == Last(calls)
Entry == GetXrefEntry(Top.id)

(* Calls and returns.  Whoever is on top with a step has been answered.    *)
Call(id) == [id |-> id, step |-> "called", stream |-> Nothing]
AskAt(step, stream, id) ==
    /\ Len(calls) < MaxCalls
    /\ calls' = Append(Append(Front(calls), [Top EXCEPT !.step = step, !.stream = stream]), Call(id))
    /\ answer' = Nothing
Return(object) == calls' = Front(calls) /\ answer' = object
-----------------------------------------------------------------------------
ObjectsInit ==
    /\ Init
    /\ calls = <<>> /\ reading = "file" /\ headers = <<>> /\ keys = <<>>
    /\ answer = Nothing /\ asked = 0 /\ asks = 0 /\ undefined = FALSE

(* Mutant: the cache outlives the file.                                    *)
ResetKeepsHeaders == keys' = <<>> /\ headers' = headers

(* ResetParser.                                                            *)
ResetParser == keys' = <<>> /\ headers' = <<>>

Start(f) ==
    /\ calls = <<>> /\ ~undefined
    /\ StartPDFParsing(f)
    /\ ResetParser
    /\ reading' = "file"
    /\ answer' = Nothing /\ asked' = 0
    /\ UNCHANGED <<calls, asks, undefined>>

ParseStep == Step /\ UNCHANGED objectVars

Ask(id) ==
    /\ status = "success" /\ calls = <<>> /\ asks < MaxAsks /\ ~undefined
    /\ calls' = <<Call(id)>>
    /\ asked' = id /\ asks' = asks + 1
    /\ answer' = Nothing
    /\ UNCHANGED <<vars, reading, headers, keys, undefined>>

Called == calls # <<>> /\ Top.step = "called"

(* Mutant: an object may be entered again.                                 *)
NeverEntered == FALSE

(* mNewObjectParsingPath: the object is being parsed further out.          *)
IsEntered == \E k \in 1 .. Len(calls) - 1 : calls[k].id = Top.id

Refuse ==
    /\ Called
    /\ \/ Top.id >= GetXrefSize
       \/ IsEntered
       \/ Entry.type \notin {"Existing", "StreamObject"}
    /\ Return(Nothing)
    /\ UNCHANGED <<vars, reading, headers, keys, asked, asks, undefined>>

CanEnter(type) == Called /\ ~IsEntered /\ Top.id < GetXrefSize /\ Entry.type = type

(* OnObjectStart, and OnObjectEnd, which does nothing of an object that    *)
(* could not be parsed: its key stays on the stack.                        *)
Started(id) == IF file.encrypted THEN Append(keys, id) ELSE keys
Ended(stack) == IF file.encrypted THEN Front(stack) ELSE stack
CurrentKey(stack) == IF stack = <<>> THEN 0 ELSE Last(stack)

(* Mutant: objects are taken to be of generation 0.                        *)
IsFirstGeneration(body) == body.id = Top.id /\ body.revision = 0

(* "verify object ID", "verify object Version".                            *)
IsDeclared(body) == body.id = Top.id /\ body.revision = Entry.revision

(* ParseExistingInDirectObject.  The parser of objects is taken to read    *)
(* the file.                                                               *)
ParseExistingInDirectObject ==
    /\ CanEnter("Existing") /\ reading # "closed"
    /\ LET body == BodyAt(Entry.position)
           started == Started(Top.id)
           object == [Nothing EXCEPT !.id = Top.id, !.what = body.what, !.at = Entry.position,
                                     !.stringsBy = CurrentKey(started)]
       IN \/ /\ ~IsDeclared(body)
             /\ Return(Nothing)
             /\ UNCHANGED keys
          \/ /\ IsDeclared(body) /\ body.what = "broken"
             /\ Return(Nothing)
             /\ keys' = started
          \/ /\ IsDeclared(body) /\ body.what # "broken"
             /\ IF body.what = "stream" /\ file.encrypted /\ body.parameters # 0
                THEN /\ AskAt("parameters", object, body.parameters)
                     /\ keys' = started
                ELSE /\ Return([object EXCEPT !.streamBy =
                                   IF body.what = "stream" THEN CurrentKey(started) ELSE 0])
                     /\ UNCHANGED keys
    /\ UNCHANGED <<vars, reading, headers, asked, asks, undefined>>

(* Mutant: the key is taken off before the stream has it.                  *)
EndThenKey ==
    /\ calls # <<>> /\ Top.step = "parameters"
    /\ Return([Top.stream EXCEPT !.streamBy = CurrentKey(Ended(keys))])
    /\ keys' = Ended(keys)
    /\ UNCHANGED <<vars, reading, headers, asked, asks, undefined>>

(* The rest of OnObjectEnd of a stream, which is given the key on top.     *)
EndStreamObject ==
    /\ calls # <<>> /\ Top.step = "parameters"
    /\ Return([Top.stream EXCEPT !.streamBy = CurrentKey(keys)])
    /\ keys' = Ended(keys)
    /\ UNCHANGED <<vars, reading, headers, asked, asks, undefined>>

(* The same while mObjectParser reads a skipper whose stream is gone: the  *)
(* outcome is undefined, an integer or nothing for a Length among others.  *)
ParseFromDeletedStream ==
    /\ CanEnter("Existing") /\ reading = "closed"
    /\ \E object \in {Nothing, [Nothing EXCEPT !.what = "integer"]} : Return(object)
    /\ undefined' = TRUE
    /\ UNCHANGED <<vars, reading, headers, keys, asked, asks>>
-----------------------------------------------------------------------------
(***************************************************************************)
(* ParseExistingInDirectStreamObject.                                      *)
(***************************************************************************)
AskForStream ==
    /\ CanEnter("StreamObject")
    /\ AskAt("stream", Nothing, Entry.position)
    /\ UNCHANGED <<vars, reading, headers, keys, asked, asks, undefined>>

(* Mutant: only a parsed object gives the file back.                       *)
LeaveSkipper == reading' = "skipper" /\ Return(Nothing)

(* Mutant: the skipper of a failed call is closed and still read.          *)
LeaveClosed == reading' = "closed" /\ Return(Nothing)

(* "mObjectParser.SetReadStream(&mStream,&mCurrentPositionProvider)" at    *)
(* the end of every way through.                                           *)
GiveUp == reading' = "file" /\ Return(Nothing)

Index == Entry.revision
MembersOf(stream) == BodyAt(stream.at).members

(* Mutant: strings in object streams are decrypted a second time.          *)
MemberUnpaused(member) ==
    [Nothing EXCEPT !.id = Top.id, !.what = member.what, !.stringsBy = CurrentKey(Started(Top.id))]

(* With decryption paused.                                                 *)
Member(member) == [Nothing EXCEPT !.id = Top.id, !.what = member.what]

(* SkipTo and the parsing proper.                                          *)
ParseMember(stream, opened) ==
    /\ LET member == MembersOf(stream)[Index + 1]
           readable == opened /\ member.what # "broken"
       IN IF readable THEN Return(Member(member)) /\ UNCHANGED keys
          ELSE Return(Nothing) /\ keys' = Started(Top.id)
    /\ reading' = "file"

HeaderOf(stream) ==
    IF stream.id \in DOMAIN headers THEN headers[stream.id]
    ELSE [k \in DOMAIN MembersOf(stream) |-> MembersOf(stream)[k].id]

HoldsObject(stream) == Index < Len(HeaderOf(stream)) /\ HeaderOf(stream)[Index + 1] = Top.id

(* The header has just been read, and the look for a reference after its   *)
(* last numbers has taken a token or two of the first member: the whole of *)
(* it when it is short.                                                    *)
Overshot(stream) ==
    /\ stream.id \notin DOMAIN headers
    /\ \/ Index = 0
       \/ Index = 1 /\ MembersOf(stream)[1].short

(* From the reader of the stream on.  A header that was passed already is  *)
(* reached by opening the stream again, which asks for the Length again,   *)
(* of a parser that reads the stream just deleted.                         *)
ReadMember(stream, opened) ==
    /\ UNCHANGED <<vars, asked, asks, undefined>>
    /\ IF stream.id \notin DOMAIN headers /\ ~opened
       THEN GiveUp /\ UNCHANGED <<headers, keys>>
       ELSE /\ headers' = [id \in DOMAIN headers \cup {stream.id} |->
                             IF id = stream.id THEN HeaderOf(stream) ELSE headers[id]]
            /\ IF ~HoldsObject(stream) THEN GiveUp /\ UNCHANGED keys
               ELSE IF Overshot(stream) /\ BodyAt(stream.at).length # 0
               THEN /\ AskAt("reopened", stream, BodyAt(stream.at).length)
                    /\ reading' = "closed"
                    /\ UNCHANGED keys
               ELSE ParseMember(stream, opened)

HasStream ==
    /\ calls # <<>> /\ Top.step = "stream"
    /\ LET stream == answer IN
       IF stream.what # "stream" \/ Len(MembersOf(stream)) > GetXrefSize
       THEN GiveUp /\ UNCHANGED <<vars, headers, keys, asked, asks, undefined>>
       ELSE IF BodyAt(stream.at).length # 0
       THEN /\ AskAt("length", stream, BodyAt(stream.at).length)
            /\ UNCHANGED <<vars, reading, headers, keys, asked, asks, undefined>>
       ELSE ReadMember(stream, TRUE)

HasLength ==
    /\ calls # <<>> /\ Top.step = "length"
    /\ ReadMember(Top.stream, answer.what = "integer")

HasReopened ==
    /\ calls # <<>> /\ Top.step = "reopened"
    /\ ParseMember(Top.stream, answer.what = "integer")
    /\ UNCHANGED <<vars, headers, asked, asks, undefined>>

CallStep ==
    \/ Refuse \/ ParseExistingInDirectObject \/ EndStreamObject \/ ParseFromDeletedStream
    \/ AskForStream \/ HasStream \/ HasLength \/ HasReopened

ObjectsNext ==
    \/ \E f \in Files : Start(f)
    \/ ParseStep
    \/ \E id \in 0 .. MaxIDs : Ask(id)
    \/ CallStep

ObjectsSpec ==
    ObjectsInit /\ [][ObjectsNext]_allVars /\ WF_allVars(ParseStep) /\ WF_allVars(CallStep)
-----------------------------------------------------------------------------
(***************************************************************************)
(* What can be read, said without calls: each round adds the objects whose *)
(* streams and lengths the rounds before have found.  To leave no key on   *)
(* the stack an object needs the parameters of its crypt filter as well.   *)
(***************************************************************************)
KindIn(id) ==
    LET entry == GetXrefEntry(id) IN
    IF entry.type = "Existing" THEN BodyAt(entry.position).what
    ELSE LET members == BodyAt(GetXrefEntry(entry.position).position).members
         IN members[entry.revision + 1].what

IsFound(id, found) ==
    LET entry == GetXrefEntry(id)
        body == BodyAt(entry.position)
        stream == BodyAt(GetXrefEntry(entry.position).position)
    IN \/ /\ entry.type = "Existing"
          /\ body.id = id /\ body.revision = entry.revision /\ body.what # "broken"
       \/ /\ entry.type = "StreamObject"
          /\ entry.position \in found /\ GetXrefEntry(entry.position).type = "Existing"
          /\ stream.what = "stream" /\ Len(stream.members) <= GetXrefSize
          /\ stream.length # 0 => stream.length \in found /\ KindIn(stream.length) = "integer"
          /\ entry.revision < Len(stream.members)
          /\ stream.members[entry.revision + 1].id = id
          /\ stream.members[entry.revision + 1].what # "broken"

HasParametersIn(id, found) ==
    LET entry == GetXrefEntry(id)
        body == BodyAt(entry.position)
    IN entry.type = "Existing" /\ body.what = "stream" /\ body.parameters # 0 =>
           body.parameters \in found

Rounds(withParameters) ==
    LET after[n \in 0 .. GetXrefSize] ==
            IF n = 0 THEN {}
            ELSE {id \in 0 .. MaxIDs :
                    /\ IsFound(id, after[n - 1])
                    /\ withParameters => HasParametersIn(id, after[n - 1])}
    IN after

Found == Rounds(FALSE)[GetXrefSize]
Readable == Rounds(TRUE)[GetXrefSize]

Answered == calls = <<>> /\ asked # 0 /\ ~undefined

(* An object is found whenever the file, read as a whole, has it, and no   *)
(* other object ever in its place, whatever was asked before and whatever  *)
(* asks for what on the way: "cycle check" refuses only what could not be  *)
(* read, and the cache never answers for another stream.                   *)
FindsWhatIsThere ==
    Answered =>
        IF asked \in Found THEN answer.id = asked /\ answer.what = KindIn(asked)
        ELSE answer = Nothing

(* The strings of an object in the file are decrypted with its own key,    *)
(* and those in object streams, which "already enjoy the object stream     *)
(* protection", with none, however many failed objects left their keys.    *)
StringsHaveTheirKey ==
    Answered /\ answer # Nothing =>
        answer.stringsBy = IF file.encrypted /\ GetXrefEntry(asked).type = "Existing"
                           THEN asked ELSE 0

(* A stream is given its own key, unless the parameters of its crypt       *)
(* filter cannot be read: an object on the way to them is not there, or    *)
(* they need themselves, and the key of that object stays on top then.     *)
StreamsHaveTheirKey ==
    Answered /\ answer.what = "stream" =>
        LET parameters == BodyAt(answer.at).parameters IN
        \/ answer.streamBy = IF file.encrypted THEN asked ELSE 0
        \/ file.encrypted /\ parameters # 0 /\ parameters \notin Readable

(* Between calls the parser of objects reads the file, also after a call   *)
(* that broke off in an object stream.                                     *)
RestsOnTheFile == calls = <<>> => reading = "file"

(* The cached headers are those of this file's streams, also when a parser *)
(* is used for one file after another.                                     *)
HeadersAreOfThisFile ==
    \A id \in DOMAIN headers :
        LET members == BodyAt(GetXrefEntry(id).position).members IN
        headers[id] = [k \in DOMAIN members |-> members[k].id]

(* A deleted stream is read only when an object stream is opened again     *)
(* whose Length stands in an object of its own.                            *)
ReadsWhatItOwns ==
    undefined => \E p \in DOMAIN file.bodies : file.bodies[p].length # 0

(* Every call returns, however objects refer to each other.                *)
CallsReturn == (calls # <<>>) ~> (calls = <<>>)

(* Strings and streams are decrypted under the key they were encrypted     *)
(* under.                                                                  *)
KeysAreRight ==
    /\ StringsHaveTheirKey
    /\ StreamsHaveTheirKey

(* Between calls nothing is left of the calls before: the parser of        *)
(* objects reads the file, and what is cached is of this file.             *)
ParserIsAtHome ==
    /\ TypeOK
    /\ RestsOnTheFile
    /\ HeadersAreOfThisFile
    /\ ReadsWhatItOwns

(* Neither a chain of sections nor objects that refer to each other keep   *)
(* the parser from returning.                                              *)
ParserReturns ==
    /\ ParsingEnds
    /\ CallsReturn
=============================================================================
