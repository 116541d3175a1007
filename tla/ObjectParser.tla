---------------------------- MODULE ObjectParser ----------------------------
(***************************************************************************)
(* PDFObjectParser and its PDFParserTokenizer over the buffered stream of  *)
(* a file.  The tokenizer reads byte by byte and may put one byte back;    *)
(* the parser calls itself for the members of arrays and dictionaries, and *)
(* looks up to two tokens ahead, which it puts back, to tell a reference   *)
(* from an integer and a stream from a dictionary.                         *)
(*                                                                         *)
(* A byte of the model stands for a lexeme: a newline (for any white space *)
(* or comment), a mark, or a piece of a regular token, which grows until   *)
(* white space or a mark.  Strings are left out: to the parser they are    *)
(* tokens that are objects of their own, as words are.                     *)
(***************************************************************************)
EXTENDS BufferedInput, SequencesExt, FiniteSets

CONSTANTS
    Contents,        \* what files may say: sequences of lexemes
    MaxObjectDepth,  \* MAX_OBJECT_DEPTH
    Moves            \* bound: where a parser is moved to

White == "_"
Digits == {"0", "7"}
Marks == {"[", "]", "<<", ">>"}
Breakers == Marks \cup {"/N"}
Lexemes == {White, "-1", "R", "word", "stream"} \cup Digits \cup Breakers

(* The keyword stream is always followed by the end of its line.           *)
ASSUME ContentsAssumption ==
    /\ Contents \subseteq Seq(Lexemes)
    /\ \A c \in Contents : \A i \in DOMAIN c : c[i] = "stream" => i < Len(c) /\ c[i + 1] = White
ASSUME MaxObjectDepthAssumption == MaxObjectDepth \in Nat /\ Moves \subseteq 0 .. MaxPosition
ASSUME TokenizerReadsBytes == 1 \in ReadSizes

VARIABLES
    attached,     \* has the parser been given the file?
    content,      \* what the file says
    pushed,       \* mHasTokenBuffer: the byte before the position is put back
    partial,      \* tokenBuffer of GetNextToken
    token,        \* what GetNextToken returned, <<>> before
    tokenBuffer,  \* mTokenBuffer
    stack,        \* the running calls, innermost last
    depth,        \* mDepth
    returned,     \* the object that a call returned
    from,         \* where reading began
    objects,      \* the objects read since
    finished      \* did the last call return NULL?

tokenizerVars == <<pushed, partial, token>>
parserVars == <<tokenBuffer, stack, depth, returned>>
callerVars == <<attached, content, from, objects, finished>>
allVars == <<vars, tokenizerVars, parserVars, callerVars>>

Object(kind, parts, start) == [kind |-> kind, parts |-> parts, start |-> start]
None == Object("none", <<>>, 0)
Null == Object("NULL", <<>>, 0)

NoToken == <<>>
End == <<"end">>

Larger(a, b) == IF a >= b THEN a ELSE b

IsNumber(t) == Head(t) \in Digits \cup {"-1"} /\ \A i \in 2 .. Len(t) : t[i] \in Digits
IsNonnegative(t) == IsNumber(t) /\ Head(t) # "-1"
IsPositive(t) == IsNonnegative(t) /\ \E i \in DOMAIN t : t[i] # "0"
IsName(t) == Head(t) = "/N"

(* The object that a token is by itself.                                   *)
Simple(t) == Object(IF IsNumber(t) THEN "integer" ELSE IF IsName(t) THEN "name" ELSE "symbol", t, 0)

Call(step) == [step |-> step, object |-> None, second |-> NoToken, items |-> <<>>]
Top == Last(stack)
ReplaceTop(call) == stack' = Append(Front(stack), call)
-----------------------------------------------------------------------------
ParserInit ==
    /\ Init
    /\ attached = FALSE /\ content = <<>>
    /\ pushed = FALSE /\ partial = <<>> /\ token = NoToken
    /\ tokenBuffer = <<>> /\ stack = <<>> /\ depth = 0 /\ returned = None
    /\ from = 0 /\ objects = <<>> /\ finished = FALSE

(* The file before a parser reads it.                                      *)
ReadUnparsed == ~attached /\ Next /\ UNCHANGED <<tokenizerVars, parserVars, callerVars>>

ResetReadState ==
    /\ pushed' = FALSE /\ partial' = <<>> /\ token' = NoToken
    /\ tokenBuffer' = <<>> /\ depth' = 0

(* A parser is given a file that was just opened.                          *)
SetReadStream ==
    /\ ~attached /\ last.call = "OpenFile"
    /\ content' \in {c \in Contents : Len(c) = size}
    /\ attached' = TRUE
    /\ ResetReadState
    /\ UNCHANGED <<vars, stack, returned, from, objects, finished>>

MovePositionInStream(p) ==
    /\ attached /\ stack = <<>> /\ returned = None /\ objects # <<>>
    /\ SetPosition(p)
    /\ ResetReadState
    /\ from' = p /\ objects' = <<>> /\ finished' = FALSE
    /\ UNCHANGED <<stack, returned, attached, content>>

(* The caller asks for objects until it is given none.                     *)
ParseNewObject ==
    /\ attached /\ stack = <<>> /\ ~finished /\ returned = None
    /\ stack' = <<Call("object")>>
    /\ UNCHANGED <<vars, tokenizerVars, tokenBuffer, depth, returned, callerVars>>

TakeObject ==
    /\ stack = <<>> /\ returned # None
    /\ objects' = IF returned = Null THEN objects ELSE Append(objects, returned)
    /\ finished' = (returned = Null)
    /\ returned' = None
    /\ UNCHANGED <<vars, tokenizerVars, tokenBuffer, stack, depth, attached, content, from>>
-----------------------------------------------------------------------------
(***************************************************************************)
(* GetNextToken.                                                           *)
(***************************************************************************)
AwaitsToken == stack # <<>> /\ returned = None /\ token = NoToken

GetNextTokenFromBuffer ==
    /\ AwaitsToken /\ tokenBuffer # <<>>
    /\ token' = Head(tokenBuffer) /\ tokenBuffer' = Tail(tokenBuffer)
    /\ UNCHANGED <<vars, pushed, partial, stack, depth, returned, callerVars>>

Tokenizes == AwaitsToken /\ tokenBuffer = <<>> /\ UNCHANGED <<parserVars, callerVars>>

(* Mutant: a mark ends a token that has not begun.                         *)
EndsAtAnyMark(byte) == byte = White \/ byte \in Breakers

EndsToken(byte) == byte = White \/ (byte \in Breakers /\ partial # <<>>)

(* White space is skipped or ends a token, a mark is a token or is put     *)
(* back to end one, and all else makes the token longer.                   *)
TakeByte(byte) ==
    IF EndsToken(byte)
    THEN partial' = <<>> /\ token' = partial /\ pushed' = (byte # White)
    ELSE /\ pushed' = FALSE
         /\ IF byte \in Marks THEN token' = <<byte>> /\ UNCHANGED partial
            ELSE partial' = Append(partial, byte) /\ UNCHANGED token

EndOfBytes ==
    /\ token' = IF partial = <<>> THEN End ELSE partial
    /\ partial' = <<>>
    /\ UNCHANGED pushed

TakePushedByte ==
    /\ Tokenizes /\ pushed
    /\ TakeByte(content[GetCurrentPosition])
    /\ UNCHANGED vars

ReadByte ==
    /\ Tokenizes /\ ~pushed /\ NotEnded
    /\ Read(1)
    /\ IF last'.data = <<>> THEN EndOfBytes ELSE TakeByte(content[Head(last'.data) + 1])

MeetEnd == Tokenizes /\ ~pushed /\ ~NotEnded /\ EndOfBytes /\ UNCHANGED vars
-----------------------------------------------------------------------------
(***************************************************************************)
(* The calls of the parser.                                                *)
(***************************************************************************)
Has(step) == stack # <<>> /\ Top.step = step /\ token # NoToken /\ returned = None
Parses == token' = NoToken /\ UNCHANGED <<vars, pushed, partial, callerVars>>

Return(object) == stack' = Front(stack) /\ returned' = object
CallForMember(call) == stack' = Append(Append(Front(stack), call), Call("object")) /\ UNCHANGED returned

SaveTokens(tokens) == tokenBuffer' = tokenBuffer \o tokens
ReturnToken == tokenBuffer' = <<token>> \o tokenBuffer

StartObject ==
    /\ Has("object") /\ Parses /\ UNCHANGED tokenBuffer
    /\ \/ /\ token = End
          /\ Return(Null) /\ UNCHANGED depth
       \/ /\ IsPositive(token)
          /\ ReplaceTop([Call("version") EXCEPT !.object = Simple(token)])
          /\ UNCHANGED <<returned, depth>>
       \/ /\ token \in {<<"[">>, <<"<<">>}
          /\ depth' = depth + 1
          /\ IF depth = MaxObjectDepth THEN Return(Null)
             ELSE /\ ReplaceTop(Call(IF token = <<"[">> THEN "items" ELSE "key"))
                  /\ UNCHANGED returned
       \/ /\ token # End /\ ~IsPositive(token) /\ token \notin {<<"[">>, <<"<<">>}
          /\ Return(Simple(token)) /\ UNCHANGED depth

(* An integer: is it followed by a version ...                             *)
LookForVersion ==
    /\ Has("version") /\ Parses /\ UNCHANGED depth
    /\ IF IsNonnegative(token)
       THEN ReplaceTop([Top EXCEPT !.step = "keyword", !.second = token]) /\ UNCHANGED <<returned, tokenBuffer>>
       ELSE Return(Top.object) /\ SaveTokens(IF token = End THEN <<>> ELSE <<token>>)

(* Mutants: the tokens are put back in the wrong order, or the integer     *)
(* that is returned is put back as well.                                   *)
LookForKeywordSwapped ==
    /\ Has("keyword") /\ Parses /\ UNCHANGED depth
    /\ Return(Top.object) /\ SaveTokens(<<token, Top.second>>)
LookForKeywordAgain ==
    /\ Has("keyword") /\ Parses /\ UNCHANGED depth
    /\ Return(Top.object) /\ SaveTokens(<<Top.object.parts, Top.second, token>>)

(* ... and an R?  At the end of the text the version is forgotten.         *)
LookForKeyword ==
    /\ Has("keyword") /\ Parses /\ UNCHANGED depth
    /\ IF token = <<"R">>
       THEN Return(Object("reference", <<Top.object.parts, Top.second>>, 0)) /\ UNCHANGED tokenBuffer
       ELSE Return(Top.object) /\ SaveTokens(IF token = End THEN <<>> ELSE <<Top.second, token>>)

(* Mutant: an array that is closed is not left.                            *)
NextMemberKeepsDepth ==
    /\ Has("items") /\ Parses
    /\ IF token \in {End, <<"]">>}
       THEN /\ Return(IF token = End THEN Null ELSE Object("array", Top.items, 0))
            /\ UNCHANGED <<tokenBuffer, depth>>
       ELSE CallForMember(Top) /\ ReturnToken /\ UNCHANGED depth

(* The loop of ParseArray.                                                 *)
NextMember ==
    /\ Has("items") /\ Parses
    /\ IF token \in {End, <<"]">>}
       THEN /\ Return(IF token = End THEN Null ELSE Object("array", Top.items, 0))
            /\ depth' = depth - 1 /\ UNCHANGED tokenBuffer
       ELSE CallForMember(Top) /\ ReturnToken /\ UNCHANGED depth

(* It takes another token before it sees that a member failed.             *)
LeaveArray ==
    /\ Has("failed") /\ Parses
    /\ Return(Null) /\ depth' = depth - 1 /\ UNCHANGED tokenBuffer

(* The loop of ParseDictionary.                                            *)
NextKey ==
    /\ Has("key") /\ Parses
    /\ IF token = <<">>">>
       THEN /\ ReplaceTop([Call("stream") EXCEPT !.items = Top.items])
            /\ depth' = depth - 1 /\ UNCHANGED <<returned, tokenBuffer>>
       ELSE IF token = End
       THEN Return(Null) /\ depth' = depth - 1 /\ UNCHANGED tokenBuffer
       ELSE CallForMember(Top) /\ ReturnToken /\ UNCHANGED depth

StreamStart == IF pushed THEN GetCurrentPosition - 1 ELSE GetCurrentPosition

(* A dictionary: is it that of a stream, which starts here?                *)
LookForStream ==
    /\ Has("stream") /\ Parses /\ UNCHANGED depth
    /\ IF token = <<"stream">>
       THEN Return(Object("stream", Top.items, StreamStart)) /\ UNCHANGED tokenBuffer
       ELSE /\ Return(Object("dictionary", Top.items, 0))
            /\ SaveTokens(IF token = End THEN <<>> ELSE <<token>>)

(* A member is back.                                                       *)
Resumes == stack # <<>> /\ returned # None /\ UNCHANGED <<vars, tokenizerVars, tokenBuffer, callerVars>>

AppendMember ==
    /\ Resumes /\ Top.step = "items"
    /\ ReplaceTop(IF returned = Null THEN Call("failed") ELSE [Top EXCEPT !.items = Append(@, returned)])
    /\ returned' = None /\ UNCHANGED depth

FailDictionary == Return(Null) /\ depth' = depth - 1

TakeKey ==
    /\ Resumes /\ Top.step = "key"
    /\ IF returned.kind # "name" THEN FailDictionary
       ELSE /\ stack' = Append(Append(Front(stack), [Top EXCEPT !.step = "value", !.object = returned]),
                               Call("object"))
            /\ returned' = None /\ UNCHANGED depth

TakeValue ==
    /\ Resumes /\ Top.step = "value"
    /\ IF returned = Null THEN FailDictionary
       ELSE /\ ReplaceTop([Call("key") EXCEPT !.items = Append(Top.items, <<Top.object, returned>>)])
            /\ returned' = None /\ UNCHANGED depth

ParserStep ==
    \/ GetNextTokenFromBuffer \/ TakePushedByte \/ ReadByte \/ MeetEnd
    \/ StartObject \/ LookForVersion \/ LookForKeyword \/ NextMember \/ LeaveArray
    \/ NextKey \/ LookForStream \/ AppendMember \/ TakeKey \/ TakeValue

ParserNext ==
    \/ ReadUnparsed \/ SetReadStream \/ ParseNewObject \/ TakeObject \/ ParserStep
    \/ \E p \in Moves : MovePositionInStream(p)

ParserSpec == ParserInit /\ [][ParserNext]_allVars /\ WF_allVars(ParserStep)
-----------------------------------------------------------------------------
(***************************************************************************)
(* What a text says, without a look at how it is read: its tokens are its  *)
(* marks and its longest runs of regular lexemes, and its objects follow   *)
(* the grammar, with as many tokens as that needs.                         *)
(***************************************************************************)
Text == SubSeq(content, from + 1, Len(content))

IsJoined(k) ==
    /\ k > 1 /\ Text[k] \notin Breakers \cup {White}
    /\ Text[k - 1] \notin Marks \cup {White}

TokenAt(i) ==
    LET ends == {j \in i .. Len(Text) : \A k \in i + 1 .. j : IsJoined(k)}
    IN SubSeq(Text, i, CHOOSE j \in ends : \A k \in ends : k <= j)

TokensFrom[i \in 1 .. Len(Text) + 1] ==
    IF i > Len(Text) THEN <<>>
    ELSE IF Text[i] = White \/ IsJoined(i) THEN TokensFrom[i + 1]
    ELSE <<[units |-> TokenAt(i), start |-> i]>> \o TokensFrom[i + 1]

Tokens == TokensFrom[1]

Failed == [object |-> Null, next |-> 0, height |-> 0]
Parsed(object, next, height) == [object |-> object, next |-> next, height |-> height]

Is(tokens, p, what) == p \in DOMAIN tokens /\ tokens[p].units = <<what>>

(* A member or a pair, and the others after it.                            *)
After(first, others, member) ==
    IF first.next = 0 \/ others.next = 0 THEN Failed
    ELSE Parsed(<<member>> \o others.object, others.next, Larger(first.height, others.height))

(* The object that begins with the p-th token, given what begins with      *)
(* those after it.                                                         *)
ObjectAt(tokens, read, p) ==
    LET t == tokens[p].units
        members == read[p + 1].members
        pairs == read[p + 1].pairs
    IN IF p > Len(tokens) THEN Failed
       ELSE IF t = <<"[">>
       THEN IF members.next = 0 THEN Failed
            ELSE Parsed(Object("array", members.object, 0), members.next, members.height + 1)
       ELSE IF t = <<"<<">>
       THEN IF pairs.next = 0 THEN Failed
            ELSE IF Is(tokens, pairs.next, "stream")
            THEN Parsed(Object("stream", pairs.object, from + tokens[pairs.next].start + 1),
                        pairs.next + 1, pairs.height + 1)
            ELSE Parsed(Object("dictionary", pairs.object, 0), pairs.next, pairs.height + 1)
       ELSE IF /\ IsPositive(t)
               /\ p + 1 \in DOMAIN tokens /\ IsNonnegative(tokens[p + 1].units)
               /\ Is(tokens, p + 2, "R")
       THEN Parsed(Object("reference", <<t, tokens[p + 1].units>>, 0), p + 3, 0)
       ELSE Parsed(Simple(t), p + 1, 0)

(* The members and the pairs up to the end of their array or dictionary,   *)
(* and the objects up to the first that is broken or too deep.             *)
MembersAt(tokens, read, p, object) ==
    IF Is(tokens, p, "]") THEN Parsed(<<>>, p + 1, 0)
    ELSE IF object.next = 0 THEN Failed
    ELSE After(object, read[object.next].members, object.object)

PairsAt(tokens, read, p, key) ==
    IF Is(tokens, p, ">>") THEN Parsed(<<>>, p + 1, 0)
    ELSE IF key.object.kind # "name" THEN Failed
    ELSE LET value == read[key.next].object
         IN IF value.next = 0 THEN Failed
            ELSE After(value, read[value.next].pairs, <<key.object, value.object>>)

ObjectsAt(read, object) ==
    IF object.next = 0 \/ object.height > MaxObjectDepth THEN <<>>
    ELSE <<object.object>> \o read[object.next].objects

(* What begins with the p-th token.                                        *)
GrammarAt(tokens, read, p) ==
    LET object == ObjectAt(tokens, read, p)
    IN [object |-> object, members |-> MembersAt(tokens, read, p, object),
        pairs |-> PairsAt(tokens, read, p, object), objects |-> ObjectsAt(read, object)]

Grammar(tokens) ==
    LET read[p \in 1 .. Len(tokens) + 1] == GrammarAt(tokens, read, p)
    IN read

Written == Grammar(Tokens)[1].objects

EndsInTwoIntegers ==
    LET tokens == Tokens
        n == Len(tokens)
    IN n >= 2 /\ IsNonnegative(tokens[n].units) /\ IsPositive(tokens[n - 1].units)

(* The objects returned are those of the text, up to the first that is     *)
(* broken or too deep, and streams start right after their keyword: no     *)
(* token or byte that was put back is lost, repeated or overtaken, nor     *)
(* left over from before a move.  Only a last integer after another may    *)
(* be lost, as what might have been the version of a reference.            *)
ObjectsAsWritten ==
    finished =>
        \/ objects = Written
        \/ EndsInTwoIntegers /\ objects = Front(Written)

(* Whoever returns from an array or dictionary has left it: otherwise the  *)
(* later objects of a stream would be refused as too deep.                 *)
NestingIsUndone == stack = <<>> /\ returned # Null /\ ~finished => depth = 0

(* Not more than two tokens are ever read ahead, which is what the reader  *)
(* of an object stream's header may overshoot by.                          *)
ReadsTwoAhead == Len(tokenBuffer) <= 2

(* A call returns, at the end of the file too, where NotEnded may be true  *)
(* for one read more than there are bytes.                                 *)
ObjectsAreReturned == (stack # <<>>) ~> (stack = <<>>)

(* The objects are those of the text, and the parser is ready for the next *)
(* one: out of every array and dictionary, and never more than two tokens  *)
(* ahead.                                                                  *)
ParserIsRight ==
    /\ ObjectsAsWritten
    /\ NestingIsUndone
    /\ ReadsTwoAhead
=============================================================================
