# PDF-Writer in TLA+

PDF-Writer (PDFHummus) creates, parses and modifies PDF files. This directory
holds a model of the parts of its library, `src/PDFWriter`, in which a mistake
shows only after several calls: the bookkeeping of indirect objects and the
cross-reference section with its reader, the page tree, encryption over the
life of a writer, pages and forms with what is written after them, content and
its fonts, streams through their encoders, the copying of objects between
documents, and the parser down to the bytes it reads. Each module is translated
from the source; `PROJECT.json` maps every definition to the lines it stands for.

## 1. Inventory

The library is sequential: one thread calls a `PDFWriter`, which owns a
`DocumentContext` and an `ObjectsContext`. What is hard in it is not
concurrency but *protocol*: objects may be allocated, written, modified and
deleted in any order; a reference is written long before the object it names;
a document may be suspended into a state file and continued by another process
(`Shutdown`, `ContinuePDF`), modified again and again (`ModifyPDF`), or written
by a writer that wrote another one before (`Reset`, `EndPDF`, `StartPDF`); and
any of the calls may fail half way, which the caller may ignore.

| Component (files) | State | Operations | Interacts with | Correct when |
|---|---|---|---|---|
| Objects registry (`IndirectObjectsReferenceRegistry`) | a vector of entries: written, dirty, position, type, generation; whether positions are bounded | allocate, mark written, mark updated, delete, set up from a modified file | called by `ObjectsContext` and by everyone who allocates IDs | an entry that will be emitted points at the newest header of its own object; nothing is written twice |
| Xref writing (`ObjectsContext`) | none of its own | `WriteXrefTable`, `WriteXrefStream` | reads the registry; its output is read by `PDFParser` of the next session | a reader gets back exactly the dirty entries; the free list is one cycle; old objects stay readable |
| Objects, dictionaries, streams (`ObjectsContext`, `DictionaryContext`, `PDFStream`, `PrimitiveObjectsWriter`) | open dictionaries, free context, length objects | start/end of objects, dictionaries, arrays, streams, primitives | registry, encryption | nesting closes, lengths are right |
| Encryption (`EncryptionHelper`, `XCryptor`, `XCryptionCommon`) | XCryptors with a stack of object keys, pause level, failure flag | set-up, object start/end, pause/release, string and stream encryption, dictionary | `ObjectsContext` tells it of objects, `DocumentContext` finalizes it | what is in the file is under the key the Encrypt entry tells |
| Writer life cycle (`PDFWriter`, `OutputFile`) | the output file, the modified file and its parser | start, modify, end, reset, shutdown, continue | owns the contexts | each document is as it was asked for, whatever the writer did before |
| Page tree and catalog (`PageTree`, `CatalogInformation`) | nodes of at most `PAGE_TREE_LEVEL_SIZE` kids, the current node | add a page, grow | registry (node IDs), `DocumentContext` (writing, state) | pages in order, parents and counts right, every ID written |
| Document context (`DocumentContext`, `PDFPage`, `PDFFormXObject`, `ResourcesDictionary`, `TrailerInformation`, `InfoDictionary`) | trailer, catalog, end-writing tasks per page and form, annotations, extenders | write page, form, resources; finalize a new or modified document; state | everything above | tasks run once after their object; finalization writes all it allocated or fails |
| State file (`StateWriter`, `StateReader`) | an object file | write/read the state of each component | all `WriteState`/`ReadState` | a continued writer is the suspended one |
| Copying (`PDFDocumentHandler`, `PDFDocumentCopyingContext`) | source-to-target map, lists still to copy, replacements, extenders | copy objects, pages, page to form, merge pages | source `PDFParser`, registry, `DocumentContext` | each object once, all references satisfied, a call that succeeds delivered everything |
| Modified page (`PDFModifiedPage`) | new contents and forms of a page | start, pause, end contexts, write the page | copying context, `DocumentContext` | old contents kept, new resources reachable |
| Parser: xref, trailer, pages (`PDFParser`) | xref table, trailer, page IDs, object streams | open, read xref chain, parse objects | object parser, decryption | newest version wins, no endless loops |
| Object parser, tokenizer (`PDFObjectParser`, `PDFParserTokenizer`) | pushed-back tokens, nesting | parse the next object | parser | one object per call, pushed-back tokens not lost |
| Decryption (`DecryptionHelper`) | XCryptors with key stacks, access level | set-up with a password, object start/end | parser | mirrors encryption |
| Content contexts (`AbstractContentContext`, `GraphicStateStack`) | graphic states, current stream | operators, `q`/`Q`, text | streams, fonts, resources | state stack follows `q`/`Q` |
| Fonts in use (`UsedFontsRepository`, `AbstractWrittenFont`, `WrittenFont*`) | glyphs, codes, representations | encode text, write fonts at the end | font programs, registry | a glyph keeps its code |
| Font programs (CFF, TrueType, Type 1 readers, subsetters, charstring interpreters) | tables, operand stacks | parse, subset | streams | conversions |
| Images (JPEG, PNG, TIFF) | image information cache | write as form or image XObject | streams, bundled libraries | conversions |
| Streams (`Input*Stream`, `Output*Stream`) | buffers, positions | read, write, skip, flush | files | the bytes, in order, once |
| Utilities (reference counts, text, dates, encodings, MD5) | reference counts | | everyone | |
| Bundled third-party code (FreeType, LibAesgm, LibJpeg, LibPng, LibTiff, Zlib) | | | | not ours |

The hazards, at their lines and with the properties aimed at them, are in
`PROJECT.json` under `hazards`; every property of the runs is aimed at one of them.

## 2. Plan

The order followed what a broken property would cost: a wrong entry in the xref
loses an object of the user's document, a wrong page tree its pages, a wrong
key all of it. All steps are done but those marked.

1. `ReferencesRegistry`, and `XrefWriting` over it: objects and the sections
   that list them, session after session. *Proved about.*
2. `PageTree`: growth, state file, writing, combination with an old tree.
3. `WriterLifecycle`: encryption from `StartPDF` to `EndPDF`, reuse, continuation. *Proved about.*
4. `DeepCopy` and `CopyingContext`: what copying promises, and how it does it.
   *Proved about.*
5. `XrefParser` and `IndirectObjects` over it: the chain of sections, then
   objects, object streams, their cache and their keys. *Proved about.*
6. `ByteReader`, `BufferedInput`, `ObjectParser`: what a parser expects of a
   file, the buffer between, and tokens and objects over it. *Proved about.*
7. `PageWriting`: pages, forms, end-writing tasks and annotations, with a
   failure at each step. *Proved about.*
8. `WrittenFont`, `ContentContext`, `GlyphDrawing`: texts from glyphs to what a
   viewer shows. *`ContentContext` proved about.*
9. `ModifiedPage`: pages of a modified document. *Proved about.*
10. `StreamWriting`: the encoders of a stream, on a device that fails. *Proved
   about.*
11. *Left:* the list of pages of a parsed document (`ParsePagesIDs`), the
    merging of page content with renamed resources, the state of fonts in the
    state file, subroutines in charstring subsetting; proofs about `WrittenFont`, and
    about `PageTree` and `GlyphDrawing` once their walks are recursive functions.
## 3. The modules

A run checks a few named properties of each module; where one is a conjunction
(`TreeIsSound`, `SectionIsRight`, ...), its parts are named below it. Type
invariants are a part of one of them. In every module a comment "Mutant"
introduces a version of a definition with a bug that the code might have had;
`PROJECT.json` tells which property finds it.

### ReferencesRegistry

`registry` is `mObjectsWritesRegistry`, `headers` the sequence of "id gen obj"
headers in the output, oldest first, so that a header's index stands for its
byte position; `validate` is `mShouldValidateMaxWritePositionForXref`, and
`firstNewID` the number of IDs there were when the session began. A session
starts on a new file or on a parsed one (`SetupXrefFromModifiedFile`). The
actions are the calls that change the registry: `AllocateNewObjectID`, the
two `StartNewIndirectObject`s, `StartModifiedIndirectObject`, `DeleteObject`,
each with the header it writes. The two preconditions that the code leaves to
its callers are guards, with the comments they come from: an ID started as new
was "allocated in advance", and an object modified has been written.

- `RegistryIsSound`: what the xref will say of an object is the position of its
  newest header, after any order of calls (`DirtyEntriesResolve`), and an ID
  that is owed has no header yet (`UnwrittenHasNoHeader`).
- `HistoryIsKept` (action property): an entry's position moves only to a header
  of its own object, written in that step, or to 0 when freed
  (`PositionsFollowHeaders`), and an ID is begun as new once
  (`NewObjectsWrittenOnce`).

### XrefWriting

Extends the registry with the section that ends a session, as the code lays it
out: subsections found by two index loops, then lines, and the free list
carried through them by `nextFreeObject`. A *reader* is defined apart from it,
from the lines alone: it numbers them again and lays the section over the
table it had. `ModifyPDF` starts the next session from that table.

- `SectionIsRight`: the reader finds under each ID exactly the dirty entry
  there (`RoundTrip`); the free entries form one cycle through 0
  (`FreeListIsCycle`); no position needs more than ten digits
  (`TablePositionsFit`); and a finalization succeeds only if every ID was
  written or freed (`AllocatedAreAccountedFor`), which is what turns the
  failures ignored elsewhere into a failure of the document.
- `NewestIsFound`: after any number of sessions every object in use is found at
  its newest header (`NewestVersionVisible`), and a section changes no entry it
  does not list (`UntouchedEntriesKept`).

### PageTree

The nodes with their kids, parents and leaf flags (`PageTree`), the current
node (`CatalogInformation`), and one ID counter for nodes, pages and other
objects. Actions: write a page, write another object, delete the original root,
shut down and continue (the tree is rebuilt from the state file, in the code's
order), finalize a new document, finalize a modified one (the cases of
`FinalizeModifiedPDF`: no new pages, no old tree, a combined tree), and modify
the result. `ParsedTree` is what `PDFParser` makes of the file's tree.

- `TreeIsSound` for the tree in memory: `TreeIsBalanced`, `PagesInOrder`,
  `ParentsMatchKids`.
- `DocumentIsRight` for the file: `CountsAreRight`, `NoIDLeftUnwritten`,
  `DocumentReadsInOrder`: a reader walking the tree finds old pages first, then
  the new ones, in the order they were written.
- `SavedIsKept` (action properties): `OriginalPagesUntouched`,
  `ContinuedTreeIsSavedTree`.

The failure of a node's writing is not an action here: the only thing that
makes `StartNewIndirectObject` fail is a position past ten digits, and since
positions only grow, no later object succeeds either; the status that
`WritePageTree` overwrites is then set again by the next node. Found on the
way, and visible in the model: a document whose root was deleted without new
pages cannot be modified again, for the parser refuses it (a guard of
`ModifyPDF`), and `WriteCombinedPageTree` copies the old root's original
content even if the user has rewritten it in this session.

### WriterLifecycle

`helper` is the `EncryptionHelper`: its pause level, its failure flag, the
XCryptor registered as StdCF with its stack of object keys, and the one used
for strings and streams, which is the same object or not (`shared`).
`hasHelper` is `ObjectsContext`'s pointer to it. A cipher is symbolic: plain,
broken, or the pair of a file key and the object ID it was derived from, which
for AESV3 keys does not depend on the object. Actions are the calls of the
user: start a plain, encrypted or unsupported document, modify one with or
without a password, objects, strings and streams, `EndPDF` and its failures,
`Reset`, `Shutdown`, `ContinuePDF`.

- `DocumentIsReadable`: what is in the document, and what its Encrypt entry
  says, is what was asked for (`EncryptionAsRequested`), and whoever reads by
  that entry decrypts every object (`ObjectsReadable`).
- `KeysFollowObjects`: the top of the stack is the key of the open object
  (`KeyStackFollowsObjects`), and encryption is paused only in streams
  (`PausedOnlyInStreams`).
- `BrokenStringsAreReported`: a document with a string that could not be
  encrypted does not end well.

The passing run uses a writer that does not start another document after an
encrypted one, nor continues an encrypted document; the constants
`ReuseAfterEncryption` and `ContinueEncryption` open these, and section 5 tells
what happens then.

### DeepCopy and CopyingContext

`DeepCopy` is the promise: a copy that succeeds delivers in one step the
objects it was asked for and all they lead to that have no place in the target
yet; one that fails has done some of its work.

`CopyingContext` is how the code does it. A call of `WriteNewObjects` is a list
of the stack `stack`, the innermost first; `Step` is one turn of the innermost
loop, and the recursion `WriteNewObjects` - `CopyInDirectObject` is a list
pushed. `map` is `mSourceToTarget`, `copied` is `ioCopiedObjects` (a set per
outermost call), `owed` the lists handed to the user by
`CopyDirectObjectWithDeepCopy`, `page` the page whose resources were copied
ahead. Source objects may be missing, which makes the target entry a deleted
one, or broken, which fails the call.

- `CopiesAreRight`: no object is written twice (`CopiedOnce`); an ID without
  an object is in a list that someone still holds (`ListsAreOwed`); a reference
  of a copied object reaches the copy of the object that the source refers to,
  of the same context, or the user's replacement (`ReferencesReachCopies`).
- `NothingIsMissing`: a call that succeeded left nothing unwritten
  (`NothingForgotten`); the list that `OnResourcesWrite` throws away, commented
  "this one should remain empty", is empty (`PageFindsItsResources`); no hole
  is in a document finished after calls that succeeded
  (`FinishedDocumentIsComplete`).
- `CallsReturn` (liveness): no cycle of references keeps a call running.
- `ImplementsDeepCopy` (refinement): `placed` and `delivered` of the abstract
  specification are the map and the written targets between calls, and those
  at the call's beginning (`before`) while it runs.

### XrefParser

A file is its cross-reference sections (tables, streams, and hybrids with an
`XRefStm`) with what their trailers and lines say, and a position is the number
of a section. `frames` are the running calls of `ParsePreviousXrefs`, innermost
last, each with the table it has read and not merged; `xrefTable`, `xrefSize`
and `parsedXrefs` are the members. The chain is followed down
(`ParsePreviousXrefs`), merged on the way back (`MergeXrefWithMainXref`), and
`ReadNewestSection` lays the newest section over it. One parser parses several
files, and `mXrefSize` is not reset between them. `success` is that of
`ParseFileDirectory`. The reading of a line is "parses" or "Bad", a file's
integers are such that the sum of a stream's subsection does not wrap, and
`mAllowExtendingSegments` is true, which the constructor alone sets.

- `XrefIsRight`: of each object the parser has what the newest section listing
  it says, where the meaning of the file is defined apart, from the chain of
  positions and the numbering of lines (`NewestSectionWins`); and files are
  refused if, and only if, a section of their chain cannot be read or the chain
  leads back into itself (`RefusedWhenUnreadable`). The chain is the steps along
  `Prev` up to the section without one, and lines are numbered subsection by
  subsection (`Numbering`).

### IndirectObjects

Extends `XrefParser` with the objects: `calls` are the running
`ParseNewObject`s, innermost last, each with the step it has reached and the
stream it holds; `reading` is what the one `PDFObjectParser` reads, the file or
an object stream; `headers` is `mObjectStreamsCache`, `keys` the decryption
helper's stack. A call asks others for the stream that an object is in, for a
`Length` that stands in an object of its own, for the parameters of a crypt
filter, and every ask may fail or ask for what is already being parsed. The
values inside objects are left out. The
reading of an object stream that the code has deleted is any outcome the build
can produce (`ParseFromDeletedStream`, `undefined`). A header's reader may
overshoot by two tokens, which `ReadsTwoAhead` of `ObjectParser` bounds.

What can be read is said apart from the calls, in rounds (`Rounds`): each adds
the objects whose streams and lengths the rounds before have found, to `Found`
in the end; `Readable` are those that need no parameters of a crypt filter but
readable ones besides.

- `FindsWhatIsThere`: an object is found whenever the file, read as a whole,
  has it (`Found`), and no other object in its place.
- `KeysAreRight`: strings (`StringsHaveTheirKey`) and streams
  (`StreamsHaveTheirKey`) are decrypted with their own key, or none in object
  streams, however many failed objects left theirs on the stack; a stream whose
  parameters are not `Readable` is the exception of section 5.
- `ParserIsAtHome`: between calls the parser of objects reads the file
  (`RestsOnTheFile`), cached headers are those of this file's streams
  (`HeadersAreOfThisFile`), and a deleted stream is only read in the one case
  of section 5 (`ReadsWhatItOwns`).
- `ParserReturns` (liveness): wherever `Prev` points, and however objects refer
  to each other.

### ByteReader, BufferedInput and ObjectParser

`ByteReader` is what `IByteReaderWithPosition` promises: one position, and
reads of the bytes from there. `BufferedInput` is `InputBufferedStream` over a
`FILE`: the position and end indicator of the `FILE` (`at`, `ended`) and what
is left in the buffer (`unread`); a byte is known by its offset. Actions are
its calls, with the three cases of `Read`.

- `BufferIsRight`: the bytes in the buffer are those before the `FILE`'s
  position (`BufferEndsAtFile`), and the end is told only there (`EndIsReal`).
- `IsByteReader` (refinement): no order of reads, skips, seeks and size queries
  lets a caller see that there is a buffer. With it, `ShortReadEnds` is proved:
  a short read is followed by `NotEnded` false.

`ObjectParser` extends the stream with the tokenizer, which reads byte by byte
and may put one byte back (`pushed`), and the parser, whose calls are `stack`
and whose tokens read ahead are `tokenBuffer`. A byte of the model is a lexeme:
white space, a mark, or a piece of a word, which grows until white space or a
mark. Strings and comments are left out: to the parser a string is a token like
a word, and a comment is white space. The meaning of a text is defined apart
from it: its tokens are its marks and longest runs (`Tokens`), and what begins
with a token, an object, the members of an array or the pairs of a dictionary, is
computed from what begins with those after it (`GrammarAt`, `Written`).

- `ParserIsRight`: the objects returned are those of the text, up to the first
  that is broken or too deep, and a stream begins where its content does
  (`ObjectsAsWritten`); nesting is undone (`NestingIsUndone`); never more than
  two tokens are read ahead (`ReadsTwoAhead`).
- `ObjectsAreReturned` (liveness), at the end of a file too.

### StreamWriting

One stream object of a document through `PDFStream`, the deflating stream, the
RC4 or AES stream, the document's `OutputBufferedStream` or the temporary stream
of a length written first, and the C library's `FILE`. Bytes are units: those
of the content are numbered, and an encoded unit tells what it was made of. A
call results in a set of outcomes, for the device may fail at any write and
work again later, and what the C library held back then is kept or lost. What
each layer does with its lower one's failure is the code's, also when it ignores
it. Deflate and the ciphers are external: one unit in, one out, and an end mark,
an IV, blocks and a padding.

- `StreamsAreRight`: while the device works, the section of the file between
  the recorded positions decrypts and inflates to the content, whatever flushes
  what (`WorkingDevice`); and whatever fails, units are in order and none is
  there twice (`InOrder`).
- `LossIsTold`: no part of a stream is lost without a call that says so, if the
  `Flush` of `CloseFile` is listened to; neither under RC4, nor for a length
  written first, see section 5.

### PageWriting

`DocumentContext`'s containers, pages and forms, by the address they are
allocated at; their images and opacity states, which get IDs when first used;
the two lists of end-writing tasks of a container (`tasks`); and the annotations
that wait for the next page. Actions are the calls of a user, each with the
failures the code meets on the way: a page whose resources, tasks or extenders
fail, a form that cannot begin or end, `EndPDF`, and the next document of the
same writer.

- `ReferencesResolve`: every reference in a finished document is to an object
  that was written and holds what the reference is for.
- `DocumentIsWhole`: what is owed is scheduled once (`OwedOnce`), objects do not
  nest (`ObjectsDontNest`), and a document without a failed call ends well
  (`WholeDocument`).
- `EveryoneGetsTheirOwn`: tasks run at the end of their own container, though
  a new one may be allocated at the address of one that was released; only tasks
  of a container that was released while they waited (`forsaken`), after a call
  that failed, may run for another. An annotation is on one page or waits
  (`AnnotationsOnOnePage`).

That even those tasks run for nobody else, `TasksRunForTheirOwner`, does not
hold: section 5. The passing run does not draw an image of an earlier document
again; `ImagesRedrawn` opens this, see there too.

### WrittenFont

One used font: `ansi` and `cid` are its two representations, `free` and `count`
the free codes of a CFF or Type 1 font, `shown` what content streams have shown
so far, `files` the font objects written at the end. Texts are encoded in one
byte if all their characters fit, in two otherwise, for TrueType fonts by
WinAnsiEncoding. What a viewer makes of a code is defined apart, from the font
objects (`AnsiGlyphs`, `CIDGlyphs`, the widths).

- `ShownIsRight`: a code in a content stream still means its glyph
  (`ShownDecodes`) and has its width (`ShownWidthsAreRight`) in what is written
  last.
- `FontIsRight`: the list of free codes and the codes given out never overlap
  (`FreeListMatches`), and every ID that content refers to becomes a font
  (`FontIDsWritten`).
- `CodesAreKept` (action property).

### ContentContext

A page's content contexts keep their own picture of the graphics state
(`stack`), with the font and size placed last, and write a `Tf` only if it
differs; `viewer` is the state of whoever executes the operators, one for all
streams of the page. `fonts` and `fontsCount` are the names in the page's
`ResourcesDictionary`. A program may name a font object at any time
(`AddFontMappingNamed`), also one that has a name, and with a name that another
has or that the dictionary will generate; `namings` remembers what it named.

- `ShownInItsFont`: a text is shown in its font at its size, across `q`, `Q`
  and contexts. `PictureMatches`, which is why: at every level what a context
  believes to be placed is placed.
- `NamesDenoteOne`: the name that a text was shown under means its font object,
  and no other, in the resources of the page, which are read when all of it has
  been written; unless the program itself gave the object another name, gave its
  name to another object, or had given it a name of the generated form. These
  exceptions are the code's: nothing checks a given name (for forms, the header
  advises to take care, `ResourcesDictionary.h:79`). What is left is that the
  dictionary of itself never changes or repeats a name.

### GlyphDrawing

`WriteText` over glyphs that may be plain, layered (COLRv0) or painted (COLRv1):
plain ones are gathered (`pending`) and shown together, coloured ones drawn at
once. The recursion over the graph of paints is the list `todo`, innermost call
first; `matrices` is `mGraphicStateMatrixStack`, `bounds` is `mBoundsStack`,
`ink` the viewer's graphics states, and `marks` what it shows. A fill is not of
the clip: the code fills the rectangle of the bounds noted last, those of the
innermost clip's glyph or else of the root glyph's plain outline, as the matrix
in effect at the fill puts it. Space has one dimension, in which a glyph's
outline is an interval and a matrix a scale and a shift; rotation and skew are
such matrices; the stops of a gradient have one colour.

- `DrawnAsMeant`: the marks are those that the text means (`TextMeaning`,
  defined over the graph of paints): every glyph at its place, every fill in its
  clips, matrix, colour and opacity, in order. The area painted is what the clips
  have in common where no transformation stands between the innermost clip and
  the fill (`FilledInPlace`). It need not be elsewhere, nor for a fill without a
  clip: `FillsAreWhole`, which asks for it, does not hold, see section 5.
- `GraphicsStateIsKept`: nothing is left of a coloured glyph, also when it
  failed (`NothingLeaks`), and the code's matrix is the viewer's
  (`MatrixMatches`).
- `WritingEnds` (liveness): also for a glyph that contains itself.

### ModifiedPage

`handles` are `PDFModifiedPage` objects with the forms they have collected and
their links; `dicts` the XObject entries of resources dictionaries, which pages
share (`uses`), `dirty` the source dictionaries written again, `annotations`
`DocumentContext`'s. Names are sequences of bytes, as a name for the
forms (`GetDifferentChar`) is computed from them byte by byte. `WritePage` writes the page over its
source, with its resources in place of where the code finds them.

- `NamesDistinct`: a dictionary never has two entries of one name.
- `PagesAreRight`: a written page paints exactly its forms
  (`PageShowsItsForms`), still has all that the source had (`SourceKept`), and
  places them in the initial graphics state (`FormsAreIndependent`).
- `LinksOnTheirPage`: links wait in one set for whichever page is written
  next, and are attached and pages written in any order. A link that waits is on
  no page; after that it is on its object's page and no other. One that waited
  while another object's page was written (`astray`) is on one page still, maybe
  that one; only a link of a page that was written again (`lost`) is on none. That
  there are no such links, `LinksOnNoOtherPage` and `LinksSomewhere`, does not
  hold: section 5.

A `WritePage` that fails, because an object cannot be started or ended, is left
out.

## 4. Runs, bounds and fairness

| Run | Module | Bounds | What it covers |
|---|---|---|---|
| `xref` | `MCXrefWriting` | 5 entries, 4 headers, generations to 2, positions to 3, 2 sessions | new and modified files with each kind of entry; sections with up to two gaps; every pattern of dirty, free and clean entries; a delete at the last generation; a position out of range; two incremental sections |
| `page_tree` | `MCPageTree` | fan-out 2 instead of 10, 5 pages a session, 3 sessions | trees of three levels, several growths, combination of combined trees |
| `lifecycle` | `MCWriterLifecycle` | 2 keys (one AESV3), 3 objects, 2 documents | a document before another; a failure in each place |
| `copying` | `MCCopyingContext` | 3 objects, 4 source graphs, 3 calls | cycle, self reference, sharing, missing and broken objects; an earlier failure before a later call |
| `parsing` | `MCIndirectObjects` | up to 3 sections and a hybrid's stream, tables to 6 entries; documents with 2 object streams that differ from the plain one in up to 2 ways, two whose parameters need others or themselves; 2 files, 2 asks, 7 calls inside each other | graphs of `Prev` over three sections; sections that extend the table, end early, number from 1, are bad; lengths and parameters in objects, in each other's streams and in themselves; broken members and headers; the cache and the keys left by the ask, or the file, before |
| `reading` | `MCObjectParser` | files of 0 to 9 bytes, buffer of 3, reads of 0 to 8; texts of all of up to 3 lexemes, all of 4 tokens set apart, longer ones; depth 2; moves to 0 and 2 | every residue of a read and of the file's end by the buffer; references, near references, arrays and dictionaries in each other, streams, broken and too deep objects |
| `stream_writing` | `MCStreamWriting` | 6 units, writes of 1, 2 and 5, buffer 3, cache 2, AES blocks of 2, 2 failures of the device | all 12 configurations; writes smaller and larger than the buffer and the block, a failure at any write, recovery |
| `page_writing` | `MCPageWriting` | 1 image, 1 opacity state, 2 addresses, 3 containers, 7 objects, 2 documents | a form inside a page, two pages, sharing between them; a third container at the address of a released one, with its tasks; every failure; the next document |
| `written_font` | `MCWrittenFont` | codes 0 to 6, 8 faces (TrueType and CFF, embedded or not), 10 texts | full and fragmented lists of free codes, a text that does not fit, characters without unicode or of several, the switch to two bytes |
| `content_context` | `MCContentContext` | 2 fonts with 3 objects, stack of 2, 2 generated names, 2 namings by the program | any order of `q`, `Q`, fonts, contexts; names of the program's own and of the generated form, for objects with and without a name |
| `glyph_drawing` | `MCGlyphDrawing` | fonts of 5 paints, 2 texts of 3 glyphs, outlines of two sizes and an empty one | the kinds of paint in each other, clips within clips and beside them, moves between a clip and its fill, cycles through colour glyphs, unknown colours |
| `modified_page` | `MCModifiedPage` | 4 pages (two share a dictionary, one inherits its own, one has none), 2 objects, 2 links, 3 forms, 4 writes | links attached and pages written in any order and again, shared dictionaries, names of the source that look generated |

The bounds are guards or constants named in the modules. They suffice because
the code treats IDs uniformly: its loops distinguish first, last, adjacent and
separated entries, which five entries give in all combinations; a page tree of
fan-out 2 grows a level at the third and the fifth page as one of fan-out 10
does at the eleventh and the hundred and first; a buffer only tells reads within
it, to its end, and past it; and the second session, call or document is the
first that can see stale state.

`CHECK_DEADLOCK FALSE` everywhere: a user may stop calling, a document that
ended stays so, and the bounds end every behaviour.

Fairness is weak fairness of what runs on the caller's thread until it returns:
`Step` in `CopyingContext`, `ParseStep` and `CallStep` in `XrefParser` and
`IndirectObjects`, `ParserStep` in `ObjectParser`, `Next` in `GlyphDrawing`,
which is one call. While such a call runs nothing else is enabled. No action of
a user's is fair, since nothing makes a user call.

## 5. Where code and words disagree

Each of the following is a property that the modules define, and that TLC finds
violated when it is added to the configuration of the run named, with the
constants given. None is part of the runs, which all pass.

| Where | What is said, and what happens | Property | Run, and constants |
|---|---|---|---|
| `ObjectsContext.cpp:365` | A modified object is headed with generation 0, while its xref entry, "object generation number", keeps the generation of the file | `HeaderHasEntryGeneration` | `xref` |
| `DocumentContext.cpp:483` | "will default to no encryption" (`DocumentContext.h:130`); but a plain document written after an encrypted one by the same writer gets an Encrypt entry, over plain text | `EncryptionAsRequested` | `lifecycle`, `ReuseAfterEncryption = TRUE` |
| `EncryptionHelper.cpp:191` | `Reset` allows "reuse of the PDFWriter class"; but `insert` keeps the XCryptor of the document before, and a second encrypted document is written under an empty object key | `NothingUnderEmptyKey` | the same |
| `DocumentContext.cpp:1891` | "IsEncrypting will return true if actually encrypting now"; but a continued document is written in plain text, since `ObjectsContext` is not given the helper | `EncryptsWhenItSaysSo` | `lifecycle`, `ContinueEncryption = TRUE` |
| `EncryptionHelper.cpp:523` | "failure in this should result in document failure" (`EncryptionHelper.h:90`); the state file leaves the flag out | `BrokenStringsAreReported` | the same |
| `DocumentContext.cpp:2265` | `Cleanup` does not empty the information on images: one drawn again by the next document of a writer is taken as written, and refers to another object or none | `ReferencesResolve` | `page_writing`, `ImagesRedrawn = TRUE` |
| `DocumentContext.cpp:771` | "a single time task for when a particular page ends" (`DocumentContext.h:338`); tasks of a page that failed stay under its address, for the next page there | `TasksRunForTheirOwner` | `page_writing` |
| `DocumentContext.cpp:823` | "extender declared failure when writing page" (:819); the status is overwritten by the next step's, and the page reported written | `ExtenderFailuresReturned` | `page_writing` |
| `PDFUsedFont.cpp:104` | "skip if there's no text going to be written" asks for the number of strings only: a list of empty strings allocates the ID of a font that is never written | `FontIDsWritten` | `written_font`, `Texts <- EmptyTexts` |
| `CFFDescendentFontWriter.cpp:63` | "Logically speaking, i shouldn't be getting to CID writing" for Type 1; a Type 1 font with more glyphs than fit does, and the end of the document fails | `FontIDsWritten` | `written_font`, `Fonts <- Type1` |
| `WrittenFontTrueType.cpp:136` | A glyph shown for two characters (hyphen and soft hyphen) is shown under both codes, but only the first is in the Widths array | `ShownWidthsAreRight` | `written_font`, `Texts <- HyphenTexts`, `Fonts <- TrueTypeOnly` |
| `WinAnsiEncoding.cpp:107` | Florin is given the code of dagger, 0x86 | `ShownDecodes` | `written_font`, `Texts <- FlorinTexts`, `Fonts <- TrueTypeOnly` |
| `PDFModifiedPage.cpp:103` | Links attached through one object wait in a list shared by all pages: whichever page is written next takes them | `LinksOnNoOtherPage` | `modified_page` |
| `PDFModifiedPage.cpp:203` | A second `WritePage` of an object starts from the source's annotations, without the links of the first | `LinksSomewhere` | `modified_page` |
| `PDFModifiedPage.cpp:158` | `WritePage` starts from the source's page: of two objects of one page the second replaces the contents of the first | `PageShowsItsForms` | `modified_page`, `SamePage = TRUE` |
| `AbstractContentContext.cpp:466` | `Q` is said to fail "in case there's inbalance"; the result of `Pop` is dropped | `ImbalanceIsReported` | `content_context`, `Balanced = FALSE` |
| `LayeredGlyphsDrawingContext.cpp:84` | A layer whose colour is unknown returns between `q` and `Q` | `NothingLeaks` | `glyph_drawing`, `ColourFonts <- BadLayers` |
| `PaintedGlyphsDrawingContext.cpp:261` | "with multiplier considered": an integer division makes every alpha below 1 zero, and the fill invisible | `DrawnAsMeant` | `glyph_drawing`, `Alpha = 2` |
| `PaintedGlyphsDrawingContext.cpp:271` | A fill sets the opacity of its colour without `q`: the fill beside it, in the text's colour, is drawn in it | `DrawnAsMeant` | `glyph_drawing`, `ColourFonts <- Crowded` |
| `PaintedGlyphsDrawingContext.cpp:459` | A gradient's stop in the colour of the text converts `NO_OPACITY_VALUE`, which "skips setting an alpha value", to a byte | `DrawnAsMeant` | `glyph_drawing`, `ColourFonts <- TextGradients` |
| `PaintedGlyphsDrawingContext.cpp:104` | Matrices of patterns begin at the glyph, as if the page were not transformed when the text is written | `DrawnAsMeant` | `glyph_drawing`, `Base <- Under` |
| `PaintedGlyphsDrawingContext.cpp:250` | Bounds are noted "so lower levels can fill to it" (:228), in the space of the clip; after a transformation below the clip they are filled in another, and part of the clip stays empty | `FillsAreWhole` | `glyph_drawing`, `ColourFonts <- MovedFills` |
| `PaintedGlyphsDrawingContext.cpp:88` | The first bounds are those of the plain outline, of which "getting the base glyph brings 0" (:84): a fill without a clip above it then paints nothing | `FillsAreWhole` | `glyph_drawing`, `ColourFonts <- Unclipped` |
| `PDFUsedFont.h:126` | Bounds are measured for a `long` font size where a text's is a `double`: half a size is cut off, and with it the edge of each fill | `DrawnAsMeant` | `glyph_drawing`, `FontSize = 3` |
| `PaintedGlyphsDrawingContext.cpp:348` | The centre of a scale, rotation or skew is taken for the translation of the matrix | `DrawnAsMeant` | `glyph_drawing`, `Centre = 1` |
| `InputBufferedStream.cpp:115` | `NotEnded` tells "whether reading will get more content or not"; at the end of a file it is true until a read has failed | `NotEndedIsRight` | `reading` |
| `OutputFile.cpp:75` | `CloseFile` closes "explicitly ... so status may be retrieved", but not that of the flush before | `CloseTells` | `stream_writing`, no compression, cipher `"none"`, `MaxFaults = 1` |
| `OutputFlateEncodeStream.cpp:49` | `FinalizeStreamWrite` "returns eFailure if compression ... could not be finalized"; not if the encoder gave up earlier | `FinalizeTells` | `stream_writing` |
| `OutputRC4XcodeStream.cpp:65` | `Write` returns "the number of written bytes"; RC4 counts those its target did not take | `WriteTells` | `stream_writing` |
| `OutputFlateEncodeStream.cpp:95` | "`_flush` is intended for one time call only before _finishing_"; a compressed stream flushes the document's, twice | `FlushedOnce` | `stream_writing` |

And four that the checked properties or theorems allow for, in so many words:
`PDFParser.cpp:1959` reads a deleted stream when an object stream whose `Length`
is in an object of its own is opened again (`ReadsWhatItOwns`);
`DecryptionHelper.cpp:548` gives a stream whose crypt filter's parameters cannot
be parsed, or cannot without the stream itself, the key that was left on the
stack, of an object on the way to them (`StreamsHaveTheirKey`: they are not
`Readable`); the parser loses a
last integer after another one at the end of a text (`PDFObjectParser.cpp:180`,
`EndsInTwoIntegers` in `ObjectsAsWritten`); and
`PDFParser.cpp:651`, which lets the first lines of a first table begin at 0
whatever is written there, tells them by `currentObject`, which an empty
subsection at 0 behind them sets back to 0: the start of the next subsection is
ignored as well (`FileIsClear` in `XrefIsAlwaysRight`; the files of the run are
clear).

## 6. Proofs

A module `XProofs` extends the module `X` and holds what TLAPS proves of it
(`XrefWritingProofs` of `ReferencesRegistry` and `ObjectParserProofs` of
`BufferedInput` too, which `XrefWriting` and `ObjectParser` extend;
`IndirectObjectsProofs` of `XrefParser` too; `ContentStreamProofs` of
`ContentContext` and of `StreamWriting`): for
every value of its constants that satisfies the module's assumption, where a
run has a small instance. The bounds of section 4 are constants too, so that
"any number of objects, calls, documents" is what a theorem says.

The assumptions are the `ASSUME`s of the modules (`ConstantsAssumption`,
`OriginalFilesAssumption`, `ConfigurationsAssumption`, `SizesAssumption`, `BufferSizeAssumption`,
`MaxPositionAssumption`, `LifecycleAssumption`, `PageWritingAssumption`,
`ContentContextAssumption`, `ModifiedPageAssumption`, `CopyingAssumption`,
`XrefParserAssumption`, `ObjectsAssumption`, `ContentsAssumption`,
`MaxObjectDepthAssumption`, `TokenizerReadsBytes`): types
of the constants, that model values are different from the words of the model,
that a source document is one, that a table's limit is a number an ID can
have, and that the keyword `stream` ends its line. Each is evaluated by TLC in a run.

`WriterLifecycle`, `ContentContext`, `PageWriting` and `ModifiedPage` have
constants that open what section 5 shows to be wrong. Where a theorem needs one
of them closed, as the passing run has it, it assumes so, and the table says
which; the other theorems hold either way.

| Module | Theorem | Says | For |
|---|---|---|---|
| `XrefWritingProofs` | `TypeCorrect`, `EntriesResolve`, `NothingUnregistered`, `RegistryHolds` | `RegistryIsSound` and its parts | all files and orders of calls |
| | `WrittenOnce`, `HistoryHolds` | `HistoryIsKept` and its parts, of every step | |
| | `SectionHolds` | `SectionIsRight` | all files to start from, any number of objects and sessions |
| | `RegistryHoldsInSessions`, `HistoryHoldsInSessions` | `RegistryIsSound`, `HistoryIsKept`, through sessions each of which continues what was parsed of the one before | |
| | `NewestHolds` | `NewestIsFound` | original files whose tables are right (`FilesAreRight`) |
| `ObjectParserProofs` | `TypesHold`, `BufferEnds`, `EndsAreReal`, `BufferAgrees` | `BufferIsRight` and its parts | all files, buffers, orders of calls |
| | `ShortReadsEnd` | a short read is followed by `NotEnded` false | |
| | `StreamIsByteReader` | `InputBufferedStream` implements `ByteReader` | |
| | `ParserIsCaller` | all of this while a parser reads the stream | |
| | `ParserReads` | `ParserIsRight` | all texts, limits of depth and places to begin at |
| `ModifiedPageProofs` | `DiagonalIsFresh` | the name computed from a dictionary's is none of them | any names |
| | `TypesHold`, `NamesStayDistinct` | `TypeOK`, `NamesDistinct` | all documents and orders of calls, the wrong ones of section 5 included |
| | `PagesStayRight` | `PagesAreRight` | pages not modified by two objects (`~SamePage`) |
| | `LinksStayOnTheirPage` | `LinksOnTheirPage` | all documents and orders of calls |
| `ContentStreamProofs` | `TypesHold`, `NamesMeanOneFont` | `TypeOK`, `NamesDenoteOne` | all programs, those that rename fonts and give names twice included |
| | `PictureIsRight`, `TextInItsFont` | `PictureMatches`, `ShownInItsFont` | programs that pair `q` and `Q` (`Balanced`) |
| | `StreamsInvHolds` | `StreamsInv`: how much of its content a stream has, and where | all chains of encoders, sizes of writes, buffer, block and cache, and failures of the device |
| | `StreamsStayRight`, `LossIsAlwaysTold` | `StreamsAreRight`, `LossIsTold` | |
| `WriterLifecycleProofs` | `FinishedIsReadable`, `BrokenIsReported`, `KeysFollow` | `DocumentIsReadable`, `BrokenStringsAreReported`, `KeysFollowObjects` | writers not reused after encryption, encrypted documents not suspended (`Cautious`) |
| `PageWritingProofs` | `AnnotationsAreOnOnePage` | `AnnotationsOnOnePage` | all programs and failures |
| | `DocumentStaysWhole`, `EveryoneGets` | `DocumentIsWhole`, `EveryoneGetsTheirOwn` | the same, and addresses allocated again |
| | `EveryReferenceResolves` | `ReferencesResolve` | users that draw no image of an earlier document (`~ImagesRedrawn`) |
| `CopyingContextProofs` | `CopiesStayRight`, `NothingGoesMissing` | `CopiesAreRight`, `NothingIsMissing` | all source documents, cyclic and broken ones included, and any number of calls and contexts |
| | `CopyingImplementsDeepCopy` | `CopyingContext` implements `DeepCopy` | |
| `IndirectObjectsProofs` | `CallsRight` | `CallInv`: how the running calls fit together | all files, parsed one after another, and all orders of asks |
| | `ParserIsAlwaysAtHome` | `ParserIsAtHome` | |
| | `FindsWhatTheFileHas` | `FindsWhatIsThere` | |
| | `KeysAreAlwaysRight` | `KeysAreRight` | |
| | `XrefIsAlwaysRight` | `XrefIsRight` | files whose first tables have no empty subsection at 0 behind their first lines (`FileIsClear`) |

The argument, in each:

**ReferencesRegistry.** `IInv` is `TypeOK`, `HeadersKnown`,
`UnwrittenHasNoHeader` and `DirtyEntriesResolve`. The last says that the position
of a dirty entry is its object's newest header. It is not inductive alone: a
header appended for an object makes it the newest of that object, and of no
other, only if headers name registered objects (`HeadersKnown`); and a step that
marks an ID as written finds no older header of it in the way only because IDs
that are not written have none. The two action properties follow from `IInv` in
the state before the step.

**XrefWriting.** A section is written by a loop over the registry and read by a
loop over the section, so the proof is an induction over both. Lemmas at the
head of the module turn the library's theorem about minima into induction over
sets of numbers, and into the existence of functions defined by recursion, by
which the writer's and the reader's functions are what their definitions say.
Then: the line written for an entry is the one whose number is its rank, the
count of entries to list before it (`ListsTheRegistry`); the free entry carried
by the loop is the first free one from there on; the subsections partition the
listed IDs in order (`Splits`), so that the reader, who numbers lines from the
start of their subsection, gives each the ID it was written for. Across
sessions the invariant (`Session`) is that the entry 0 is the head of the free
list, entries beyond the parsed table are dirty, used ones within it are written,
and those not dirty equal the table's. A finalization that succeeds makes a table
that gives the registry back, and the next session takes up from it with
the registry's `IInv` intact. `NewestIsFound` adds that untouched entries are
still the newest of their objects (`UntouchedAreNewest`), which must be asked of
the original file.

**BufferedInput.** `IInv` is `TypeOK`, `BufferEndsAtFile` (the bytes in the
buffer are consecutive and end at the `FILE`'s position) and `EndIsAtEnd` (the
end indicator is set at the end only). The bytes that `Read` returns are a part
of the buffer and, after it, a part of the file; lemmas about runs of
consecutive bytes say that two that meet join to one, and that a run's parts are
runs. From these each call returns what `ByteReader`'s does: the refinement has
a lemma for each call, and `Read` one for each of its three cases.

**ObjectParser.** The text is defined from its end and read from its start.
`Looks` joins the two: so many tokens are used, up to two more wait in the
parser's buffer, and the tokenizer stands where the tokens after these begin,
with a part of the first of them (`ReadsAt`, `Remains`). Every running call has
a place in the text where its object begins, and what it has gathered goes before
what the grammar has from here on (`Goes`), so that both make up what the grammar
has at its place; it waits for what begins where the call above it began
(`Waits`). With the objects returned before, the outermost makes up what is
written (`Calm`). A step then moves the place, and each has a lemma that says
that the grammar goes on in the same way. A call that finds its object broken or
too deep fails, and so do all below it (`AllFail`), which is where the grammar
has no other object either: this is `Failing`, in which the parser may take more
tokens, but returns nothing. `Lost` is the state after a version at the end of
the text was forgotten. `PInv` is that the parser is in one of the three, or has
no file yet; a seek leads back to the first.

**ModifiedPage.** The name is that of Cantor: it differs from the k-th name in
its k-th byte, by `GetDifferentChar`, so that the prefix with any byte after it
is fresh, whichever names there are (`DiagonalIsFresh`). The invariant is then
`TypeOK` and `NamesDistinct`: up to ten forms of one page differ in the last
byte, and a dictionary shared by pages is extended in its newest version. For the pages
`Right` is added: a page is as the source has it, or its contents are those of
the source with the forms that its object was given, in order, after them, and
its dictionary is the source's with exactly these forms under the names computed
for it (`PagesKept`); dictionaries of the source only grow at their end
(`DictsGrow`), which is why a page whose dictionary another page extended still
means its own objects by its own names. One object per page (`OneObject`) is
what `~SamePage` gives. For the links `LinksKept` is added to `LinksOnTheirPage`:
every link that is in the shared set, on a page beyond the source's, or in one of
the two histories was attached by an object, and no two objects attached one
link; so that a page that takes the set, and gives up what it had, changes what is
said of these links and of no other.

**ContentContext.** `NamesInv` adds to `NamesDenoteOne` where names come from:
the name of an object is a number that the counter has reached or one that the
program gave to this object (`NamesHaveSource`), two objects share a name only
if it was given to one of them (`SharedAreGiven`), and the name of a text is the
counter's or was given to the text's object (`TextHasSource`). A generated name
is above the counter, so where it is in use already it was given to its owner. A
naming adds to `namings` the very pair that the exceptions ask for. For the
texts the invariant `Inv` adds `StatesAgree`, which restates `PictureMatches`
level by level: both stacks have one height, and at each level where the context
has noted a font as placed, the viewer has that font and size. A `Tf` that is
left out is then one that would change nothing. `Balanced` is needed because an
ended context drops its stack while the viewer keeps its own, which a `Q` too
many in a later context pops.

**StreamWriting.** A call has a set of outcomes, so each encoder is given a
contract: what any outcome of a `Write` or a `Flush` of its has done to the
chain below. A device may lose what the C library held, and a buffer that could
not be written is dropped: whatever happens, no unit is in the file that was
neither there nor given, and units that ascend still do (`Ordered`), which is
`InOrder`. Of an outcome that no failure has touched, or that says it went well
when the stream is not under RC4, whose word is worth nothing (`Well`), the
contract says what was put: all of it (`Puts`, `CipherPuts`, `ContentPuts`). From the file upwards these are proved of `FileWrite`
and `FileFlush`, of the buffer, of the target (the buffer or the temporary
stream), of RC4 and AES, of the deflating stream, and of the end of a stream,
which goes through all of them, some twice; a `Flush` that has been through
once puts nothing the second time (`Finished`). A loop over bytes is a recursive function over the set
of its outcomes, and the induction over it is on sets, as for `XrefWriting`.

What a cipher's bytes decrypt to is stated as what they were made of: with the
units `P` given so far, an RC4 stream has put one unit for each of `P`, under
the key that was its turn; an AES stream an IV and then full blocks which,
flattened and followed by the block begun, are `P` (`Carries`). Above it, the deflating
stream has put what its content deflates to but for what it holds back
(`FlateHolds`). `StreamsInv` says this of the content written so far while no
failure was kept quiet (`GoodSoFar`), at the position where the stream started,
and once the stream has ended that the section of the file between start and
length reads as its content (`HasIt`). That it still does when the file is closed
needs that what follows is only put behind it or lost with a failure.

**WriterLifecycle.** A writer is either `Fresh` (it has encrypted nothing, and
all that is written is plain) or `Armed`: the two XCryptors are one, the stack
of keys is the key of the open object or empty, the pause level is that of the
open stream, the Encrypt entry's values are the key's, and everything in the
document is under this key or, if the failure flag is up, broken. One start of
an encrypted document leads from the first to the second, and `Cautious` is
that there is no way on: a writer that has been `Armed` starts no other document,
and leaves none to a state file. `DocumentIsReadable` is what `Armed` amounts to
once the dictionary is written.

**PageWriting.** `Noted` is the invariant of annotations: only pages refer to
them and only to ones that exist (`OnlyPagesShow`), the ID under which a form's
resources are written is theirs and no page's (`FormsHaveResources`), each waits
or is shown by one page (`AnnotationsShown`), and a document that ended leaves
none (`NothingKept`). Of the calls within a document all but `WritePage` and
`AttachURLLinktoCurrentPage` are "quiet" (`QuietObjects`): what they add or
rewrite says nothing of annotations. `Owned` is the invariant of tasks: whatever
waits under an address is of the live container there, or of one in `forsaken`,
which was released while tasks of it still waited; so a new container may be put
anywhere. That `forsaken` is empty until a call fails (`LeftByFailures`) needs
that a call which does not fail runs its container's two lists to their ends
(`DoneLeavesNone`). `Resolving` has for each place that keeps an ID (objects,
containers, tasks' subjects, annotations, the shared images and states) that the
object is of the kind it was taken for; objects are never taken back nor made
another kind (`Later`), and `~ImagesRedrawn` keeps out the one ID that outlives
its document. `DocumentIsWhole` needs four invariants together: the bounds on
what a document has (`Sized`), tasks with IDs of the document (`TasksInside`),
streams begun and not ended (`Streams`), and `Whole`: as long as no call failed,
every owed object has exactly one task, under a page or form that is still to
end (`Ledger`). The tasks of a container are run, and its list dropped, in the
step that ends it, so that no object loses its task while it is owed.

**CopyingContext.** `IInv` has four parts besides types. `Ledger`: the map and the
targets are each other's inverse, within a context. `Lists`: what is allocated
and not written is on the stack of running calls, or on a list the user owes, and
these share nothing. `Outcome`: without a failure nothing allocated is elsewhere.
`Progress`: the running call has placed what it copied and what is on its stack,
and any set that has what the call was asked for, and is closed under references
out of objects not placed before, has all of these: the call does nothing that
was not asked for. With the stack empty this is the least such set, which is what
`DeepCopy` delivers in one step: the refinement maps the steps of a call to
stutters and its return to that step, or to a failure that delivered a part.

**IndirectObjects.** The steps of the eight actions are eleven effects
(`EffectOfStep`), most of which either ask on top of the running calls
(`Deepens`) or return to the one below (`Comes`), which leaves two cases to most
lemmas. `CallInv` is `Parsed` (the table and the sections read are of the types
they should be, which takes an induction over a section's subsections),
`CallsAreRight` (each call but the innermost waits for the object the one above
it was asked for, and holds the stream that its step says), `AnswerIsRight` (an
answer is the object that was asked for, as the file has it, or nothing) and
`SharedIsRight` (headers, reader and `undefined`). `ParserIsAtHome` follows.

That no answer is made up needs a measure: the rounds of `Found` are counted,
and what a call on top of k others returns is found in the round that has k
fewer than the table has entries (`AnswersAreFound`), because the calls below are
of different objects, each in the table. That nothing is refused that could be
found needs another: an object's rank is the first round that has it, and on the
way down from a call whose object has one the ranks fall (`PathInv`), so that no
object is met twice there and the cycle check has nothing to refuse. Keys take
the same argument again with the rounds of `Readable`, which count the way to
parameters too, and an invariant on the stack (`KeyStackIsRight`): from the key
of the outermost stream that waits for readable parameters up, the keys on it
are exactly those of the streams that wait, whatever lies below. Outside of that
way keys may be left on top, and there the exception of section 5 applies.

**XrefParser**, whose proof is in `IndirectObjectsProofs` because types and the
steps are the same. A section's meaning numbers its lines in a recursive
function over its subsections, and the code counts along; the lemma
`ReadSubsectionsFollow` goes over both at once, subsection by subsection, and
says that what was read is the section laid over the table before (`Over`), or
that it cannot be read. It is here that `FileIsClear` is needed: the numbering
and `currentObject` part after an empty subsection at 0. `ChainInv` says of the
running parser where it is on the chain: the sections on its stack are the steps
along `Prev` from the newest down, at distinct positions, and on the way back
the table is what the steps from there to the end say, one over another. That it
refuses only what it should: a chain that comes back to a position goes round for
good (`CircularChain`), so no step of it is the end; and one that does not has
no more steps than the file has sections.

### Only model-checked

- Liveness: `CallsReturn`, `ParserReturns`, `ObjectsAreReturned`, `WritingEnds`.
  TLAPS has no proof rules here for fairness and `ENABLED`.
- `WrittenFont`: its properties compare the outcome of loops with definitions
  over a whole list of texts (a fold, a filter, a recursive function). The
  library's induction theorems take an operator as parameter, which the
  installed provers cannot instantiate; induction has to be done on sets, as for
  `XrefWriting`, `XrefParser`, `ObjectParser`, `StreamWriting` and the rounds of
  `IndirectObjects`, and has not been for these.
- `PageTree` and `GlyphDrawing`, which walk trees and graphs by `RECURSIVE`
  operators, which take the SMT backend away from a module.
## 7. Not modelled

`PROJECT.json` lists every component with its status. Most of the repository's
lines are bundled libraries (FreeType, LibTiff, LibJpeg, LibPng, Zlib,
LibAesgm), which are not this project's code; what `src/PDFWriter` asks of them
is external here: deflate, ciphers, font metrics. Of `src/PDFWriter` itself the
following is left out:

- Font programs (CFF, TrueType and Type 1 readers, subsetters, charstring
  interpreters), images and stream decoders: sequential conversions of large
  inputs, which keep nothing between calls. A small instance of them holds none
  of what can go wrong, which is in the data.
- The encoding of the state file as PDF objects, and the state of fonts in it;
  what the state keeps of the page tree and of encryption is modelled.
- The list of pages of a parsed document, and the merging of page content with
  renamed resources: both are walks over parsed objects by one call.
- Reference counting of parsed objects: ownership is spread over every caller
  of the parser, and no state but the counts would be in the model.
- Text, dates, encodings and other pure conversions, but for the encoding
  tables of `WrittenFont`.

Left out everywhere: logging, layout of the output, and who deletes what, but
where the code uses what was deleted.
