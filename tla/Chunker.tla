-------------------------------- MODULE Chunker --------------------------------
(* structure_v1: the blocks of an extracted document, page by page, become     *)
(* chunks.  Tables stand alone, a heading opens a chunk and a section, other    *)
(* text accumulates to a target; an oversized block is split between words.     *)
(* Then the deterministic validation the chunks must pass before promotion.     *)
(* Text is where it stands in the document: a piece is a run of words of a      *)
(* block, and a word is its length, 0 between two spaces in a row.              *)
EXTENDS Integers, Sequences, FiniteSetsExt, Sums

CONSTANTS
    Blocks,         \* blocks a document may hold: a type, a heading level, word lengths
    MaxPages,       \* bound: pages of a document
    MaxBlocks,      \* bound: blocks of a document
    Target,         \* TARGET_CHUNK_CHARS
    Ceiling,        \* HARD_CEILING_CHARS
    OcrThreshold    \* characters a page must hold on average

ASSUME ChunkerAssumption ==
    /\ Target \in Nat /\ Ceiling \in Nat /\ Target <= Ceiling /\ OcrThreshold \in Nat
    /\ MaxPages \in Nat /\ MaxBlocks \in Nat
    /\ \A b \in Blocks : /\ b.type \in {"table", "heading", "body"} /\ b.level \in Nat
                         /\ b.words \in Seq(Nat)
                         /\ \E w \in DOMAIN b.words : b.words[w] > 0

VARIABLES
    document,   \* the pages: sequences of blocks
    at, word,   \* page and block reached, and the first word of the block not yet taken
    headings,   \* heading_stack: level and place
    acc,        \* the accumulator: pieces of text
    drafts,     \* chunks
    verdict     \* of the validation

chunkVars == <<document, at, word, headings, acc, drafts, verdict>>

Block(place) == document[place[1]][place[2]]
Words(place) == Block(place).words

\* The words from one to another, joined by single spaces.
Length(place, from, to) ==
    Total(Words(place))[to] - Total(Words(place))[from - 1] + (to - from)
BlockLength(place) == Length(place, 1, Len(Words(place)))

Pages == UNION {[1..k -> Blocks] : k \in 0..MaxBlocks}
BlockCount(pages) == Total([p \in DOMAIN pages |-> Len(pages[p])])[Len(pages)]
Documents ==
    UNION {{pages \in [1..n -> Pages] : BlockCount(pages) <= MaxBlocks} : n \in 0..MaxPages}

ChunkInit ==
    /\ document \in Documents
    /\ at = <<1, 1>> /\ word = 1 /\ headings = <<>> /\ acc = <<>> /\ drafts = <<>>
    /\ verdict = "none"

(***************************************************************************)
(* The accumulator                                                         *)
(***************************************************************************)
Piece(from, to) == [at |-> at, from |-> from, to |-> to]
IsHeading(piece) == Block(piece.at).type = "heading"
PieceLength(piece) == Length(piece.at, piece.from, piece.to)
CharCount(pieces) == Total([i \in DOMAIN pieces |-> PieceLength(pieces[i])])[Len(pieces)]

\* The content of a chunk is its pieces with a blank line between two, which
\* char_count leaves out; strip may then take spaces off its ends.
Separators(pieces) == 2 * (Len(pieces) - 1)
ContentLength(pieces) == CharCount(pieces) + Separators(pieces)

\* Nothing is left when the content is stripped.
IsBlank(piece) == \A w \in piece.from..piece.to : Words(piece.at)[w] = 0
Blank(pieces) == \A i \in DOMAIN pieces : IsBlank(pieces[i])

Chunk(pieces, type) ==
    [pieces |-> pieces, type |-> type, section |-> headings,
     pages |-> <<pieces[1].at[1], pieces[Len(pieces)].at[1]>>]

ElementType(pieces) == IF \A i \in DOMAIN pieces : IsHeading(pieces[i]) THEN "heading" ELSE "text"

Flushed == IF Blank(acc) THEN drafts ELSE Append(drafts, Chunk(acc, ElementType(acc)))

(***************************************************************************)
(* One block, or one piece of a body, at a time                            *)
(***************************************************************************)
Pending == verdict = "none" /\ at[1] <= Len(document)
Onward == at' = <<at[1], at[2] + 1>> /\ word' = 1

NextPage ==
    /\ Pending /\ at[2] > Len(document[at[1]])
    /\ at' = <<at[1] + 1, 1>> /\ word' = 1
    /\ UNCHANGED <<document, headings, acc, drafts, verdict>>

AtBlock(type) == Pending /\ at[2] <= Len(document[at[1]]) /\ Block(at).type = type
Whole == Piece(1, Len(Words(at)))

TakeTable ==
    /\ AtBlock("table") /\ Onward
    /\ drafts' = Append(Flushed, Chunk(<<Whole>>, "table"))
    /\ acc' = <<>>
    /\ UNCHANGED <<document, headings, verdict>>

\* Mutant of Above: a heading of the same level stays open.
AboveOrEqual(level) == {i \in DOMAIN headings : headings[i].level <= level}

\* Open headings are popped until one is higher than the level.
Above(level) == {i \in DOMAIN headings : headings[i].level < level}
Kept(level) == SubSeq(headings, 1, Max({0} \cup Above(level)))
Opened(level) == Append(Kept(level), [level |-> level, at |-> at])

TakeHeading ==
    /\ AtBlock("heading") /\ Onward
    /\ drafts' = Flushed
    /\ headings' = Opened(Block(at).level)
    /\ acc' = <<Whole>>
    /\ UNCHANGED <<document, verdict>>

\* _split_oversized: a word that no longer fits starts the next piece; a block
\* that is not oversized fits as a whole.
PieceEnd ==
    Max({word} \cup {e \in word..Len(Words(at)) : Length(at, word, e) <= Ceiling})
NextPiece == Piece(word, PieceEnd)

\* A piece that would take the accumulator past the target flushes it first.
Full == CharCount(acc) > 0 /\ CharCount(acc) + PieceLength(NextPiece) > Target

TakeBody ==
    /\ AtBlock("body")
    /\ IF PieceEnd = Len(Words(at)) THEN Onward ELSE word' = PieceEnd + 1 /\ UNCHANGED at
    /\ IF Full THEN drafts' = Flushed /\ acc' = <<NextPiece>>
               ELSE acc' = Append(acc, NextPiece) /\ UNCHANGED drafts
    /\ UNCHANGED <<document, headings, verdict>>

Characters(page) == Total([b \in DOMAIN document[page] |-> BlockLength(<<page, b>>)])[Len(document[page])]
NeedsOcr == Total([p \in DOMAIN document |-> Characters(p)])[Len(document)] < OcrThreshold * Len(document)

\* detect_needs_ocr, then validate_chunks: some chunk, and pages in order.
Validate ==
    /\ verdict = "none" /\ at[1] > Len(document)
    /\ drafts' = Flushed /\ acc' = <<>>
    /\ verdict' = IF NeedsOcr THEN "needs_ocr"
                  ELSE IF drafts' = <<>> \/ \E i \in DOMAIN drafts' : drafts'[i].pages[1] > drafts'[i].pages[2]
                  THEN "invalid" ELSE "passed"
    /\ UNCHANGED <<document, at, word, headings>>

ChunkNext == NextPage \/ TakeTable \/ TakeHeading \/ TakeBody \/ Validate
ChunkSpec == ChunkInit /\ [][ChunkNext]_chunkVars

(***************************************************************************)
(* Property                                                                *)
(***************************************************************************)
Before(a, b) == a[1] < b[1] \/ (a[1] = b[1] /\ a[2] < b[2])

BlockPlaces == UNION {{<<p, b>> : b \in DOMAIN document[p]} : p \in DOMAIN document}
HeadingPlaces == {p \in BlockPlaces : Block(p).type = "heading"}

\* The headings a place stands under: none after them is as high.
OpenAt(place) ==
    {h \in HeadingPlaces :
        /\ ~Before(place, h)
        /\ \A g \in HeadingPlaces : Before(h, g) /\ ~Before(place, g) => Block(g).level > Block(h).level}

\* The slots of the chunks, each for a piece, in the order of the chunks.
Slots == UNION {{<<c, i>> : i \in DOMAIN drafts[c].pieces} : c \in DOMAIN drafts}
PieceIn(slot) == drafts[slot[1]].pieces[slot[2]]

Holds(piece, place, w) == piece.at = place /\ w \in piece.from..piece.to

\* The words of some pieces that are not empty.
Spoken(pieces) ==
    UNION {{<<i, w>> : w \in {v \in pieces[i].from..pieces[i].to : Words(pieces[i].at)[v] > 0}} :
              i \in DOMAIN pieces}

EndsBefore(p, q) == Before(p.at, q.at) \/ (p.at = q.at /\ p.to < q.from)

(* A validated document is cut into chunks without a word lost, repeated or   *)
(* moved; a table shares its chunk with nothing; each chunk carries the        *)
(* headings its text stands under, in their order; and the content of none is   *)
(* longer than the ceiling and its separators together, unless it is a table, a *)
(* heading or holds a single word.                                              *)
ChunksPartition ==
    verdict # "none" =>
        /\ \A place \in BlockPlaces : \A w \in DOMAIN Words(place) :
              Words(place)[w] > 0 => \E s \in Slots : Holds(PieceIn(s), place, w)
        /\ \A s \in Slots : /\ PieceIn(s).at \in BlockPlaces
                            /\ PieceIn(s).from..PieceIn(s).to \subseteq DOMAIN Words(PieceIn(s).at)
        /\ \A s, t \in Slots : Before(s, t) => EndsBefore(PieceIn(s), PieceIn(t))
        /\ \A s \in Slots :
              LET chunk == drafts[s[1]]
                  piece == PieceIn(s)
              IN /\ {chunk.section[h].at : h \in DOMAIN chunk.section} = OpenAt(piece.at)
                 /\ \A g, h \in DOMAIN chunk.section : g < h => Before(chunk.section[g].at, chunk.section[h].at)
                 /\ Block(piece.at).type = "table" => Len(chunk.pieces) = 1
        /\ \A c \in DOMAIN drafts :
              LET pieces == drafts[c].pieces
              IN \/ ContentLength(pieces) <= Ceiling + Separators(pieces)
                 \/ \A v, w \in Spoken(pieces) : v = w
                 \/ drafts[c].type # "text"

(* What chunker.py:28-29 says: "no chunk ever exceeds the ceiling".  The code  *)
(* does not keep it, even of text of several words: three blocks of one         *)
(* character are a chunk of seven.                                              *)
ChunksWithinCeiling ==
    verdict # "none" =>
        \A c \in DOMAIN drafts :
            LET pieces == drafts[c].pieces
            IN \/ ContentLength(pieces) <= Ceiling
               \/ \A v, w \in Spoken(pieces) : v = w
               \/ drafts[c].type # "text"
=============================================================================
