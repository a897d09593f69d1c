------------------------------ MODULE ChangeMode -------------------------------
(* Change mode: Gemini's reply is parsed into edits, the edits are validated  *)
(* and cut into chunks (shared/src/changeMode).  A reply is the sequence of   *)
(* the blocks in it that one of the parser's two patterns matches; a block's  *)
(* code is abstracted to its estimated size and to whether it validates.      *)
EXTENDS Naturals, SequencesExt

CONSTANT MaxChars   \* maxCharsPerChunk

ASSUME ChunkAssumption == MaxChars \in Nat

(* A block: style "markdown" is the **FILE: name:line** pattern, "tagged" the *)
(* /old/ \new\ one; sameName says whether the names of a tagged block agree.  *)
Edit == [style : {"markdown", "tagged"}, filename : STRING, size : Nat,
         valid : BOOLEAN, sameName : BOOLEAN]

IsMarkdown(block) == block.style = "markdown"
Mismatched(block) == block.style = "tagged" /\ ~block.sameName

(* The tagged pattern is tried when no markdown block is found.  Its loop     *)
(* "continue"s at a mismatch without the next exec: it never ends.            *)
ParserHangs(blocks) ==
    /\ \A i \in DOMAIN blocks : ~IsMarkdown(blocks[i])
    /\ \E i \in DOMAIN blocks : Mismatched(blocks[i])

(* The edits with a value in a field, in their order.                         *)
Where(edits, field, value) ==
    FoldLeft(LAMBDA s, e : IF e[field] = value THEN Append(s, e) ELSE s, <<>>, edits)

parseChangeModeOutput(blocks) ==
    IF \E i \in DOMAIN blocks : IsMarkdown(blocks[i])
    THEN Where(blocks, "style", "markdown")
    ELSE blocks

validateChangeModeEdits(edits) == \A i \in DOMAIN edits : edits[i].valid

(* estimateEditSize, summed.                                                  *)
TotalSize(edits) == FoldLeft(LAMBDA sum, e : sum + e.size, 0, edits)

EditsOf(edits, file) == Where(edits, "filename", file)

(* groupEditsByFile: an edit joins the others of its file or is the first.    *)
Grouped(groups, edit) ==
    LET file(g) == groups[g][1].filename
    IN  IF \E g \in DOMAIN groups : file(g) = edit.filename
        THEN [g \in DOMAIN groups |->
                IF file(g) = edit.filename THEN Append(groups[g], edit) ELSE groups[g]]
        ELSE Append(groups, <<edit>>)

groupEditsByFile(edits) == FoldLeft(Grouped, <<>>, edits)

(* The state of chunkChangeModeEdits: the chunks cut and the current one.     *)
NoChunks == [chunks |-> <<>>, current |-> <<>>, size |-> 0]

Cut(c) ==
    IF c.current = <<>> THEN c
    ELSE [chunks |-> Append(c.chunks, c.current), current |-> <<>>, size |-> 0]

(* Adds edits that are not to be parted, in a new chunk if they do not fit.   *)
Add(c, edits) ==
    LET room == IF c.size + TotalSize(edits) > MaxChars THEN Cut(c) ELSE c
    IN  [room EXCEPT !.current = @ \o edits, !.size = @ + TotalSize(edits)]

AddEach(c, edits) == FoldLeft(LAMBDA d, e : Add(d, <<e>>), c, edits)

(* The edits of a file stay together unless they alone exceed a chunk.        *)
AddFile(c, edits) ==
    IF TotalSize(edits) > MaxChars THEN AddEach(Cut(c), edits) ELSE Add(c, edits)

AddFiles(groups) == FoldLeft(AddFile, NoChunks, groups)

chunksWithoutTheLast(edits) ==  \* mutant of chunkChangeModeEdits
    AddFiles(groupEditsByFile(edits)).chunks
chunkChangeModeEdits(edits) == Cut(AddFiles(groupEditsByFile(edits))).chunks

-----------------------------------------------------------------------------
(* What chunking promises, stated without the algorithm.                      *)

(* Every edit is in one chunk, once, and an edit comes before another of its  *)
(* file exactly when it did in the reply.                                     *)
KeepsEveryEdit(edits, chunks) ==
    LET all == FlattenSeq(chunks)
    IN  \A file \in {edits[i].filename : i \in DOMAIN edits}
                        \cup {all[i].filename : i \in DOMAIN all} :
            EditsOf(all, file) = EditsOf(edits, file)

(* A chunk is larger than the limit only if it is one edit that is.           *)
KeepsTheLimit(chunks) ==
    \A i \in DOMAIN chunks :
        chunks[i] # <<>> /\ (TotalSize(chunks[i]) > MaxChars => Len(chunks[i]) = 1)

(* A file that fits into a chunk is in one chunk.                             *)
KeepsFilesWhole(edits, chunks) ==
    \A i \in DOMAIN chunks : \A e \in {chunks[i][n] : n \in DOMAIN chunks[i]} :
        TotalSize(EditsOf(edits, e.filename)) <= MaxChars =>
            EditsOf(chunks[i], e.filename) = EditsOf(edits, e.filename)

=============================================================================
