---------------------------- MODULE ProjectText ----------------------------
(***************************************************************************)
(* What the finding thread computes (`typ-find`): the corpus of a walk, a  *)
(* ranking of it, and a search of the project's text.                      *)
(*                                                                         *)
(* A path is a number, in the order paths sort; what a name on disk looks  *)
(* like is kept only where it is compared.  A line is a sequence of        *)
(* graphemes and a grapheme its characters.  The matchers are external:    *)
(* a pattern here is a grapheme, found wherever it stands, a score is      *)
(* given, and a file taken for binary is not searched at all.              *)
(***************************************************************************)
EXTENDS Integers, Sequences, SequencesExt, FiniteSetsExt, Functions

\* A grapheme is a sequence of characters, and a character takes its bytes.
Bytes(char) == IF char \in {"mark", "wide"} THEN 2 ELSE 1
Width(grapheme) == FoldSeq(LAMBDA char, sum : sum + Bytes(char), 0, grapheme)
ByteLen(line) == FoldSeq(LAMBDA grapheme, sum : sum + Width(grapheme), 0, line)
IsAscii(line) == \A i \in DOMAIN line : \A j \in DOMAIN line[i] : Bytes(line[i][j]) = 1

\* Where the grapheme after the first `n` begins.
ByteAt(line, n) == ByteLen(SubSeq(line, 1, n))

-----------------------------------------------------------------------------
(* walk, rank. *)

Ascending(paths) == SetToSortSeq(paths, <)

\* Whatever order the threads of the walk came upon them.
Walk(found) == Ascending(Range(found))

\* The characters the matcher is given: an index into them is an index of
\* graphemes, ASCII or not.
HaystackOf(text) ==
    IF IsAscii(text) THEN FlattenSeq(text) ELSE [i \in DOMAIN text |-> text[i][1]]

\* An empty query lists the corpus; a tie in the score goes by path.
Rank(corpus, scores, limit) ==
    LET better(a, b) == scores[a] > scores[b] \/ (scores[a] = scores[b] /\ a < b)
        ranked == IF scores = <<>> THEN corpus
                  ELSE SetToSortSeq({path \in Range(corpus) : scores[path] > 0}, better)
    IN  SubSeq(ranked, 1, Min({limit, Len(ranked)}))

-----------------------------------------------------------------------------
(* search. *)

\* Mutant: the offset grep gives, as it is.
GraphemeColOfBytes(line, byte) == byte

\* The grapheme a byte is in.
GraphemeCol(line, byte) ==
    IF IsAscii(line) THEN Min({byte, ByteLen(line)})
    ELSE Cardinality({n \in 0..Len(line) - 1 : ByteAt(line, n) < byte})

\* What is kept of a line's text: the graphemes that begin within `max`.
Clip(line, max) ==
    IF ByteLen(line) <= max THEN line
    ELSE SubSeq(line, 1, Max({n \in 0..Len(line) - 1 : ByteAt(line, n) <= max}))

MatchesLine(line, pattern) == pattern \in Range(line)
FirstMatch(line, pattern) == Min({i \in DOMAIN line : line[i] = pattern})

\* grep counts lines from one and columns in bytes.
HitOf(path, number, line, pattern) ==
    [path |-> path, line |-> number - 1,
     col |-> GraphemeCol(line, ByteAt(line, FirstMatch(line, pattern) - 1))]

\* A file the walk came upon: its text, and whether it can be read.
File(text, readable) == [text |-> text, readable |-> readable]

\* A byte that is no UTF-8, and a NUL, at which grep takes a file for binary.
Raw == <<"raw">>
Nul == <<"nul">>
Holds(line, grapheme) == grapheme \in Range(line)
IsBinary(text) == \E n \in DOMAIN text : Holds(text[n], Nul)

\* The lines of a file that match, one more than the limit at most.  If it
\* cannot be read, or one of these is not text, those before it are lost too.
FileHits(path, file, pattern, limit) ==
    LET text == file.text
        numbers == SelectSeq([i \in DOMAIN text |-> i],
                             LAMBDA i : MatchesLine(text[i], pattern))
        taken == SubSeq(numbers, 1, Min({limit + 1, Len(numbers)}))
    IN  IF \/ ~file.readable \/ IsBinary(text)
           \/ \E i \in DOMAIN taken : Holds(text[taken[i]], Raw)
        THEN <<>>
        ELSE [i \in DOMAIN taken |-> HitOf(path, taken[i], text[taken[i]], pattern)]

\* The name a path has under the root: canonical if both are, and as it is
\* written otherwise.  `typ notes.md` roots the walk at "." and opens the tab
\* under the bare name.
Canonical(path, onDisk) == IF path.name \in onDisk THEN {[path EXCEPT !.under = "full"]} ELSE {}
RelativeTo(under, path) == IF path.under = under THEN {path.name} ELSE {}
NamedUnder(root, path, onDisk) ==
    LET canonical == UNION {RelativeTo("full", c) : c \in Canonical(path, onDisk)}
    IN  IF canonical # {} THEN canonical ELSE RelativeTo(root, path)

\* The open buffers by the name the walk will give their files.
Overrides(root, opened, onDisk) ==
    UNION {{[path |-> name, text |-> tab.text] : name \in NamedUnder(root, tab.path, onDisk)} :
           tab \in {tab \in opened : tab.dirty}}

\* What is searched of a file: the buffer open on it, or the disk's.
Searched(disk, overrides, path) ==
    IF \E o \in overrides : o.path = path
    THEN File((CHOOSE o \in overrides : o.path = path).text, TRUE) ELSE disk[path]

Total(order, counts) == FoldSeq(LAMBDA path, sum : sum + counts[path], 0, order)

\* The orders in which files come to be added to what is found.  Every file,
\* or until one takes the total past the limit: after that only those the
\* other threads had begun.
Orders(paths, counts, limit, threads) ==
    LET stopped(order) == \E k \in DOMAIN order :
                             Total(SubSeq(order, 1, k), counts) > limit /\ Len(order) - k < threads
    IN  {order \in SetToAllKPermutations(paths) : Range(order) = paths \/ stopped(order)}

ByPlace(a, b) == a.path < b.path \/ (a.path = b.path /\ a.line < b.line)

\* Mutant: exactly the limit is taken for more.
CompleteBelow(hits, limit) == Len(hits) < limit

Complete(hits, limit) == Len(hits) <= limit

\* `hits` of each file, in the order its thread came to add them.
Searching(order, hits, limit) ==
    LET found == FlattenSeq([i \in DOMAIN order |-> hits[order[i]]])
        sorted == SetToSortSeq(Range(found), ByPlace)
    IN  [hits |-> SubSeq(sorted, 1, Min({limit, Len(sorted)})),
         complete |-> Complete(found, limit)]

\* Nothing is searched for an empty pattern, and an unfinished one is not
\* searched for and claims no count.
Unfinished == <<"[">>
Search(pattern, order, hits, limit) ==
    CASE pattern = <<>> \/ limit = 0 -> [hits |-> <<>>, complete |-> TRUE]
      [] pattern = Unfinished /\ limit > 0 -> [hits |-> <<>>, complete |-> FALSE]
      [] OTHER -> Searching(order, hits, limit)

-----------------------------------------------------------------------------
(* Everything above on a small project, once. *)

Sought == <<"x">>
Marked == <<"e", "mark">>
Wide == <<"wide">>
Lines == {<<>>, <<Sought>>, <<Marked, Sought>>, <<Wide, Marked, Sought, Sought>>, <<Wide>>}
Texts == {<<>>, <<<<Sought>>>>, <<<<Wide>>, <<Wide, Marked, Sought, Sought>>>>,
          <<<<Marked, Sought>>, <<Sought>>>>}
Files == {File(text, TRUE) : text \in Texts}
         \cup {File(<<<<Sought>>, <<Raw, Sought>>>>, TRUE),
               File(<<<<Raw>>, <<Sought>>>>, TRUE),
               File(<<<<Sought>>, <<Nul>>>>, TRUE),
               File(<<<<Sought>>>>, FALSE)}
Limit == 2
Threads == 2

\* A file all of which can be found: one that can be read, is not taken for
\* binary, and is text wherever it matches.
IsText(file) ==
    /\ file.readable /\ ~IsBinary(file.text)
    /\ \A n \in DOMAIN file.text :
          MatchesLine(file.text[n], Sought) => ~Holds(file.text[n], Raw)

\* What a search says of the files that are text is so, whichever thread was
\* first: it is complete exactly when those, as they are open, have no more
\* than the limit; each row is a line that matches and points at its first
\* match; rows are in order, none twice, and none is missing from a complete
\* one.  Any other file adds nothing, takes nothing from the rest, and is not
\* told of: `complete` may stand though a line of it matches.
\* (search.rs: "stopping at exactly `limit` cannot tell "there were ten" from
\* "there were ten and then more"", "the open buffer wins over the file on
\* disk", "one bad file must not empty the results".)
SearchIsHonest ==
    \A disk \in [1..3 -> Files], mine \in Texts, under \in {"bare", "."}, dirty \in BOOLEAN :
        LET opened == {[path |-> [under |-> under, name |-> 2], text |-> mine, dirty |-> dirty]}
            shown(path) == IF dirty /\ path = 2 THEN File(mine, TRUE) ELSE disk[path]
            overrides == Overrides(".", opened, 1..3)
            hits == [path \in 1..3 |-> FileHits(path, Searched(disk, overrides, path), Sought, Limit)]
            matching == UNION {{<<path, n>> : n \in {m \in DOMAIN shown(path).text :
                                                        MatchesLine(shown(path).text[m], Sought)}} :
                                  path \in {p \in 1..3 : IsText(shown(p))}}
        IN  \A order \in Orders(1..3, [path \in 1..3 |-> Len(hits[path])], Limit, Threads) :
                LET said == Search(Sought, order, hits, Limit)
                IN  /\ ~Search(Unfinished, order, hits, Limit).complete
                    /\ said.complete = (Cardinality(matching) <= Limit)
                    /\ Len(said.hits) = Min({Limit, Cardinality(matching)})
                    /\ \A i \in DOMAIN said.hits :
                          LET hit == said.hits[i]
                              line == shown(hit.path).text[hit.line + 1]
                          IN  /\ <<hit.path, hit.line + 1>> \in matching
                              /\ hit.col < Len(line) /\ line[hit.col + 1] = Sought
                              /\ \A j \in 1..hit.col : line[j] # Sought
                              /\ i > 1 => ByPlace(said.hits[i - 1], hit)

\* A list of paths is the same however the walk met them, the better first
\* and ties by path; an index into a path counts its graphemes; and a clipped
\* line is the most whole graphemes that fit.
\* (rank.rs: "ranking cannot start shuffling".)
RankIsOrder ==
    /\ \A order \in SetToSeqs(1..3), scores \in [1..3 -> 0..2], limit \in 0..3 :
          LET ranked == Rank(Walk(order), scores, limit)
          IN  /\ Walk(order) = <<1, 2, 3>>
              /\ \A i, j \in DOMAIN ranked : i < j =>
                    scores[ranked[i]] > scores[ranked[j]]
                    \/ (scores[ranked[i]] = scores[ranked[j]] /\ ranked[i] < ranked[j])
              /\ Len(ranked) = Min({limit, Cardinality({p \in 1..3 : scores[p] > 0})})
    /\ \A line \in Lines :
          /\ Len(HaystackOf(line)) = Len(line)
          /\ \A max \in 0..6 :
                LET clipped == Clip(line, max)
                IN  /\ IsPrefix(clipped, line) /\ ByteLen(clipped) <= max
                    /\ clipped # line => ByteAt(line, Len(clipped) + 1) > max
=============================================================================
