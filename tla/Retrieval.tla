----------------------------- MODULE Retrieval ------------------------------
(***************************************************************************)
(* The pure parts of the memory service: how a document is cut into chunks *)
(* (internal/memory/chunk) and how the hits of the vector and of the       *)
(* keyword search are fused (internal/memory/ranking, hybridSearch).       *)
(*                                                                         *)
(* A text is the sequence of the paragraphs strings.Split cuts it into, a   *)
(* string a sequence of runes.  Rows are numbered in the order of their    *)
(* ids.  A score is a fraction, not a float64.                             *)
(***************************************************************************)
EXTENDS Integers, SequencesExt

CONSTANTS
    Runes,
    White,      \* runes that strings.TrimSpace removes
    MaxRunes,   \* chunk.Options
    Texts,      \* documents to cut
    Rows,       \* number of rows of the workspace
    Overscan,   \* hits each search returns
    Limits,     \* numbers of hits to ask for
    Neighbors,  \* results of the vector search, best first: the index is
                \* approximate and filtered afterwards, so it may miss rows
    Matches     \* results of the keyword search, best first

Break == "nl"
Strings == Seq(Runes)

RetrievalConstants ==
    /\ Break \in White /\ White \subseteq Runes
    /\ MaxRunes \in Nat \ {0}
    /\ Texts \subseteq Seq(Strings)
    /\ {Rows, Overscan} \cup Limits \subseteq Nat
    /\ \A s \in Neighbors \cup Matches : s \in Seq(1..Rows) /\ IsInjective(s)

(* service.go:103 has 20.  From 28 on, the last place in both searches is worth
   less than the first one in the vector search: 10 / (60 + 28) < 7 / 61. *)
OverscanDampened == Overscan <= 27

ASSUME RetrievalAssumption == RetrievalConstants /\ OverscanDampened

VARIABLES text, chunks, near, match, limit, found, phase
vars == <<text, chunks, near, match, limit, found, phase>>

-----------------------------------------------------------------------------
(* A loop over s that replaces a state by what the body, a function, makes of
   it.  The folds of the community modules take an operator, of which no fact
   can be stated once for all bodies. *)
Fold(body, start, s) ==
    LET after[n \in 0..Len(s)] ==
            IF n = 0 THEN start ELSE body[s[n]][after[n - 1]]
    IN  after[Len(s)]

-----------------------------------------------------------------------------
(* chunk.Chunk *)

Sep == <<Break, Break>>

(* strings.TrimSpace *)
Trim(s) ==
    LET inked == {i \in DOMAIN s : s[i] \notin White} IN
    IF inked = {} THEN << >> ELSE SubSeq(s, Min(inked), Max(inked))

HardSplit(para) ==
    IF Len(para) <= MaxRunes THEN <<para>>
    ELSE [k \in 1..(Len(para) + MaxRunes - 1) \div MaxRunes |->
            SubSeq(para, (k - 1) * MaxRunes + 1, Min({k * MaxRunes, Len(para)}))]

Buffers == [chunks : Seq(Strings), cur : Strings, len : Nat]
NoBuffer == [chunks |-> << >>, cur |-> << >>, len |-> 0]

Flush(b) == IF b.len = 0 THEN b
            ELSE [chunks |-> Append(b.chunks, Trim(b.cur)), cur |-> << >>, len |-> 0]

Glued(b, piece) ==
    [chunks |-> b.chunks,
     cur |-> b.cur \o (IF b.len > 0 THEN Sep ELSE << >>) \o piece,
     len |-> b.len + Len(piece)]

(* Mutants: the overflow is noticed one piece late; the buffer is emptied
   without being written. *)
PackLate(b, piece) == Glued(IF b.len > MaxRunes THEN Flush(b) ELSE b, piece)
PackDrop(b, piece) ==
    Glued(IF b.len + Len(piece) > MaxRunes THEN [b EXCEPT !.cur = << >>, !.len = 0] ELSE b, piece)

Pack(b, piece) == Glued(IF b.len + Len(piece) > MaxRunes THEN Flush(b) ELSE b, piece)

PackPieces(b, pieces) == Fold([p \in Strings |-> [c \in Buffers |-> Pack(c, p)]], b, pieces)

PackParagraph(b, para) ==
    IF Trim(para) = << >> THEN b ELSE PackPieces(b, HardSplit(Trim(para)))

Chunk(paras) ==
    Flush(Fold([p \in Strings |-> [b \in Buffers |-> PackParagraph(b, p)]], NoBuffer, paras)).chunks

-----------------------------------------------------------------------------
(* ranking.Fuse *)

RrfK == 60
VectorWeight == 7       \* in tenths
KeywordWeight == 3

Take(s, n) == SubSeq(s, 1, Min({n, Len(s)}))
Rank(s, id) == CHOOSE k \in DOMAIN s : s[k] = id
Term(s, id, w) == IF id \in Range(s) THEN [num |-> w, den |-> RrfK + Rank(s, id)]
                  ELSE [num |-> 0, den |-> 1]
Sum2(x, y) == [num |-> x.num * y.den + y.num * x.den, den |-> x.den * y.den]
Greater(x, y) == x.num * y.den > y.num * x.den

(* Mutant: a hit of both searches keeps the keyword score only. *)
ScoreLast(vec, kw, id) ==
    IF id \in Range(kw) THEN Term(kw, id, KeywordWeight) ELSE Term(vec, id, VectorWeight)

Score(vec, kw, id) == Sum2(Term(vec, id, VectorWeight), Term(kw, id, KeywordWeight))

Better(score, x, y) ==
    Greater(score[x], score[y]) \/ (~Greater(score[y], score[x]) /\ x < y)

(* sort.Slice under a total order: the place of an id is one more than the
   number of those that come before it. *)
Places(score) ==
    [x \in DOMAIN score |-> 1 + Cardinality({y \in DOMAIN score : Better(score, y, x)})]

Sorted(score) ==
    LET place == Places(score) IN
    [k \in 1..Cardinality(DOMAIN score) |-> CHOOSE x \in DOMAIN score : place[x] = k]

Fuse(vec, kw) == Sorted([id \in Range(vec) \cup Range(kw) |-> Score(vec, kw, id)])

(* hybridSearch: both searches are cut at Overscan; a limit of 0 is none. *)
HybridSearch(vec, kw, n) ==
    LET fused == Fuse(Take(vec, Overscan), Take(kw, Overscan)) IN
    IF n = 0 THEN fused ELSE Take(fused, n)

-----------------------------------------------------------------------------
(* Every text is cut, and every search is run, once. *)
Init ==
    /\ \/ /\ phase = "adding" /\ text \in Texts
          /\ near = << >> /\ match = << >> /\ limit = 0
       \/ /\ phase = "searching" /\ text = << >>
          /\ near \in Neighbors /\ match \in Matches /\ limit \in Limits
    /\ chunks = << >>
    /\ found = << >>

Add ==
    /\ phase = "adding"
    /\ phase' = "added"
    /\ chunks' = Chunk(text)
    /\ UNCHANGED <<text, near, match, limit, found>>

Search ==
    /\ phase = "searching"
    /\ phase' = "searched"
    /\ found' = HybridSearch(near, match, limit)
    /\ UNCHANGED <<text, near, match, limit, chunks>>

Next == Add \/ Search
Spec == Init /\ [][Next]_vars

-----------------------------------------------------------------------------
(* Properties. *)

Joined(ss) == Fold([s \in Strings |-> [t \in Strings |-> t \o s]], << >>, ss)

Without(s, T) ==
    Fold([r \in Runes |-> [t \in Strings |-> IF r \in T THEN t ELSE Append(t, r)]], << >>, s)

(* Trimming, cutting and packing lose, repeat and reorder nothing but white
   space. *)
NothingLost ==
    phase = "added" => Without(Joined(chunks), White) = Without(Joined(text), White)

(* The cap is on the runes of the paragraphs: the separators that packing puts
   between two pieces, which chunk.go does not count, can make a chunk three
   times as long, and no longer. *)
ChunksBounded ==
    \A k \in DOMAIN chunks :
        /\ Len(Without(chunks[k], {Break})) <= MaxRunes
        /\ Len(chunks[k]) <= 3 * MaxRunes - 2

(* The rank of a row in a search, a miss coming after every hit. *)
RankOrLast(s, id) == IF id \in Range(s) THEN Rank(s, id) ELSE Overscan + 1

Beats(vec, kw, x, y) ==
    \/ x \in Range(vec) \cap Range(kw) /\ y \notin Range(vec) \cap Range(kw)
    \/ x \in Range(vec) /\ y \notin Range(vec)
    \/ /\ RankOrLast(vec, x) <= RankOrLast(vec, y)
       /\ RankOrLast(kw, x) <= RankOrLast(kw, y)
       /\ x # y

(* Rows found by both searches come first, from the first rank to the last;
   then those of the vector search; then, whatever their rank, those of the
   keyword search.  Within a group, a row that is not worse in either search
   comes before one that is. *)
FusionSound ==
    phase = "searched" =>
        LET vec == Take(near, Overscan)
            kw == Take(match, Overscan)
            ids == Range(vec) \cup Range(kw)
        IN
        /\ Len(found) = Cardinality(ids) \/ (limit # 0 /\ Len(found) = limit)
        /\ IsInjective(found)
        /\ \A k \in DOMAIN found : \A y \in ids :
             Beats(vec, kw, y, found[k]) => y \in Range(Take(found, k - 1))
=============================================================================
