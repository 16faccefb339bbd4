----------------------------- MODULE MCRetrieval ----------------------------
(* Bounded inputs for Retrieval: every text of two paragraphs of at most three
   runes, of one of at most six, and of three of at most two, with and without
   white space at their ends, blank ones among them (no paragraph holds the
   separator they were split at); vector searches that find every row, every
   second one, the first three, and none; every result of at most two rows of
   the keyword search, and full ones that agree and disagree with the vector
   search. *)
EXTENDS Retrieval

Paragraphs(runes, n) ==
    {p \in UNION {[1..k -> runes] : k \in 0..n} :
        \A i \in 2..Len(p) : ~(p[i - 1] = Break /\ p[i] = Break)}

MCTexts ==
    [1..2 -> Paragraphs({"a", "b", " "}, 3)]
    \cup [1..1 -> Paragraphs({"a", " ", "nl"}, 6)]
    \cup [1..3 -> Paragraphs({"a", "b", " "}, 2)]

MCNeighbors ==
    {[k \in 1..Rows |-> k], [k \in 1..(Rows \div 2) |-> 2 * k], <<1, 2, 3>>, << >>}

MCMatches ==
    {s \in UNION {[1..n -> 1..Rows] : n \in 0..2} : IsInjective(s)}
    \cup {[i \in 1..Rows |-> ((i + k) % Rows) + 1] : k \in 1..Rows}
    \cup {Reverse([i \in 1..Rows |-> ((i + k) % Rows) + 1]) : k \in 1..Rows}
=============================================================================
