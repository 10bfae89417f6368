------------------------------- MODULE SshPath -------------------------------
(***************************************************************************)
(* The remote path type ssh::filesystem::path and its segment iterator.    *)
(*                                                                         *)
(* The header ssh/path.hpp is not part of the sources; the operators below *)
(* follow the specification of the type (spec.md, sections 3 and 4), and   *)
(* module PathTests holds them against the repository's own test suite.    *)
(*                                                                         *)
(* A path is its stored text, a sequence of characters.  Only two          *)
(* characters matter to the type: the separator and, for the sentinel      *)
(* segment of a directory path, the dot.                                   *)
(***************************************************************************)
EXTENDS Naturals, FiniteSets, SequencesExt

CONSTANT Code  \* Code[c]: the code point of character c

Sep  == "/"
Dot  == "."
Root == <<Sep>>

-----------------------------------------------------------------------------
(* Construction and classification (spec.md 4.1) *)

native(p)       == p
empty(p)        == Len(p) = 0
is_absolute(p)  == ~empty(p) /\ Head(p) = Sep
is_relative(p)  == ~is_absolute(p)
is_directory(p) == ~empty(p) /\ Last(p) = Sep

\* Equality (spec.md 3): of the stored texts, character for character.
equal(p, q) == native(p) = native(q)

\* The lexicographic order of sequences whose elements before(_, _) orders.
Lexicographic(before(_, _), s, t) ==
  \E k \in 0 .. Len(t) - 1 :
    /\ k <= Len(s)
    /\ SubSeq(s, 1, k) = SubSeq(t, 1, k)
    /\ k < Len(s) => before(s[k + 1], t[k + 1])

text_less(s, t) == Lexicographic(LAMBDA c, d : Code[c] < Code[d], s, t)

\* Ordering (spec.md 3): the lexicographic order of the stored texts.
less(p, q) == text_less(p, q)

-----------------------------------------------------------------------------
(* Concatenation (spec.md 4.3) *)

WithSeparator(lhs) == IF is_directory(lhs) THEN lhs ELSE Append(lhs, Sep)
WithoutRoot(rhs)   == IF is_absolute(rhs) THEN Tail(rhs) ELSE rhs

combine_KeepsLeadingSeparator(lhs, rhs) ==
  CASE empty(lhs) -> rhs
    [] empty(rhs) /\ ~empty(lhs) -> lhs
    [] OTHER -> WithSeparator(lhs) \o rhs

combine_NoSeparator(lhs, rhs) ==
  CASE empty(lhs) -> rhs
    [] empty(rhs) /\ ~empty(lhs) -> lhs
    [] OTHER -> lhs \o WithoutRoot(rhs)

combine_AlwaysInserts(lhs, rhs) ==
  CASE empty(lhs) -> rhs
    [] empty(rhs) /\ ~empty(lhs) -> lhs
    [] OTHER -> Append(lhs, Sep) \o WithoutRoot(rhs)

\* The algorithm shared by lhs / rhs and lhs /= rhs, rule by rule.
combine(lhs, rhs) ==
  CASE empty(lhs) -> rhs
    [] empty(rhs) /\ ~empty(lhs) -> lhs
    [] lhs = Root /\ rhs = Root -> Root
    [] OTHER -> WithSeparator(lhs) \o WithoutRoot(rhs)

\* lhs / rhs: a new path; both operands as they were.
concatenate(lhs, rhs) ==
  [lhs |-> lhs, rhs |-> rhs, result |-> combine(lhs, rhs)]

\* lhs /= rhs: the receiver becomes the combination and is what the
\* operator returns; the argument as it was.
append(lhs, rhs) ==
  [lhs |-> combine(lhs, rhs), rhs |-> rhs, result |-> combine(lhs, rhs)]

-----------------------------------------------------------------------------
(* The segment iterator (spec.md 4.2 and 9): a cursor into the text.       *)
(* A cursor is the index at which its segment starts; the sentinel of a    *)
(* directory path starts one past the text, and the end position follows   *)
(* the last segment.                                                       *)

HasSentinel(p) == is_directory(p) /\ p # Root

begin(p) == 1

end_NoSentinel(p) == Len(p) + 1

end(p) == IF HasSentinel(p) THEN Len(p) + 2 ELSE Len(p) + 1

AtRoot(p, pos)     == pos = 1 /\ is_absolute(p)
AtSentinel(p, pos) == pos = Len(p) + 1 /\ HasSentinel(p)

\* The index of the last character of the name that starts at pos.
NameEnd(p, pos) ==
  CHOOSE e \in (pos - 1) .. Len(p) :
    /\ \A i \in pos .. e : p[i] # Sep
    /\ e < Len(p) => p[e + 1] = Sep

\* *it
deref(p, pos) ==
  CASE AtRoot(p, pos)     -> Root
    [] AtSentinel(p, pos) -> <<Dot>>
    [] OTHER              -> SubSeq(p, pos, NameEnd(p, pos))

increment_AlwaysSkipsSeparator(p, pos) ==
  CASE AtRoot(p, pos)     -> 2
    [] AtSentinel(p, pos) -> pos + 1
    [] OTHER              -> NameEnd(p, pos) + 2

\* ++it: past the root, or past a name and the separator that ends it.
increment(p, pos) ==
  CASE AtRoot(p, pos)     -> 2
    [] AtSentinel(p, pos) -> pos + 1
    [] OTHER              -> IF NameEnd(p, pos) = Len(p) THEN Len(p) + 1
                                                         ELSE NameEnd(p, pos) + 2

\* The segments a loop from begin() to end() visits.
RECURSIVE WalkFrom(_, _)
WalkFrom(p, pos) ==
  IF pos >= end(p) THEN <<>>
  ELSE <<deref(p, pos)>> \o WalkFrom(p, increment(p, pos))

Walk(p) == WalkFrom(p, begin(p))

\* std::distance(p.begin(), p.end())
distance(p) == Len(Walk(p))

-----------------------------------------------------------------------------
(* The decomposition the iterator must produce (spec.md 4.2), defined on   *)
(* the text as a whole: cut at every separator, then name the root and the *)
(* sentinel.                                                               *)

\* The k-th smallest element of the set of numbers B.
Nth(B, k) == CHOOSE b \in B : Cardinality({x \in B : x < b}) = k - 1

\* The pieces of p between its separators, the empty ones included.
Split(p) ==
  LET cuts == {0, Len(p) + 1} \cup {i \in 1 .. Len(p) : p[i] = Sep}
  IN  [k \in 1 .. Cardinality(cuts) - 1 |->
         SubSeq(p, Nth(cuts, k) + 1, Nth(cuts, k + 1) - 1)]

Segments(p) ==
  LET parts == Split(p) IN
  CASE empty(p) -> <<>>
    [] p = Root -> <<Root>>
    [] OTHER ->
         [k \in 1 .. Len(parts) |->
            CASE k = 1 /\ is_absolute(p)           -> Root
              [] k = Len(parts) /\ is_directory(p) -> <<Dot>>
              [] OTHER                             -> parts[k]]

\* The order the test cases ..._compares_less_than_lexi_by_segment and
\* ..._compares_greater_than_lexi_by_segment are named after: lexicographic
\* in the segments, each compared as a text.
less_by_segment(p, q) == Lexicographic(text_less, Segments(p), Segments(q))

\* The names of p: its pieces that are not empty.
Names(p) == SelectSeq(Split(p), LAMBDA part : part # <<>>)

\* No piece of p is empty but the one before a leading and the one after a
\* trailing separator: the text has no doubled separator.
NoEmptyName(p) == \A i \in 1 .. Len(p) - 1 : ~ (p[i] = Sep /\ p[i + 1] = Sep)

=============================================================================
