----------------------------- MODULE PathSession -----------------------------
(***************************************************************************)
(* A client of ssh::filesystem::path: it holds path values in variables,   *)
(* constructs, copies and appends them, and walks one of them with the     *)
(* segment iterator.  This is how the listing and naming code of the       *)
(* namespace extension uses the type, and how the test suite of            *)
(* src/test/ssh/path_test.cpp exercises it.                                *)
(*                                                                         *)
(* The operations are those of module SshPath; this module adds the state  *)
(* they act on.  The iterator is a cursor into the variable named Walked;  *)
(* whatever changes that variable's text ends the iterator's life, as for  *)
(* any iterator of a C++ container.                                        *)
(***************************************************************************)
EXTENDS SshPath

CONSTANTS
  Vars,        \* the names of the client's path variables
  Walked,      \* the variable the iterator walks
  InputTexts,  \* the texts paths are constructed from
  MaxLen       \* append only while the result is no longer than this

ASSUME Walked \in Vars /\ MaxLen \in Nat

VARIABLES
  path,    \* path[x]: the text stored in variable x
  it,      \* the cursor into path[Walked]; 0 when there is no iterator
  walked   \* the segments *it has produced since begin()

vars == <<path, it, walked>>

NoIterator == 0

\* Variable x receives text t; an iterator into x does not survive that.
Store(x, t) ==
  /\ path' = [path EXCEPT ![x] = t]
  /\ IF x = Walked THEN it' = NoIterator /\ walked' = <<>>
                   ELSE UNCHANGED <<it, walked>>

\* path x;  every variable starts default-constructed.
Init ==
  /\ path = [x \in Vars |-> <<>>]
  /\ it = NoIterator
  /\ walked = <<>>

\* x = path(t)
Construct(x, t) == Store(x, native(t))

\* x = y
Assign(x, y) == Store(x, path[y])

\* x = y / z
Concatenate(x, y, z) ==
  /\ Len(concatenate(path[y], path[z]).result) <= MaxLen
  /\ Store(x, concatenate(path[y], path[z]).result)

\* x /= y
AppendTo(x, y) ==
  /\ Len(append(path[x], path[y]).lhs) <= MaxLen
  /\ Store(x, append(path[x], path[y]).lhs)

\* it = path[Walked].begin()
Begin ==
  /\ it' = begin(path[Walked])
  /\ walked' = <<>>
  /\ UNCHANGED path

\* *it++, on an iterator that is not at end()
Advance ==
  /\ it # NoIterator
  /\ it # end(path[Walked])
  /\ walked' = Append(walked, deref(path[Walked], it))
  /\ it' = increment(path[Walked], it)
  /\ UNCHANGED path

Next ==
  \/ \E x \in Vars, t \in InputTexts : Construct(x, t)
  \/ \E x, y \in Vars : Assign(x, y)
  \/ \E x, y, z \in Vars : Concatenate(x, y, z)
  \/ \E x, y \in Vars : AppendTo(x, y)
  \/ Begin
  \/ Advance

Spec == Init /\ [][Next]_vars

-----------------------------------------------------------------------------
(* Properties *)

Chars == UNION {{t[i] : i \in DOMAIN t} : t \in InputTexts}

\* The texts of at most n characters.
TextUpTo(n) == {t \in Seq(Chars) : Len(t) <= n}

TypeOK ==
  /\ \A x \in Vars : path[x] \in TextUpTo(MaxLen)
  /\ DOMAIN path = Vars
  /\ it \in 0 .. end(path[Walked])
  /\ walked \in Seq(TextUpTo(MaxLen))
  /\ Len(walked) <= MaxLen + 1

\* A loop "for (it = p.begin(); it != p.end(); ++it)" visits the segments
\* of p in order, each once, and stops after the last one: what the cursor
\* has produced so far is a prefix of the decomposition of the whole text,
\* and the cursor compares equal to end() exactly when nothing is left.
\* The cursor finds each segment from an offset alone, so the root, the
\* sentinel after a trailing separator and the step over a separator are
\* each a place where it can skip or repeat a segment.
WalkFollowsSegments ==
  it # NoIterator =>
    /\ IsPrefix(walked, Segments(path[Walked]))
    /\ it = end(path[Walked]) <=> walked = Segments(path[Walked])

\* Any two paths the client holds are ordered one way, the other way, or
\* are equal, and never two of the three: operator< is a strict total order
\* that agrees with operator==, as the description of the type promises
\* ("a == b" exactly when neither "a < b" nor "b < a").  It is asked of the
\* order the test cases of path_test.cpp lines 379-391 require, by segment,
\* together with the equality of texts the description gives.
OrderAgreesWithEquality ==
  \A x, y \in Vars :
    LET lt == less(path[x], path[y])
        gt == less(path[y], path[x])
        eq == equal(path[x], path[y])
    IN  (lt \/ gt \/ eq) /\ ~(lt /\ gt) /\ ~(lt /\ eq) /\ ~(gt /\ eq)

\* The pieces of t that are empty for lack of a name between two separators.
EmptyNames(t) == {i \in 1 .. Len(t) - 1 : t[i] = Sep /\ t[i + 1] = Sep}

\* Concatenation joins the names of its operands and invents none: the
\* result has the names of the left operand followed by those of the right,
\* no empty name that neither operand had, the root of the left operand
\* (of the right one when the left is empty), and the directory form of
\* the right operand (of the left one when the right is empty or is the
\* root).  This holds for every pair of texts the client can hold,
\* whichever of the five rules of combine applies to it.
CombineJoinsNames ==
  \A x, y \in Vars :
    LET l == path[x]
        r == path[y]
        c == combine(l, r)
    IN  /\ Names(c) = Names(l) \o Names(r)
        /\ Cardinality(EmptyNames(c)) <=
             Cardinality(EmptyNames(l)) + Cardinality(EmptyNames(r))
        /\ is_absolute(c) = IF empty(l) THEN is_absolute(r) ELSE is_absolute(l)
        /\ is_directory(c) = IF empty(r) THEN is_directory(l)
                             ELSE is_directory(r)

\* A name: a text with no separator that is not empty.
IsName(t) == ~empty(t) /\ \A i \in DOMAIN t : t[i] # Sep

\* The segments of t without the sentinel of a directory.
RealSegments(t) == IF HasSentinel(t) THEN Front(Segments(t)) ELSE Segments(t)

\* The namespace browser builds the path of a child as parent / name and
\* shows the last segment as the name.  For every parent and every name,
\* the segments of parent / name are the segments of the parent, without
\* its directory sentinel, followed by the name: appending to "a" and to
\* "a/" gives the same child, and the root gains no second separator.
ChildIsLastSegment ==
  \A x, y \in Vars :
    IsName(path[y]) =>
      Walk(combine(path[x], path[y])) =
        Append(RealSegments(path[x]), path[y])

=============================================================================
