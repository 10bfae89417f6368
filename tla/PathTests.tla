------------------------------ MODULE PathTests ------------------------------
(***************************************************************************)
(* The test suite of src/test/ssh/path_test.cpp, as expectations on the    *)
(* operators of module SshPath.  One definition stands for one group of    *)
(* test cases, a conjunct for each thing the group checks.                 *)
(*                                                                         *)
(* The texts of the suite are shortened to the characters its cases tell   *)
(* apart: "Test Filename.txt", ".txp", ".txs" and "Test filename.txt"      *)
(* differ in the case of one letter and in the last letter, "Test Dir"     *)
(* and "Test Dir 2" in a suffix, "bar", "baq" and "baz" in the last        *)
(* letter.                                                                 *)
(***************************************************************************)
EXTENDS SshPath

\* The code points of the characters of the suite.
ASCII ==
  "+" :> 43 @@ "." :> 46 @@ "/" :> 47 @@ "2" :> 50 @@ "D" :> 68 @@
  "F" :> 70 @@ "a" :> 97 @@ "b" :> 98 @@ "c" :> 99 @@ "d" :> 100 @@
  "f" :> 102 @@ "o" :> 111 @@ "p" :> 112 @@ "q" :> 113 @@ "r" :> 114 @@
  "s" :> 115 @@ "t" :> 116 @@ "w" :> 119 @@ "z" :> 122

Filename_txt  == <<"F", "t">>
Filename_txp  == <<"F", "p">>
Filename_txs  == <<"F", "s">>
filename_txt  == <<"f", "t">>
Dir           == <<"D">>
Dir2          == <<"D", "2">>
other         == <<"o">>
foo           == <<"f">>
bar           == <<"b", "r">>
baq           == <<"b", "q">>
baz           == <<"b", "z">>
woz           == <<"w">>

\* "l/r"
l ++ r == l \o Root \o r

foo_bar == foo ++ bar
baz_woz == baz ++ woz

-----------------------------------------------------------------------------
(* What the cases of every group check *)

greater(p, q) == less(q, p)

\* p equals itself, a path from the same text, a copy and an assigned copy,
\* and converts back to its text.
IsAValue(p, text) ==
  /\ equal(p, p)
  /\ equal(p, text)
  /\ LET q == p IN equal(p, q)
  /\ native(p) = text

\* it = p.begin(); *it++ is each of segs in turn; then it == p.end().
IteratesOver(p, segs) ==
  /\ begin(p) = end(p) <=> segs = <<>>
  /\ distance(p) = Len(segs)
  /\ Walk(p) = segs

\* p / q and p /= q are r; p / q leaves p and q alone, p /= q leaves q.
Concatenates(p, q, r) ==
  /\ equal(concatenate(p, q).result, r)
  /\ equal(concatenate(p, q).lhs, p) /\ equal(concatenate(p, q).rhs, q)
  /\ equal(append(p, q).result, r)
  /\ equal(append(p, q).lhs, r)
  /\ equal(append(p, q).rhs, q)

-----------------------------------------------------------------------------
(* The groups *)

DefaultPath ==
  LET p == <<>> IN
  /\ empty(p)
  /\ IsAValue(p, <<>>)
  /\ ~equal(p, other)
  /\ IteratesOver(p, <<>>)
  /\ is_relative(p) /\ ~is_absolute(p)

RootPath ==
  LET p == Root IN
  /\ ~empty(p)
  /\ IsAValue(p, Root)
  /\ ~equal(p, foo) /\ ~equal(p, Root \o foo) /\ ~equal(p, <<>>)
  /\ IteratesOver(p, <<Root>>)
  /\ ~is_relative(p) /\ is_absolute(p)

SingleSegmentAbsolutePath ==
  LET p == Root \o Filename_txt IN
  /\ ~empty(p)
  /\ IsAValue(p, Root \o Filename_txt)
  /\ ~equal(p, Root \o Filename_txp)
  /\ ~equal(p, Filename_txt)
  /\ ~equal(p, Root \o filename_txt)
  /\ less(Root \o Filename_txs, p) /\ greater(p, Root \o Filename_txs)
  /\ IteratesOver(p, <<Root, Filename_txt>>)
  /\ ~is_relative(p) /\ is_absolute(p)

MultiSegmentRelativePathEquality ==
  LET p == Dir ++ Filename_txt IN
  /\ ~empty(p)
  /\ IsAValue(p, Dir ++ Filename_txt)
  /\ ~equal(p, Dir ++ Filename_txp)
  /\ ~equal(p, Dir2 ++ Filename_txt)
  /\ ~equal(p, Dir ++ filename_txt)

\* ..._compares_less_than_lexi_by_segment and ..._greater_than_...
MultiSegmentRelativePathOrderBySegment ==
  LET p == <<"a">> ++ <<"a", "d">>
      q == <<"a", "+">> ++ <<"c">>
  IN  less(p, q) /\ greater(q, p)

MultiSegmentRelativePathIteration ==
  LET p == Dir ++ Filename_txt IN
  /\ native(p) = Dir ++ Filename_txt
  /\ IteratesOver(p, <<Dir, Filename_txt>>)
  /\ is_relative(p) /\ ~is_absolute(p)

DirectoryPath ==
  LET p == foo_bar \o Root IN
  /\ ~empty(p)
  /\ IsAValue(p, foo_bar \o Root)
  /\ ~equal(p, foo_bar)
  /\ less(foo ++ baq \o Root, p) /\ greater(p, foo ++ baq \o Root)
  /\ IteratesOver(p, <<foo, bar, <<Dot>>>>)
  /\ is_relative(p) /\ ~is_absolute(p)
  /\ ~is_relative(Root \o p) /\ is_absolute(Root \o p)

ConcatenatingRelativePaths ==
  Concatenates(foo_bar, baz_woz, foo_bar ++ baz_woz)

ConcatenatingRelativeDirectoryPaths ==
  Concatenates(foo_bar \o Root, baz_woz \o Root, foo_bar ++ baz_woz \o Root)

\* The expectation under the usual rule of path libraries, where an
\* absolute right operand replaces the left one.
ConcatenatingRelativeAndAbsolutePath_Conventional ==
  Concatenates(foo_bar, Root \o baz_woz, Root \o baz_woz)

ConcatenatingRelativeAndAbsolutePath ==
  Concatenates(foo_bar, Root \o baz_woz, foo_bar ++ baz_woz)

ConcatenatingRelativeDirectoryAndAbsolutePath ==
  Concatenates(foo_bar \o Root, Root \o baz_woz, foo_bar ++ baz_woz)

ConcatenatingDefaultAndRelativePath ==
  Concatenates(<<>>, foo_bar, foo_bar)

ConcatenatingRootAndRelativePath ==
  Concatenates(Root, foo_bar, Root \o foo_bar)

ConcatenatingRootAndRoot ==
  Concatenates(Root, Root, Root)

-----------------------------------------------------------------------------
(* The runner *)

\* BOOST_AUTO_TEST_SUITE(path_tests): the groups by name, each with the
\* verdict of its checks.
path_tests ==
  [default_path                  |-> DefaultPath,
   root_path                     |-> RootPath,
   single_segment_absolute_path  |-> SingleSegmentAbsolutePath,
   multi_segment_equality        |-> MultiSegmentRelativePathEquality,
   multi_segment_order           |-> MultiSegmentRelativePathOrderBySegment,
   multi_segment_iteration       |-> MultiSegmentRelativePathIteration,
   directory_path                |-> DirectoryPath,
   relative_relative             |-> ConcatenatingRelativePaths,
   directory_directory           |-> ConcatenatingRelativeDirectoryPaths,
   relative_absolute             |-> ConcatenatingRelativeAndAbsolutePath,
   directory_absolute            |-> ConcatenatingRelativeDirectoryAndAbsolutePath,
   default_relative              |-> ConcatenatingDefaultAndRelativePath,
   root_relative                 |-> ConcatenatingRootAndRelativePath,
   root_root                     |-> ConcatenatingRootAndRoot]

VARIABLES
  ran,     \* the groups that have run
  failed   \* those of them with a check that did not hold

vars == <<ran, failed>>

Init == ran = {} /\ failed = {}

\* A group runs once; its cases share nothing with those of another group,
\* so the order in which the runner takes them is left open.
RunGroup(g) ==
  /\ g \notin ran
  /\ ran' = ran \cup {g}
  /\ failed' = IF path_tests[g] THEN failed ELSE failed \cup {g}

\* The runner stops when every group has run.
Next == \E g \in DOMAIN path_tests : RunGroup(g)

Spec == Init /\ [][Next]_vars

-----------------------------------------------------------------------------
(* Properties *)

\* The path type as described passes every case of the repository's suite
\* on classification, equality, conversion, iteration and concatenation:
\* whatever part of the suite has run, nothing has failed but the group of
\* the two cases that order a pair of paths segment by segment.  The suite
\* is the only code of the repository that says what the type does, so it
\* is what the operators of SshPath answer to; the concatenation groups pin
\* the rule that an absolute right operand loses its separator instead of
\* replacing the left operand.
OnlyOrderBySegmentFails == failed \subseteq {"multi_segment_order"}

\* The suite passes.  Its cases ..._compares_less_than_lexi_by_segment and
\* ..._compares_greater_than_lexi_by_segment expect "a/ad" < "a+/c": paths
\* ordered segment by segment, "a" before "a+".  The description of the
\* type orders paths as their texts, separator included, which puts "a+/c"
\* first because '+' sorts before '/'.
SuitePasses == failed = {}

=============================================================================
