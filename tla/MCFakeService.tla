--------------------------- MODULE MCFakeService ---------------------------
(* A small instance of FakeService for TLC.                                *)
EXTENDS FakeService

CONSTANTS a, b,   \* two letters, ...
          Digit,  \* ... some digits, ...
          Minus   \* ... and the sign of "-1"

\* The names "a", "b" and "a\nb".
MCName == {<<a>>, <<b>>, <<a, Newline, b>>}
MCId == {<<d>> : d \in Digit}
MCDefaultReply == <<Minus>>

\* Ids are interchangeable, but the order in which they are issued is a choice of
\* the model.
Symmetry == Permutations(Digit)

\* Bound: not more than one chirp once somebody follows, and not more than two with
\* more than one author.  The lists of followed names and the threads have nothing
\* to do with each other, and no thread with its authors.
Bound ==
  /\ Len(issued) > 1 => \A name \in Registered : GetUserFollowed(table_, name) = <<>>
  /\ Len(issued) > 2 => Cardinality(Registered) = 1
=============================================================================
