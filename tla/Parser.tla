------------------------------- MODULE Parser -------------------------------
(***************************************************************************)
(* How a list is kept in the store (service/utils/parser.h): one string, in  *)
(* which every element is followed by a newline.  A string is a sequence of  *)
(* characters.                                                             *)
(***************************************************************************)
EXTENDS Naturals, FiniteSets, SequencesExt

CONSTANT Newline   \* the character '\n'

Parser(vecs) ==
  LET parse[n \in 0 .. Len(vecs)] ==
        IF n = 0 THEN <<>> ELSE parse[n - 1] \o vecs[n] \o <<Newline>>
  IN  parse[Len(vecs)]

\* One more character of what std::getline reads.
Getline(got, char) ==
  IF char = Newline
  THEN [vec |-> Append(got.vec, got.token), token |-> <<>>]
  ELSE [vec |-> got.vec, token |-> Append(got.token, char)]

\* The lines of the string, and what comes after the last newline.
Getlines(string) ==
  LET got[n \in 0 .. Len(string)] ==
        IF n = 0 THEN [vec |-> <<>>, token |-> <<>>] ELSE Getline(got[n - 1], string[n])
  IN  got[Len(string)]

\* At the end of the string std::getline delivers what is left, unless that is nothing.
Deparser(string) ==
  LET got == Getlines(string)
  IN  IF got.token = <<>> THEN got.vec ELSE Append(got.vec, got.token)

Plain(string) == Newline \notin Range(string)
=============================================================================
