------------------------------ MODULE MCCommand ------------------------------
(* A small instance of Command for TLC.                                    *)
EXTENDS Command

\* No step reads the status of the last answer of a handler.
View == <<store, issued, pc, local, faults, crashes, commands>>
=============================================================================
