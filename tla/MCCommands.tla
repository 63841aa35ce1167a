------------------------------ MODULE MCCommands ------------------------------
(* Small instances of ConsoleCommands for TLC. *)
EXTENDS ConsoleCommands

\* A pair with an answer and one that is not listed. The bytes of the answers
\* have digits and letters in both places.
MCIds      == {<<5, 6>>, <<5, 7>>}
MCListed   == {<<5, 6>>}
MCZero(id) == <<9, 171>>
MCOne      == <<223>>
=============================================================================
