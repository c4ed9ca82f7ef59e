---------------------------- MODULE MCDocExamples ----------------------------
(***************************************************************************)
(* Model-checking instance of DocExamples: each documented program runs   *)
(* on its own goroutine, one program per initial state.                   *)
(***************************************************************************)
EXTENDS DocExamples

MCAllPrograms == DOMAIN Programs

\* The options the documented programs pass: WithIgnoredCodes(1001).
MCDocOptions == {WithIgnoredCodes(<<1001>>)}

=============================================================================
