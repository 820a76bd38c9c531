--------------------------- MODULE BrachaVariants ---------------------------
(***************************************************************************)
(* The three programs that run Bracha's broadcast, side by side: which one *)
(* a behaviour follows is decided at its beginning.                        *)
(***************************************************************************)
EXTENDS BrachaBasic, BrachaOptimized

CONSTANT Programs   \* those a run looks at

ASSUME ProgramsAssumption == Programs \subseteq {"bracha", "basic", "optimized"}

VARIABLE program

variantsVars == <<optimizedVars, program>>

VariantsInit == OptimizedInit /\ program \in Programs

VariantsNext ==
  \/ program = "bracha" /\ Next /\ UNCHANGED <<sentEcho, afterEcho, program>>
  \/ program = "basic" /\ BasicNext /\ UNCHANGED <<sentEcho, afterEcho, program>>
  \/ program = "optimized" /\ OptimizedNext /\ UNCHANGED program

VariantsSpec == VariantsInit /\ [][VariantsNext]_variantsVars

\* The counters of the optimised program's report (bracha_optimized.py:201-205
\* and 266-347): an ECHO is broadcast once per message, with the exceptions that
\* EchoedOnce names, and a READY once.
EchoesAreNotRepeated == program = "optimized" => EchoedOnce
=============================================================================
