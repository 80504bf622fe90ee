---------------------------- MODULE MCLintService -----------------------------
(* Instances of LintService.tla for TLC. *)
EXTENDS LintService, TLC

CONSTANT visitor

\* Requests are interchangeable until TLC picks their kind.
AnyRequest == Permutations(Requests)

\* The visitor and the operator ask for AI on pasted text, which shares every
\* step after the conversion with a file; the visitor also converts a file.
MixedKinds == { [who |-> visitor, llm |-> TRUE,  file |-> FALSE],
                [who |-> Admin,   llm |-> TRUE,  file |-> FALSE],
                [who |-> visitor, llm |-> FALSE, file |-> TRUE] }
\* A visitor alone; his files are also checked with AI.
VisitorKinds == [who : {visitor}, llm : BOOLEAN, file : BOOLEAN]
PastedKinds == { k \in VisitorKinds : k.llm /\ ~k.file }
===============================================================================
