------------------------------- MODULE MCTokens ------------------------------
(***************************************************************************)
(* Instances of Tokens with three ticks to a second.                       *)
(***************************************************************************)
EXTENDS Tokens

\* Besides the default, of whole seconds: a broken number of seconds, less than
\* a second, and a duration that parses and makes no sense.
SomeTTLs == {-1, 2, 5}

=============================================================================
