------------------------------ MODULE MCTracer ------------------------------
EXTENDS Tracer

\* All, half, and one of the application's.
MCSamplers == {AlwaysOn, [type |-> "custom", ratio |-> 0], [type |-> "ratio", ratio |-> 4]}

\* Short texts; nothing, a control character, one too long.
MCTexts == {<<<<"a", "b">>, <<"c">>>>, <<<<>>, <<"a", "control">>>>,
            <<<<"a", "control">>, <<"a", "b", "c", "d">>>>}

ThreadSymmetry == Permutations(Threads)

MCAlterations == {"none", "upper", "version", "invalid", "trailing", "cut"}
=============================================================================
