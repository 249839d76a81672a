-------------------------- MODULE MCConsolidation --------------------------
EXTENDS Consolidation, TLC

Msg(r, t, c) == [role |-> r, text |-> t, calls |-> c]

\* A short exchange, one whose question is long, and one with a tool call.
Plain == <<Msg("user", 1, 0), Msg("assistant", 1, 0)>>
Long  == <<Msg("user", 3, 0), Msg("assistant", 1, 0)>>
Tool  == <<Msg("user", 1, 0), Msg("assistant", 0, 1), Msg("tool", 2, 0),
           Msg("assistant", 1, 0)>>

AllShapes == {Plain, Long, Tool}
FewShapes == {Long, Tool}

\* The sessions are interchangeable.
Symmetry == Permutations(Sessions)
=============================================================================
