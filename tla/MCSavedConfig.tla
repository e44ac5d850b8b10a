---------------------------- MODULE MCSavedConfig ----------------------------
EXTENDS SavedConfig

\* The agent's output PSI fills its area, the panel's is short.
MCLengths == [t \in {"agent", "fp"} |-> IF t = "agent" THEN {PsiPages} ELSE {1}]
\* One area of several pages, and one of a single page.
MCFailing == {Psi, Sys}
==============================================================================
