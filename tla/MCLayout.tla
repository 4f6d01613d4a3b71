------------------------------- MODULE MCLayout -------------------------------
\* LayoutManager for TLC. What an earlier run has stored: a tab with a shell beside an agent.
EXTENDS LayoutManager
CONSTANTS terminal, claude
MCSaved == SplitPane(CreateWorkspace(Empty, 1, terminal), Leaf(terminal), claude)
=============================================================================
