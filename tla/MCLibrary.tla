----------------------------- MODULE MCLibrary ------------------------------
EXTENDS Library

\* Two entries that compare as equal, and one on either side.
MCEntries == {<<5, 1>>, <<7, 1>>, <<7, 2>>, <<9, 1>>}
=============================================================================
