----------------------------- MODULE MCWebPool -----------------------------
(* A small instance of WebPool for TLC: a tab and one thread more.          *)
EXTENDS WebPool

CONSTANT t1

MCTabs    == {t1}
MCThreads == Cardinality(MCTabs) + 1
=============================================================================
