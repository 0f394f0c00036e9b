---------------------------- MODULE MCImpressions ---------------------------
\* Impressions for model checking: auctions and handlers are interchangeable.
EXTENDS Impressions, TLC

Symmetry == Permutations(Auctions) \cup Permutations(Handlers)
=============================================================================
