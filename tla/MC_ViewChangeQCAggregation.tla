-------------------- MODULE MC_ViewChangeQCAggregation --------------------
EXTENDS ViewChangeQCAggregation

MCHashes == {"h1", "h2"}
\* PrepareQCs of epoch 0 view 1 and of epoch 1 view 0.
MCClaims == {<<0, 1>>, <<1, 0>>}
MCSigOutcomes == {TRUE, FALSE}

\* Every vote map, Byzantine voters included.
MCAnyInputs == AllVoteMaps

=============================================================================
