------------------------ MODULE MCProviderSnapshots ------------------------
EXTENDS ProviderSnapshots, TLC
CONSTANTS s1, v1, v2
=============================================================================
