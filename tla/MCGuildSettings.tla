--------------------------- MODULE MCGuildSettings ---------------------------
EXTENDS GuildSettings, TLC
Symmetric == Permutations(Sessions)
=============================================================================
