---------------------------- MODULE MCTraderPool ----------------------------
EXTENDS TraderPool

MCNoBadTokens == {}
MCFirstTokenBad == {0}
=============================================================================
