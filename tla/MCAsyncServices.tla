-------------------------- MODULE MCAsyncServices --------------------------
EXTENDS AsyncServices
\* Just below the threshold, and at it.
MCScores == {69, 70}
MCCosts == {1}
=============================================================================
