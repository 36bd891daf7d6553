---------------------------- MODULE MCAsyncEngine ----------------------------
\* The instances of AsyncEngine only need sets of model values, which the
\* configurations give.
EXTENDS AsyncEngine
=============================================================================
