-------------------------------- MODULE MCNet --------------------------------
EXTENDS NetSystem

\* The local clock is behind or right.
MCSkews == {-6, 0}
=============================================================================
