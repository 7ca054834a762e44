--------------------------- MODULE MCClientSession ---------------------------
\* Instances of ClientSession for TLC: a user and an administrator who share a
\* browser.
EXTENDS ClientSession

CONSTANTS alice, root
People == {alice, root}
Admin  == {root}
=============================================================================
