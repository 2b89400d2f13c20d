------------------------------- MODULE MCWrapper -------------------------------
\* The menu bar app on a small instance.
EXTENDS Wrapper

CONSTANTS default, noCall, noReply

MCNames == {default}
=============================================================================
