------------------------------ MODULE MCIpcServer ------------------------------
\* Servers, apps and connections on a small instance.
EXTENDS IpcServer

CONSTANTS s1, s2, a1, a2, c1, c2, none

MCServers == {s1, s2}
MCApps == {a1, a2}
MCConns == {c1, c2}
=============================================================================
