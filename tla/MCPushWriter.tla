---------------------------- MODULE MCPushWriter ----------------------------
\* Instances of PushWriter for TLC.
EXTENDS PushWriter

\* Every request has samples of every ident.
AllIdents == [p \in Pushers |-> Idents]
===============================================================================
