------------------------------ MODULE MCAtQueue ------------------------------
(* AtQueue for TLC: scripts shaped like those of at_command.c.              *)
EXTENDS AtQueue

Plain  == [res |-> "OK", ign |-> FALSE, user |-> FALSE]
Ignore == [res |-> "OK", ign |-> TRUE, user |-> FALSE]
User   == [res |-> "OK", ign |-> FALSE, user |-> TRUE]

MCPing   == <<Ignore>>                                  \* at_enque_ping
MCDial   == <<Ignore, Plain>>                           \* at_enque_dial: ATD, CLCC
MCSms    == <<[res |-> "PROMPT", ign |-> FALSE, user |-> FALSE], Plain>>
MCRead   == <<[res |-> "CMGR", ign |-> FALSE, user |-> FALSE], Plain>>
MCUser   == <<User>>                                    \* at_enque_user_cmd

MCScript == {MCPing, MCDial, MCSms, MCRead, MCUser}
MCFew == {MCPing, MCDial, MCSms}
=============================================================================
