------------------------------ MODULE MC_Server ------------------------------
(* Server instantiated for TLC: two worker threads, two accounts.          *)
EXTENDS Server

CONSTANTS t1, t2
MC_Threads == {t1, t2}
MC_Accts == 1..2
MC_InitEmail == [a \in MC_Accts |-> IF a = 1 THEN "e1" ELSE "e2"]
MC_NewEmails == {"e1", "e3"}
==============================================================================
