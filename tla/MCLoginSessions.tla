--------------------------- MODULE MCLoginSessions ---------------------------
(* Small instances of LoginSessions: two client sessions that compete for    *)
(* the same accounts.                                                        *)
EXTENDS LoginSessions

CONSTANTS s1, s2, a1, a2

TwoSessions == {s1, s2}
OneAccount == {a1}
TwoAccounts == {a1, a2}
===============================================================================
