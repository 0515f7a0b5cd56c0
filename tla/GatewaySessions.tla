---------------------------- MODULE GatewaySessions ----------------------------
(***************************************************************************)
(* The gateway: its client sessions, clientMap, and the tokens it was      *)
(* notified of.                                                            *)
(*                                                                         *)
(* The read handlers of a session follow one another, but not on its       *)
(* strand; a failed write completes on the strand, that is on another      *)
(* thread, and both call OnDisconnected.  It is not atomic: the session's  *)
(* account is tested, and its leave sent to GameServer, before clientMutex *)
(* is taken, under which the account is erased from clientMap and cleared. *)
(*                                                                         *)
(* Left out: headers, limits and packets of the game (module               *)
(* SecureChannel), a client that connects with a token twice, and the torn *)
(* reads of account_id_ that unlocked accesses allow.                      *)
(***************************************************************************)
EXTENDS Integers, Functions

CONSTANTS Sessions, NoAccount

ASSUME NoneAssumption == NoAccount \notin Nat

VARIABLES
  pendingTokens,  \* account |-> token
  account_id,
  clientMap,      \* account |-> session
  link,           \* external: the client's connection: none, open, broken
  reader,         \* how far the read loop is
  writer,         \* the completion of a failed write: idle, leaving
  consumed,       \* history: session let in |-> its token
  answered        \* GatewayConnectRes was sent

sessionVars == <<account_id, clientMap, reader, writer, consumed, answered>>
gatewayVars == <<pendingTokens, link, sessionVars>>

InitGateway ==
  /\ pendingTokens = <<>>
  /\ account_id = [s \in Sessions |-> NoAccount]
  /\ clientMap = <<>>
  /\ link = [s \in Sessions |-> "none"]
  /\ reader = [s \in Sessions |-> "none"]
  /\ writer = [s \in Sessions |-> "idle"]
  /\ consumed = <<>>
  /\ answered = [s \in Sessions |-> FALSE]

Reads(s, place) == reader' = [reader EXCEPT ![s] = place]

-------------------------------------------------------------------------------
(* Tokens.                                                                 *)

StorePendingToken(a, t) ==
  /\ pendingTokens' = [x \in DOMAIN pendingTokens \cup {a} |->
                         IF x = a THEN t ELSE pendingTokens[x]]
  /\ UNCHANGED <<link, sessionVars>>

Known(a) == a \in DOMAIN pendingTokens

Bug_AnyToken(a, t, expired) == Known(a) /\ ~expired
Matches(a, t, expired) == Known(a) /\ ~expired /\ pendingTokens[a] = t

\* A token that is used or found to be expired is erased, one that differs is kept.
Erased(a, t, expired) == IF Known(a) /\ (expired \/ pendingTokens[a] = t) THEN {a} ELSE {}

\* The token kept may have expired: it is not looked at before.
VerifyAndConsumeToken(s, a, t, expired) ==
  /\ reader[s] = "header" /\ link[s] = "open" /\ ~answered[s]
  /\ pendingTokens' = Restrict(pendingTokens, DOMAIN pendingTokens \ Erased(a, t, expired))
  /\ \/ /\ Matches(a, t, expired)
        /\ consumed' = [x \in DOMAIN consumed \cup {s} |->
                          IF x = s THEN pendingTokens[a] ELSE consumed[x]]
        /\ Reads(s, "verified")
     \/ /\ ~Matches(a, t, expired)
        /\ Reads(s, "refused")
        /\ UNCHANGED consumed
  /\ UNCHANGED <<link, account_id, clientMap, writer, answered>>

-------------------------------------------------------------------------------
(* Sessions.                                                               *)

do_accept(s) ==
  /\ link[s] = "none"
  /\ link' = [link EXCEPT ![s] = "open"]
  /\ Reads(s, "header")
  /\ UNCHANGED <<pendingTokens, account_id, clientMap, writer, consumed, answered>>

\* SetAccountId, and under clientMutex the entry in clientMap, which may have
\* been that of an older session.
EnterMap(s, a) ==
  /\ reader[s] = "verified"
  /\ Reads(s, "listed")
  /\ account_id' = [account_id EXCEPT ![s] = a]
  /\ clientMap' = [x \in DOMAIN clientMap \cup {a} |-> IF x = a THEN s ELSE clientMap[x]]
  /\ UNCHANGED <<pendingTokens, link, writer, consumed, answered>>

SendConnectRes(s) ==
  /\ reader[s] \in {"listed", "refused"}
  /\ Reads(s, "header")
  /\ answered' = [answered EXCEPT ![s] = TRUE]
  /\ UNCHANGED <<pendingTokens, link, account_id, clientMap, writer, consumed>>

Breaks(s) ==
  /\ link[s] = "open"
  /\ link' = [link EXCEPT ![s] = "broken"]
  /\ UNCHANGED <<pendingTokens, sessionVars>>

-------------------------------------------------------------------------------
(* OnDisconnected, by the reader and by the writer.                        *)

Bug_Anonymous(s) == FALSE
HasAccount(s) == account_id[s] # NoAccount

ReadError(s) ==
  /\ reader[s] = "header" /\ link[s] = "broken"
  /\ Reads(s, IF HasAccount(s) THEN "leaving" ELSE "ended")
  /\ UNCHANGED <<pendingTokens, link, account_id, clientMap, writer, consumed, answered>>

\* Something was written to the session: its answer, or a packet of the game
\* while it was listed.
WriteError(s) ==
  /\ link[s] = "broken" /\ writer[s] = "idle" /\ HasAccount(s)
  /\ answered[s] \/ \E a \in DOMAIN clientMap : clientMap[a] = s
  /\ writer' = [writer EXCEPT ![s] = "leaving"]
  /\ UNCHANGED <<pendingTokens, link, account_id, clientMap, reader, consumed, answered>>

Bug_NotListed(s) == {}
\* clientMap.erase(account_id_): the entry of the account, whichever session it is.
Unlisted(s) == {account_id[s]}

EraseAndClear(s) ==
  /\ clientMap' = Restrict(clientMap, DOMAIN clientMap \ Unlisted(s))
  /\ account_id' = [account_id EXCEPT ![s] = NoAccount]
  /\ UNCHANGED <<pendingTokens, link, consumed, answered>>

ReaderErases(s) ==
  /\ reader[s] = "leaving"
  /\ EraseAndClear(s)
  /\ Reads(s, "ended")
  /\ UNCHANGED writer

WriterErases(s) ==
  /\ writer[s] = "leaving"
  /\ EraseAndClear(s)
  /\ writer' = [writer EXCEPT ![s] = "idle"]
  /\ UNCHANGED reader

GatewayAlone(s) ==
  \/ SendConnectRes(s) \/ Breaks(s)
  \/ ReadError(s) \/ WriteError(s) \/ ReaderErases(s) \/ WriterErases(s)

===============================================================================
