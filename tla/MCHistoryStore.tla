---------------------------- MODULE MCHistoryStore ----------------------------
(***************************************************************************)
(* HistoryStore with a message that is empty and one that has the fields   *)
(* of a record for its payload.                                            *)
(***************************************************************************)
EXTENDS HistoryStore

MCContents == {<<>>, <<2, 0>>}

===============================================================================
