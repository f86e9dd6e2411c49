--------------------------- MODULE MCReceiveStore ---------------------------
(***************************************************************************)
(* ReceiveStore with one transfer of two chunks.                           *)
(***************************************************************************)
EXTENDS ReceiveStore

CONSTANT t1

OneTransfer == {t1}
SameName    == [t \in Transfers |-> t1]
=============================================================================
