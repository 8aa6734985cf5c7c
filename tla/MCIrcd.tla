------------------------------- MODULE MCIrcd -------------------------------
(***************************************************************************)
(* Ircd with two client slots and three connections, so that a slot is     *)
(* used again and a connection can be refused; room for one channel and    *)
(* two names for it, one of them too long for its buffer.                  *)
(***************************************************************************)
EXTENDS Ircd

CONSTANTS ann, oracle, longname, cutname

MCDefaults == <<>>

MCStored == [n \in Names |-> IF n = longname THEN cutname ELSE n]
=============================================================================
