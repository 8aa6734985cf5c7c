---------------------------- MODULE DurableIndex -----------------------------
(***************************************************************************)
(* What the tensor index promises those who look blocks up in it.  A node  *)
(* that is up knows blocks, one for a hash; it learns new ones while it    *)
(* has room, saves some of those it knows, and forgets none.  A crash      *)
(* costs it what was not saved, and no more; when the node is up again it  *)
(* knows exactly what was saved, wherever in a checkpoint the crash came   *)
(* and however often it came again during the recovery.  Lines of the log, *)
(* their order and repetitions belong to TensorNode, which implements this *)
(* module.                                                                 *)
(***************************************************************************)
EXTENDS Integers, FiniteSets

CONSTANTS
  Block,     \* records with a hash, Crc64
  ZeroCrc,   \* the hash of blocks that cannot be saved
  IndexSize  \* how many blocks a node can know

VARIABLES
  mode,   \* "up" or "recovering"
  known,  \* the blocks a node that is up knows
  safe    \* the blocks that were saved

durableVars == <<mode, known, safe>>

DurableInit == mode = "up" /\ known = {} /\ safe = {}

Learn(b) ==
  /\ mode = "up"
  /\ Cardinality(known) < IndexSize /\ \A c \in known : c.Crc64 # b.Crc64
  /\ known' = known \cup {b}
  /\ UNCHANGED <<mode, safe>>

Save(b) ==
  /\ mode = "up" /\ b \in known /\ b.Crc64 # ZeroCrc
  /\ safe' = safe \cup {b}
  /\ UNCHANGED <<mode, known>>

Crash ==
  /\ mode' = "recovering" /\ known' = {}
  /\ UNCHANGED safe

Recover ==
  /\ mode = "recovering"
  /\ mode' = "up" /\ known' = safe
  /\ UNCHANGED safe

DurableNext == Crash \/ Recover \/ \E b \in Block : Learn(b) \/ Save(b)

DurableSpec == DurableInit /\ [][DurableNext]_durableVars
=============================================================================
