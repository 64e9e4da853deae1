----------------------------- MODULE MCReceiver -----------------------------
(***************************************************************************)
(* The receiving side of the synchronisation: the generation store, the    *)
(* replay window and the chunk staging.  They share nothing but the writer *)
(* lock, which each model has already taken, so one of them, part, moves   *)
(* in a behaviour.                                                         *)
(***************************************************************************)
EXTENDS LocalDisplayStore, ShadowAuth, ChunkStaging

CONSTANTS i1, i2

MCBundles == {[seq |-> 1, id |-> 1, ident |-> i1], [seq |-> 2, id |-> 1, ident |-> i1],
              [seq |-> 2, id |-> 2, ident |-> i2], [seq |-> 3, id |-> 1, ident |-> i2],
              [seq |-> 4, id |-> 1, ident |-> i2]}

MCUploads == {[seq |-> 1], [seq |-> 2]}

VARIABLE part

ReceiverInit ==
  /\ part \in {"store", "auth", "chunks"} /\ Init /\ AuthInit /\ ChunkInit
  /\ part # "store" => approved = i1

ReceiverNext ==
  /\ \/ part = "store" /\ Next /\ UNCHANGED <<authVars, chunkVars>>
     \/ part = "auth" /\ AuthNext /\ UNCHANGED <<vars, chunkVars>>
     \/ part = "chunks" /\ ChunkNext /\ UNCHANGED <<vars, authVars>>
  /\ UNCHANGED part

ReceiverSpec == ReceiverInit /\ [][ReceiverNext]_<<part, vars, authVars, chunkVars>>
=============================================================================
