--------------------------- MODULE ParameterStore ---------------------------
(***************************************************************************)
(* The parameters over restarts: FileServer with a history variable that   *)
(* says which parameters were last stored, as far as the node was told.    *)
(***************************************************************************)
EXTENDS FileServer

CONSTANT Unknown   \* nothing is promised of the stored parameters

ASSUME UnknownAssumption == Unknown \notin Values

\* The parameters begin a sector: 15 MiB is a multiple of any sector the
\* table allows for.
ASSUME AlignedAssumption == fileTable[ParamFile].base % SectorBlocks = 0

VARIABLE kept   \* the parameters last stashed

storeVars == <<serverVars, kept>>

ParamBlock == BlockOf(ParamFile, 0)

StoreInit == Init /\ kept = Unknown

\* The files that hold the parameters: their own and the whole flash.
Holders == {f \in Files : \E off \in 0..(fileTable[f].length - 1) : BlockOf(f, off) = ParamBlock}

\* Uploading such a file replaces what was stashed.
StorePacket(p) ==
  /\ tftpHandler(p)
  /\ kept' = IF p.op = "data" /\ fp \in Holders THEN Unknown ELSE kept

\* A stash that is refused leaves the stored parameters alone.
StoreStash(v) ==
  /\ systemParametersStash(v)
  /\ kept' = IF offset # Closed THEN kept
             ELSE IF memory'[ParamBlock] = v THEN v ELSE Unknown

\* Only a restart that cuts a write of the file short may harm it.
StoreRestart ==
  /\ Restart
  /\ kept' = IF memory' # memory /\ fp \in Holders \cup {NULL} THEN Unknown ELSE kept

StoreNext ==
  \/ \E p \in Requests : StorePacket(p)
  \/ \E v \in ParamValues : StoreStash(v)
  \/ StoreRestart

StoreSpec == StoreInit /\ [][StoreNext]_storeVars

(* What was stashed without an error is what a restart will find: no       *)
(* transfer of another file, complete, too long, failed or cut short by a  *)
(* restart, and no stash that was refused touches it.                      *)
StashSurvives == kept # Unknown => memory[ParamBlock] = kept

=============================================================================
