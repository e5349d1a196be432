----------------------------- MODULE FileServer -----------------------------
(***************************************************************************)
(* The file service of a node: the TFTP server (tftp.c), the table of      *)
(* files on the boot flash and the EEPROMs (ffs.c), the flash driver       *)
(* (bootFlash.c) and the system parameters that are kept in one of the     *)
(* files (systemParameters.c).                                             *)
(*                                                                         *)
(* The program is one loop without threads: a packet is handled, and a     *)
(* parameter block stashed, in one step.  A power failure can cut a step   *)
(* short: Restart leaves in the memory what the step had done so far.      *)
(*                                                                         *)
(* A file is counted in blocks of the size of a TFTP block, and a length   *)
(* or an offset in units of half a block, which is what an EEPROM holds;   *)
(* a packet carries 0, 1 or 2 units.                                       *)
(***************************************************************************)
EXTENDS Integers

CONSTANTS
  NBlocks,      \* the blocks of all memories together
  SectorBlocks, \* the blocks of a sector of the flash
  Files,        \* the names in the table
  fileTable,    \* for each, its first block, its length and its kind
  ParamFile,    \* SYSPARAM_NAME
  Values,       \* what a block can hold
  ParamValues,  \* the values that are parameter blocks with their checksum
  Default,      \* the parameters of a node that finds none
  NoName,       \* a name that is not in the table
  LastBlock,    \* the largest block number, 65535
  MemoryFails   \* bound: writes and EEPROM accesses can fail

Blocks == 0..(NBlocks - 1)
Full   == 2   \* TFTP_BLOCKSIZE
Sizes  == 0..Full

\* A block that is erased, and one whose writing or erasing was cut short;
\* what is in the transmit buffer before it holds a block, and after an
\* error reply.
Erased    == "erased"
Torn      == "torn"
Nothing   == "nothing"
ErrorText == "errorText"
Content   == Values \cup {Erased, Torn}

\* FA_READ, FA_WRITE, FA_CREATE_ALWAYS
FA_READ  == {}
FA_WRITE == {"write"}
FA_CREATE_ALWAYS == {"create"}
Modes == {FA_READ, FA_WRITE \cup FA_CREATE_ALWAYS}

NULL   == "null"   \* no file
Closed == -1       \* UINT32_MAX

BlockOf(f, off) == fileTable[f].base + off \div Full
LargerSector(b) ==   \* faulty: of a flash with larger sectors
  {c \in Blocks : c \div (2 * SectorBlocks) = b \div (2 * SectorBlocks)}
Sector(b) == {c \in Blocks : c \div SectorBlocks = b \div SectorBlocks}

ASSUME BlocksAssumption == NBlocks \in Nat /\ SectorBlocks \in Nat \ {0}
ASSUME TableAssumption ==
  /\ fileTable \in
       [Files -> [base : Nat, length : Nat \ {0}, eeprom : BOOLEAN, readOnly : BOOLEAN]]
  /\ \A f \in Files :
       /\ fileTable[f].base \in Blocks
       /\ \A off \in 0..(fileTable[f].length - 1) : BlockOf(f, off) \in Blocks
       /\ fileTable[f].length \div Full + 1 <= LastBlock
ASSUME NamesAssumption ==
  /\ LastBlock \in Nat /\ MemoryFails \in BOOLEAN
  /\ ParamFile \in Files /\ NoName \notin Files /\ NULL \notin Files
  /\ ParamValues \subseteq Values /\ Default \in ParamValues
  /\ {Erased, Torn, Nothing, ErrorText} \cap Values = {}

VARIABLES
  memory,      \* the flash and the EEPROMs
  offset,      \* ffs.c: where the open file is at, Closed if there is none
  activeMode,  \* ffs.c: how it was opened last
  fp,          \* tftp.c: the file being transferred
  prevBlock,   \* tftp.c: the last block sent or written
  prevCount,   \* tftp.c: the size of the last block sent
  xbuf,        \* tftp.c: the data in the transmit buffer
  params,      \* the system parameters in use
  reply        \* the packet sent by the last step

serverVars == <<memory, offset, activeMode, fp, prevBlock, prevCount, xbuf,
                params, reply>>

BlockNumbers == 0..LastBlock

Requests ==
  [op : {"rrq", "wrq"}, file : Files \cup {NoName}, octet : BOOLEAN]
    \cup [op : {"data"}, block : BlockNumbers, data : Values, size : Sizes]
    \cup [op : {"ack"}, block : BlockNumbers]

NoReply    == [op |-> "none"]
ErrorReply == [op |-> "error"]
Ack(block) == [op |-> "ack", block |-> block]
Data(block, data, size) ==
  [op |-> "data", block |-> block, data |-> data, size |-> size]

Replies ==
  {NoReply, ErrorReply}
    \cup [op : {"ack"}, block : BlockNumbers]
    \cup [op : {"data"}, block : BlockNumbers,
          data : Content \cup {Nothing, ErrorText}, size : Sizes]

Init ==
  /\ memory \in [Blocks -> {Erased}]
  /\ offset = Closed
  /\ activeMode = FA_READ
  /\ fp = NULL
  /\ prevBlock = 0
  /\ prevCount = 0
  /\ xbuf = Nothing
  /\ params = Default
  /\ reply = NoReply

-----------------------------------------------------------------------------
(***************************************************************************)
(* bootFlash.c, iicFPGA.c: writing one block.  A write to the start of a   *)
(* sector erases the sector first; a block that is not erased cannot be    *)
(* written, which the check after the write notices.                       *)
(***************************************************************************)
ErasesAlways(f, b) == ~fileTable[f].eeprom   \* faulty: for every block

Erases(f, b) == ~fileTable[f].eeprom /\ b % SectorBlocks = 0

Prepared(f, b) ==
  [c \in Blocks |-> IF Erases(f, b) /\ c \in Sector(b) THEN Erased ELSE memory[c]]

Programmed(f, b, data) ==
  LET old == Prepared(f, b)[b]
  IN  IF fileTable[f].eeprom \/ old = Erased \/ old = data THEN data ELSE Torn

\* What a write that fails, or is cut short, can leave.
Remains(f, b) ==
  {memory, [Prepared(f, b) EXCEPT ![b] = Torn]}
    \cup {[c \in Blocks |-> IF Erases(f, b) /\ c \in Sector(b) THEN Torn ELSE memory[c]]}

-----------------------------------------------------------------------------
(***************************************************************************)
(* ffs.c: one file is open at a time, whoever opens it.                    *)
(***************************************************************************)
RefusesAnyWrite(f, mode) ==   \* faulty: notices the mode, leaves it open
  mode # FA_READ /\ fileTable[f].readOnly

\* The read-only files refuse only a mode that nobody asks for.
Refuses(f, mode) == mode = FA_WRITE /\ fileTable[f].readOnly

f_open(name, mode, off) ==
  IF off # Closed THEN [fr |-> "FR_NOT_READY", offset |-> off]
  ELSE IF name \notin Files THEN [fr |-> "FR_NO_FILE", offset |-> off]
  ELSE IF Refuses(name, mode) THEN [fr |-> "FR_ERR", offset |-> 0]
  ELSE [fr |-> "FR_OK", offset |-> 0]

\* The units that fit into the file from an offset on.
Unlimited(f, off, size) == size   \* faulty: the end of the file is ignored

Fitting(f, off, size) ==
  IF fileTable[f].length - off < size THEN fileTable[f].length - off ELSE size

\* What f_write can do: all of the data or as much of it as fits, or an error.
f_write(f, off, data, size) ==
  LET n      == Fitting(f, off, size)
      b      == BlockOf(f, off)
      wanted == IF n = size THEN data ELSE Torn
      got    == Programmed(f, b, wanted)
  IN  IF n = 0 THEN {[memory |-> memory, n |-> 0, ok |-> TRUE]}
      ELSE {[memory |-> [Prepared(f, b) EXCEPT ![b] = got],
             n |-> IF got = wanted THEN n ELSE 0, ok |-> got = wanted]}
             \cup {[memory |-> m, n |-> 0, ok |-> FALSE] :
                     m \in IF MemoryFails THEN Remains(f, b) ELSE {}}

-----------------------------------------------------------------------------
(***************************************************************************)
(* tftp.c: one packet, whoever sends it.                                   *)
(***************************************************************************)
ReplyError == reply' = ErrorReply /\ xbuf' = ErrorText

CloseFile == fp' = NULL /\ offset' = Closed

\* sendBlock, reading the next block of file f, which is open in a mode.
SendNext(block, f, off, mode) ==
  LET n    == Fitting(f, off, Full)
      data == IF n = 0 THEN xbuf ELSE memory[BlockOf(f, off)]
  IN  \/ /\ mode = FA_READ
         /\ reply' = Data(block, data, n)
         /\ xbuf' = data
         /\ prevCount' = n
         /\ IF n = Full THEN fp' = f /\ offset' = off + n ELSE CloseFile
      \/ /\ mode # FA_READ \/ (MemoryFails /\ fileTable[f].eeprom)
         /\ ReplyError
         /\ CloseFile
         /\ UNCHANGED prevCount

\* A request of another type is refused, one that is cut short ignored.
BadType(p) ==
  /\ ~p.octet
  /\ prevBlock' = 0
  /\ ReplyError \/ (reply' = NoReply /\ UNCHANGED xbuf)
  /\ UNCHANGED <<memory, offset, activeMode, fp, prevCount, params>>

\* A new request ends the transfer that is going on.
Request(p) ==
  LET mode   == IF p.op = "rrq" THEN FA_READ ELSE FA_WRITE \cup FA_CREATE_ALWAYS
      opened == f_open(p.file, mode, IF fp # NULL THEN Closed ELSE offset)
  IN  /\ p.octet
      /\ \/ /\ opened.fr # "FR_OK"
            /\ fp' = NULL
            /\ offset' = opened.offset
            /\ prevBlock' = 0
            /\ ReplyError
            /\ UNCHANGED <<activeMode, prevCount>>
         \/ /\ opened.fr = "FR_OK"
            /\ activeMode' = mode
            /\ IF p.op = "rrq"
                 THEN /\ prevBlock' = 1
                      /\ SendNext(1, p.file, opened.offset, mode)
                 ELSE /\ prevBlock' = 0
                      /\ fp' = p.file
                      /\ offset' = opened.offset
                      /\ reply' = Ack(0)
                      /\ UNCHANGED <<prevCount, xbuf>>
      /\ UNCHANGED <<memory, params>>

Follows(block) ==
  block = prevBlock + 1 \/ (prevBlock = LastBlock /\ block \in {0, 1})

RepeatsNever(block) == FALSE   \* faulty: a repeated block is dropped

Repeats(block) == block = prevBlock

\* A block that was received before is only acknowledged again.
DataAgain(p) ==
  /\ Repeats(p.block)
  /\ reply' = Ack(p.block)
  /\ UNCHANGED <<memory, offset, activeMode, fp, prevBlock, prevCount, xbuf, params>>

DataStray(p) ==
  /\ ~Repeats(p.block) /\ ~Follows(p.block)
  /\ reply' = NoReply
  /\ UNCHANGED <<memory, offset, activeMode, fp, prevBlock, prevCount, xbuf, params>>

\* The next block.  An empty one writes nothing, a short one ends the file.
DataNext(p) ==
  LET writable == offset # Closed /\ activeMode # FA_READ
      results  == IF p.size = 0 THEN {[memory |-> memory, n |-> 0, ok |-> TRUE]}
                  ELSE IF writable THEN f_write(fp, offset, p.data, p.size)
                  ELSE {[memory |-> memory, n |-> 0, ok |-> FALSE]}
  IN  /\ ~Repeats(p.block) /\ Follows(p.block)
      /\ prevBlock' = p.block
      /\ \E r \in results :
           /\ memory' = r.memory
           /\ IF r.ok /\ r.n = p.size
                THEN reply' = Ack(p.block) /\ UNCHANGED xbuf
                ELSE ReplyError
           /\ IF fp # NULL /\ p.size < Full THEN CloseFile
              ELSE /\ UNCHANGED fp
                   /\ offset' = IF offset = Closed THEN offset ELSE offset + r.n
      /\ UNCHANGED <<activeMode, prevCount, params>>

\* The acknowledgement of the last block asks for the next; any other one
\* asks for the last one again, which is taken from the transmit buffer.
AckLast(p) ==
  /\ p.block = prevBlock
  /\ IF fp = NULL
       THEN /\ reply' = NoReply
            /\ UNCHANGED <<offset, fp, prevBlock, prevCount, xbuf>>
       ELSE /\ prevBlock' = (prevBlock + 1) % (LastBlock + 1)
            /\ SendNext((prevBlock + 1) % (LastBlock + 1), fp, offset, activeMode)
  /\ UNCHANGED <<memory, activeMode, params>>

AckOtherReads(p) ==   \* faulty: reads on instead of repeating
  /\ p.block # prevBlock
  /\ IF fp = NULL
       THEN reply' = NoReply /\ UNCHANGED <<offset, fp, prevCount, xbuf>>
       ELSE SendNext(prevBlock, fp, offset, activeMode)
  /\ UNCHANGED <<memory, activeMode, prevBlock, params>>

AckOther(p) ==
  /\ p.block # prevBlock
  /\ reply' = Data(prevBlock, xbuf, prevCount)
  /\ UNCHANGED <<memory, offset, activeMode, fp, prevBlock, prevCount, xbuf, params>>

tftpHandler(p) ==
  \/ p.op \in {"rrq", "wrq"} /\ (BadType(p) \/ Request(p))
  \/ p.op = "data" /\ (DataAgain(p) \/ DataStray(p) \/ DataNext(p))
  \/ p.op = "ack" /\ (AckLast(p) \/ AckOther(p))

-----------------------------------------------------------------------------
(***************************************************************************)
(* systemParameters.c                                                      *)
(***************************************************************************)
\* A console command changes the parameters and stores them, unless a file
\* is open.
systemParametersStash(v) ==
  LET opened == f_open(ParamFile, FA_WRITE \cup FA_CREATE_ALWAYS, offset)
  IN  /\ params' = v
      /\ IF opened.fr = "FR_OK"
           THEN /\ activeMode' = FA_WRITE \cup FA_CREATE_ALWAYS
                /\ \E r \in f_write(ParamFile, opened.offset, v, 1) : memory' = r.memory
           ELSE UNCHANGED <<activeMode, memory>>
      /\ reply' = NoReply
      /\ UNCHANGED <<offset, fp, prevBlock, prevCount, xbuf>>

\* What a restart finds: a write can have been going on.
Interrupted ==
  {memory}
    \cup (IF ~MemoryFails THEN {}
          ELSE IF fp # NULL /\ activeMode # FA_READ /\ offset < fileTable[fp].length
            THEN Remains(fp, BlockOf(fp, offset))
          ELSE IF offset = Closed THEN Remains(ParamFile, BlockOf(ParamFile, 0))
          ELSE {})

\* main, systemParametersInit: the stored parameters, if their checksum is
\* right, else the defaults.
Restart ==
  /\ memory' \in Interrupted
  /\ LET stored == memory'[BlockOf(ParamFile, 0)]
     IN  params' = IF stored \in ParamValues THEN stored ELSE Default
  /\ offset' = Closed
  /\ activeMode' = FA_READ
  /\ fp' = NULL
  /\ prevBlock' = 0
  /\ prevCount' = 0
  /\ xbuf' = Nothing
  /\ reply' = NoReply

-----------------------------------------------------------------------------
Next ==
  \/ \E p \in Requests : tftpHandler(p)
  \/ \E v \in ParamValues : systemParametersStash(v)
  \/ Restart

Spec == Init /\ [][Next]_serverVars

-----------------------------------------------------------------------------
(* Every variable holds a value of its type: no write leaves the file and  *)
(* no block number leaves its sixteen bits.                                *)
TypeOK ==
  /\ memory \in [Blocks -> Content]
  /\ activeMode \in Modes
  /\ prevBlock \in BlockNumbers
  /\ prevCount \in Sizes
  /\ xbuf \in Content \cup {Nothing, ErrorText}
  /\ params \in ParamValues
  /\ reply \in Replies
  /\ fp \in Files \cup {NULL}
  /\ IF fp = NULL THEN offset \in Int ELSE offset \in -1..fileTable[fp].length

(* The server and the file system agree on whether a file is open, over    *)
(* any packets of any clients, errors and restarts: the lock is always     *)
(* held by a transfer that the next request can end, so no sequence of     *)
(* requests locks uploads and parameters out until the node is restarted.  *)
HandlesAgree == fp = NULL <=> offset = Closed

=============================================================================
