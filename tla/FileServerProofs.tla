-------------------------- MODULE FileServerProofs --------------------------
(***************************************************************************)
(* For any table, memory and packets: the type invariant of FileServer and *)
(* the agreement of the server with the file system.  Neither is inductive *)
(* alone: the offset stays in its file because an open file is the         *)
(* server's, and the server's file stays open because no step but a close  *)
(* sets the offset to Closed.  On them rests that the stored parameters    *)
(* survive (ParameterStore).                                               *)
(***************************************************************************)
EXTENDS ParameterStore, TLAPS

\* What can be in the transmit buffer and in a data packet.
Buffer == Content \cup {Nothing, ErrorText}

\* A file and an offset that agree, and are in bounds.
HandleOK(file, off) ==
  \/ file = NULL /\ off = Closed
  \/ file \in Files /\ off \in 0..fileTable[file].length

IInv == TypeOK /\ HandlesAgree

USE DEF Closed, Sizes, Full

-----------------------------------------------------------------------------
LEMMA TableFacts ==
  ASSUME NEW f \in Files
  PROVE  /\ fileTable[f].length \in Nat \ {0}
         /\ fileTable[f].base \in Nat
         /\ fileTable[f].eeprom \in BOOLEAN
  BY TableAssumption

LEMMA BlockOfType ==
  ASSUME NEW f \in Files, NEW off \in 0..fileTable[f].length, off < fileTable[f].length
  PROVE  BlockOf(f, off) \in Blocks
<1>1. off \in 0..(fileTable[f].length - 1)
  BY TableFacts
<1> QED
  BY <1>1, TableAssumption

LEMMA FirstBlock == ASSUME NEW f \in Files PROVE BlockOf(f, 0) \in Blocks
<1>1. 0 \in 0..fileTable[f].length /\ 0 < fileTable[f].length
  BY TableFacts
<1> QED
  BY <1>1, BlockOfType

LEMMA LastBlockPositive == LastBlock \in Nat /\ LastBlock >= 1
<1>1. ParamFile \in Files /\ LastBlock \in Nat
  BY NamesAssumption
<1>2. fileTable[ParamFile].length \in Nat
  BY <1>1, TableFacts
<1>3. fileTable[ParamFile].length \div 2 + 1 <= LastBlock
  BY <1>1, TableAssumption
<1>4. fileTable[ParamFile].length \div 2 >= 0
  BY <1>2
<1>5. fileTable[ParamFile].length \div 2 \in Int
  BY <1>2
<1> QED
  BY <1>1, <1>3, <1>4, <1>5

(* No more fits than is left of the file, or was asked for.                *)
LEMMA FittingBounds ==
  ASSUME NEW f \in Files, NEW off \in 0..fileTable[f].length, NEW size \in Sizes
  PROVE  /\ Fitting(f, off, size) \in 0..size
         /\ off + Fitting(f, off, size) <= fileTable[f].length
         /\ Fitting(f, off, size) # 0 => off < fileTable[f].length
<1> DEFINE left == fileTable[f].length - off
<1>1. /\ fileTable[f].length \in Nat /\ off \in Nat
      /\ left \in Nat /\ off + left = fileTable[f].length
  BY TableFacts
<1>2. size \in Nat
  OBVIOUS
<1>3. CASE left < size
  <2>1. Fitting(f, off, size) = left
    BY <1>3 DEF Fitting
  <2> QED
    BY <1>1, <1>2, <1>3, <2>1
<1>4. CASE ~(left < size)
  <2>1. Fitting(f, off, size) = size
    BY <1>4 DEF Fitting
  <2> QED
    BY <1>1, <1>2, <1>4, <2>1
<1> QED
  BY <1>3, <1>4

LEMMA MemoryStays ==
  ASSUME memory \in [Blocks -> Content], NEW f \in Files, NEW b \in Blocks,
         NEW x \in Content
  PROVE  /\ Prepared(f, b) \in [Blocks -> Content]
         /\ [Prepared(f, b) EXCEPT ![b] = x] \in [Blocks -> Content]
         /\ Remains(f, b) \subseteq [Blocks -> Content]
<1>1. Erased \in Content /\ Torn \in Content
  BY DEF Content
<1>2. Prepared(f, b) \in [Blocks -> Content]
  BY <1>1 DEF Prepared
<1>3. [c \in Blocks |-> IF Erases(f, b) /\ c \in Sector(b) THEN Torn ELSE memory[c]]
        \in [Blocks -> Content]
  BY <1>1
<1>4. /\ [Prepared(f, b) EXCEPT ![b] = x] \in [Blocks -> Content]
      /\ [Prepared(f, b) EXCEPT ![b] = Torn] \in [Blocks -> Content]
  BY <1>1, <1>2
<1> QED
  BY <1>2, <1>3, <1>4 DEF Remains

(* A write keeps the memory's type, and ends within the file.              *)
LEMMA WriteResult ==
  ASSUME memory \in [Blocks -> Content], NEW f \in Files,
         NEW off \in 0..fileTable[f].length, NEW size \in Sizes, NEW data \in Values,
         NEW r \in f_write(f, off, data, size)
  PROVE  /\ r.memory \in [Blocks -> Content]
         /\ r.n \in Nat /\ off + r.n <= fileTable[f].length
<1> DEFINE n      == Fitting(f, off, size)
           b      == BlockOf(f, off)
           wanted == IF n = size THEN data ELSE Torn
           got    == Programmed(f, b, wanted)
           whole  == [memory |-> [Prepared(f, b) EXCEPT ![b] = got],
                      n |-> IF got = wanted THEN n ELSE 0, ok |-> got = wanted]
           failed == {[memory |-> m, n |-> 0, ok |-> FALSE] :
                        m \in IF MemoryFails THEN Remains(f, b) ELSE {}}
<1>1. /\ n \in 0..size /\ off + n <= fileTable[f].length
      /\ n # 0 => off < fileTable[f].length
  BY FittingBounds
<1>2. off + 0 <= fileTable[f].length /\ fileTable[f].length \in Nat
  BY TableFacts
<1>3. CASE n = 0
  <2>1. r = [memory |-> memory, n |-> 0, ok |-> TRUE]
    BY <1>3 DEF f_write
  <2> QED
    BY <2>1, <1>2
<1>4. CASE n # 0
  <2>1. b \in Blocks
    BY <1>1, <1>4, BlockOfType
  <2>2. got \in Content
    BY DEF Programmed, Content
  <2>3. r = whole \/ r \in failed
    BY <1>4 DEF f_write
  <2>4. CASE r = whole
    <3>1. r.memory \in [Blocks -> Content]
      BY <2>4, <2>1, <2>2, MemoryStays
    <3>2. r.n = n \/ r.n = 0
      BY <2>4
    <3> QED
      BY <3>1, <3>2, <1>1, <1>2
  <2>5. CASE r \in failed
    <3>1. PICK m \in (IF MemoryFails THEN Remains(f, b) ELSE {}) :
            r = [memory |-> m, n |-> 0, ok |-> FALSE]
      BY <2>5
    <3>2. m \in [Blocks -> Content]
      BY <2>1, <2>2, MemoryStays
    <3> QED
      BY <3>1, <3>2, <1>2
  <2> QED
    BY <2>3, <2>4, <2>5
<1> QED
  BY <1>3, <1>4

(* sendBlock sends what is read or an error, and leaves file and offset in *)
(* agreement.                                                              *)
LEMMA SendResult ==
  ASSUME memory \in [Blocks -> Content], xbuf \in Buffer, prevCount \in Sizes,
         NEW f \in Files, NEW off \in 0..fileTable[f].length, NEW mode,
         NEW block \in BlockNumbers, SendNext(block, f, off, mode)
  PROVE  /\ HandleOK(fp', offset')
         /\ reply' \in Replies /\ xbuf' \in Buffer /\ prevCount' \in Sizes
<1> DEFINE n    == Fitting(f, off, 2)
           data == IF n = 0 THEN xbuf ELSE memory[BlockOf(f, off)]
<1>1. /\ n \in 0..2 /\ off + n <= fileTable[f].length
      /\ n # 0 => off < fileTable[f].length
  BY FittingBounds
<1>2. fileTable[f].length \in Nat
  BY TableFacts
<1>3. data \in Buffer
  <2>1. CASE n = 0
    BY <2>1
  <2>2. CASE n # 0
    <3>1. BlockOf(f, off) \in Blocks
      BY <2>2, <1>1, BlockOfType
    <3> QED
      BY <3>1, <2>2 DEF Buffer
  <2> QED
    BY <2>1, <2>2
<1>4. CASE /\ reply' = Data(block, data, n)
           /\ xbuf' = data
           /\ prevCount' = n
           /\ IF n = Full THEN fp' = f /\ offset' = off + n ELSE CloseFile
  <2>1. reply' \in Replies
    BY <1>1, <1>3, <1>4 DEF Replies, Data, Buffer
  <2>2. HandleOK(fp', offset')
    <3>1. CASE n = 2
      <4>1. fp' = f /\ offset' = off + n
        BY <1>4, <3>1
      <4>2. off + n \in 0..fileTable[f].length
        BY <1>1, <1>2
      <4> QED
        BY <4>1, <4>2 DEF HandleOK
    <3>2. CASE n # 2
      BY <1>4, <3>2 DEF HandleOK, CloseFile
    <3> QED
      BY <3>1, <3>2
  <2> QED
    BY <1>1, <1>3, <1>4, <2>1, <2>2
<1>5. CASE ReplyError /\ CloseFile /\ UNCHANGED prevCount
  BY <1>5 DEF ReplyError, CloseFile, HandleOK, Replies, Buffer
<1> QED
  BY <1>4, <1>5 DEF SendNext

-----------------------------------------------------------------------------
(* The invariant in the form the steps use.                                *)
LEMMA Reading ==
  IInv <=> /\ memory \in [Blocks -> Content]
           /\ activeMode \in Modes
           /\ prevBlock \in BlockNumbers
           /\ prevCount \in Sizes
           /\ xbuf \in Buffer
           /\ params \in ParamValues
           /\ reply \in Replies
           /\ HandleOK(fp, offset)
<1>1. NULL \notin Files
  BY NamesAssumption
<1>2. \A f \in Files : fileTable[f].length \in Nat
  BY TableFacts
<1>3. /\ fp \in Files \cup {NULL}
      /\ IF fp = NULL THEN offset \in Int ELSE offset \in -1..fileTable[fp].length
      /\ fp = NULL <=> offset = -1
      <=> HandleOK(fp, offset)
  BY <1>1, <1>2 DEF HandleOK
<1> QED
  BY <1>3 DEF IInv, TypeOK, HandlesAgree, Buffer

LEMMA ReadingNext ==
  IInv' <=> /\ memory' \in [Blocks -> Content]
            /\ activeMode' \in Modes
            /\ prevBlock' \in BlockNumbers
            /\ prevCount' \in Sizes
            /\ xbuf' \in Buffer
            /\ params' \in ParamValues
            /\ reply' \in Replies
            /\ HandleOK(fp', offset')
<1>1. NULL \notin Files
  BY NamesAssumption
<1>2. \A f \in Files : fileTable[f].length \in Nat
  BY TableFacts
<1>3. /\ fp' \in Files \cup {NULL}
      /\ IF fp' = NULL THEN offset' \in Int ELSE offset' \in -1..fileTable[fp'].length
      /\ fp' = NULL <=> offset' = -1
      <=> HandleOK(fp', offset')
  BY <1>1, <1>2 DEF HandleOK
<1> QED
  BY <1>3 DEF IInv, TypeOK, HandlesAgree, Buffer

-----------------------------------------------------------------------------
LEMMA InitHolds == Init => IInv
<1> SUFFICES ASSUME Init PROVE IInv
  OBVIOUS
<1>1. memory \in [Blocks -> Content]
  BY DEF Init, Content
<1>2. activeMode \in Modes /\ xbuf \in Buffer /\ reply \in Replies
  BY DEF Init, Modes, Buffer, Replies
<1>3. prevBlock \in BlockNumbers /\ prevCount \in Sizes
  BY LastBlockPositive DEF Init, BlockNumbers
<1>4. params \in ParamValues /\ HandleOK(fp, offset)
  BY NamesAssumption DEF Init, HandleOK
<1> QED
  BY <1>1, <1>2, <1>3, <1>4, Reading

LEMMA ModeFacts ==
  /\ FA_READ \in Modes /\ FA_WRITE \cup FA_CREATE_ALWAYS \in Modes
  /\ FA_READ # FA_WRITE /\ FA_WRITE \cup FA_CREATE_ALWAYS # FA_WRITE
<1>1. "create" \in FA_WRITE \cup FA_CREATE_ALWAYS /\ "create" \notin FA_WRITE
  BY DEF FA_WRITE, FA_CREATE_ALWAYS
<1>2. "write" \in FA_WRITE /\ "write" \notin FA_READ
  BY DEF FA_WRITE, FA_READ
<1> QED
  BY <1>1, <1>2 DEF Modes

LEMMA ReplyFacts ==
  /\ ErrorReply \in Replies /\ NoReply \in Replies /\ ErrorText \in Buffer
  /\ \A b \in BlockNumbers : Ack(b) \in Replies
  /\ \A b \in BlockNumbers, d \in Buffer, n \in Sizes : Data(b, d, n) \in Replies
  BY DEF Replies, Ack, Data, Buffer

(* A new request: the file it finds open is closed first, so what it opens *)
(* is opened at zero, and what it cannot open leaves nothing open.         *)
LEMMA RequestStep ==
  ASSUME IInv, NEW p \in Requests, p.op \in {"rrq", "wrq"}, BadType(p) \/ Request(p)
  PROVE  IInv'
<1> DEFINE mode   == IF p.op = "rrq" THEN FA_READ ELSE FA_WRITE \cup FA_CREATE_ALWAYS
           opened == f_open(p.file, mode, IF fp # NULL THEN Closed ELSE offset)
<1>0. /\ 0 \in BlockNumbers /\ 1 \in BlockNumbers
  BY LastBlockPositive DEF BlockNumbers
<1>1. CASE BadType(p)
  <2>1. reply' \in Replies /\ xbuf' \in Buffer
    BY <1>1, ReplyFacts, Reading DEF BadType, ReplyError
  <2>2. HandleOK(fp', offset')
    BY <1>1, Reading DEF BadType
  <2> QED
    BY <2>1, <2>2, <1>0, <1>1, Reading, ReadingNext DEF BadType
<1>2. CASE Request(p)
  <2>1. (IF fp # NULL THEN Closed ELSE offset) = -1
    BY DEF IInv, HandlesAgree
  <2>2. mode \in Modes /\ mode # FA_WRITE
    BY ModeFacts
  <2>3. \/ opened.fr # "FR_OK" /\ opened.offset = -1
        \/ opened.fr = "FR_OK" /\ opened.offset = 0 /\ p.file \in Files
    BY <2>1, <2>2 DEF f_open, Refuses
  <2>4. CASE opened.fr # "FR_OK"
    <3>1. /\ fp' = NULL /\ offset' = -1 /\ prevBlock' = 0
          /\ ReplyError
          /\ UNCHANGED <<activeMode, prevCount, memory, params>>
      BY <1>2, <2>3, <2>4 DEF Request
    <3> QED
      BY <3>1, <1>0, Reading, ReadingNext, ReplyFacts DEF ReplyError, HandleOK
  <2>5. CASE opened.fr = "FR_OK"
    <3>1. activeMode' = mode /\ UNCHANGED <<memory, params>>
      BY <1>2, <2>5 DEF Request
    <3>2. 0 \in 0..fileTable[p.file].length
      BY <2>3, <2>5, TableFacts
    <3>3. CASE p.op = "rrq"
      <4>1. prevBlock' = 1 /\ SendNext(1, p.file, 0, mode)
        BY <1>2, <2>3, <2>5, <3>3 DEF Request
      <4>2. /\ memory \in [Blocks -> Content] /\ xbuf \in Buffer
            /\ prevCount \in Sizes /\ params \in ParamValues
        BY Reading
      <4>3. p.file \in Files
        BY <2>3, <2>5
      <4>4. /\ HandleOK(fp', offset')
            /\ reply' \in Replies /\ xbuf' \in Buffer /\ prevCount' \in Sizes
        BY <4>1, <4>2, <4>3, <3>2, <1>0, SendResult
      <4> QED
        BY <4>1, <4>2, <4>4, <3>1, <2>2, <1>0, ReadingNext
    <3>4. CASE p.op # "rrq"
      <4>1. /\ prevBlock' = 0 /\ fp' = p.file /\ offset' = 0
            /\ reply' = Ack(0)
            /\ UNCHANGED <<prevCount, xbuf>>
        BY <1>2, <2>3, <2>5, <3>4 DEF Request
      <4>2. HandleOK(fp', offset')
        BY <4>1, <3>2, <2>3, <2>5 DEF HandleOK
      <4> QED
        BY <4>1, <4>2, <3>1, <2>2, <1>0, Reading, ReadingNext, ReplyFacts
    <3> QED
      BY <3>3, <3>4
  <2> QED
    BY <2>4, <2>5
<1> QED
  BY <1>1, <1>2

LEMMA DataType ==
  ASSUME NEW p \in Requests, p.op = "data"
  PROVE  p.block \in BlockNumbers /\ p.data \in Values /\ p.size \in Sizes
  BY DEF Requests

LEMMA AckType ==
  ASSUME NEW p \in Requests, p.op = "ack" PROVE p.block \in BlockNumbers
  BY DEF Requests

(* A data packet: what is written ends within the file, and a packet that  *)
(* finds no file open writes nothing.                                      *)
LEMMA DataStep ==
  ASSUME IInv, NEW p \in Requests, p.op = "data",
         DataAgain(p) \/ DataStray(p) \/ DataNext(p)
  PROVE  IInv'
<1> DEFINE none     == [memory |-> memory, n |-> 0, ok |-> TRUE]
           refused  == [memory |-> memory, n |-> 0, ok |-> FALSE]
           writable == offset # Closed /\ activeMode # FA_READ
           results  == IF p.size = 0 THEN {none}
                       ELSE IF writable THEN f_write(fp, offset, p.data, p.size)
                       ELSE {refused}
<1>0. p.block \in BlockNumbers /\ p.data \in Values /\ p.size \in Sizes
  BY DataType
<1>1. CASE DataAgain(p)
  BY <1>0, <1>1, Reading, ReadingNext, ReplyFacts DEF DataAgain
<1>2. CASE DataStray(p)
  BY <1>2, Reading, ReadingNext, ReplyFacts DEF DataStray
<1>3. CASE DataNext(p)
  <2>1. PICK r \in results :
          /\ memory' = r.memory
          /\ IF r.ok /\ r.n = p.size
               THEN reply' = Ack(p.block) /\ UNCHANGED xbuf
               ELSE ReplyError
          /\ IF fp # NULL /\ p.size < Full THEN CloseFile
             ELSE /\ UNCHANGED fp
                  /\ offset' = IF offset = Closed THEN offset ELSE offset + r.n
    BY <1>3 DEF DataNext
  <2>2. prevBlock' = p.block /\ UNCHANGED <<activeMode, prevCount, params>>
    BY <1>3 DEF DataNext
  <2>3. /\ memory \in [Blocks -> Content] /\ xbuf \in Buffer /\ HandleOK(fp, offset)
        /\ activeMode \in Modes /\ prevCount \in Sizes /\ params \in ParamValues
    BY Reading
  <2>4. reply' \in Replies /\ xbuf' \in Buffer
    BY <2>1, <2>3, <1>0, ReplyFacts DEF ReplyError
  <2>5. memory' \in [Blocks -> Content] /\ HandleOK(fp', offset')
    <3>1. CASE fp = NULL /\ offset = -1
      <4>1. r = none \/ r = refused
        BY <3>1, <2>1
      <4>2. r.memory = memory /\ fp' = fp /\ offset' = offset
        BY <4>1, <3>1, <2>1
      <4> QED
        BY <4>2, <3>1, <2>1, <2>3
    <3>2. CASE fp \in Files /\ offset \in 0..fileTable[fp].length
      <4>1. fileTable[fp].length \in Nat
        BY <3>2, TableFacts
      <4>2. /\ r.memory \in [Blocks -> Content]
            /\ r.n \in Nat /\ offset + r.n <= fileTable[fp].length
        <5>1. CASE r = none \/ r = refused
          BY <5>1, <4>1, <3>2, <2>3
        <5>2. CASE r \in f_write(fp, offset, p.data, p.size)
          BY <5>2, <3>2, <2>3, <1>0, WriteResult
        <5> QED
          BY <5>1, <5>2, <2>1
      <4>3. CASE fp # NULL /\ p.size < 2
        BY <4>3, <4>2, <2>1 DEF CloseFile, HandleOK
      <4>4. CASE ~(fp # NULL /\ p.size < 2)
        <5>1. fp' = fp /\ offset' = offset + r.n
          BY <4>4, <3>2, <2>1
        <5>2. offset + r.n \in 0..fileTable[fp].length
          BY <4>1, <4>2, <3>2
        <5> QED
          BY <5>1, <5>2, <4>2, <3>2, <2>1 DEF HandleOK
      <4> QED
        BY <4>3, <4>4
    <3> QED
      BY <3>1, <3>2, <2>3 DEF HandleOK
  <2> QED
    BY <2>2, <2>3, <2>4, <2>5, <1>0, ReadingNext
<1> QED
  BY <1>1, <1>2, <1>3

(* An acknowledgement reads on only from a file that is open.              *)
LEMMA AckStep ==
  ASSUME IInv, NEW p \in Requests, p.op = "ack", AckLast(p) \/ AckOther(p)
  PROVE  IInv'
<1> DEFINE next == (prevBlock + 1) % (LastBlock + 1)
<1>0. /\ memory \in [Blocks -> Content] /\ xbuf \in Buffer /\ HandleOK(fp, offset)
      /\ activeMode \in Modes /\ prevCount \in Sizes /\ params \in ParamValues
      /\ prevBlock \in BlockNumbers
  BY Reading
<1>1. CASE AckOther(p)
  <2>1. reply' \in Replies
    BY <1>0, <1>1, ReplyFacts DEF AckOther
  <2> QED
    BY <2>1, <1>0, <1>1, ReadingNext DEF AckOther
<1>2. CASE AckLast(p) /\ fp = NULL
  <2>1. reply' = NoReply /\ UNCHANGED <<memory, offset, activeMode, fp, prevBlock,
                                        prevCount, xbuf, params>>
    BY <1>2 DEF AckLast
  <2> QED
    BY <2>1, <1>0, ReadingNext, ReplyFacts
<1>3. CASE AckLast(p) /\ fp # NULL
  <2>1. /\ prevBlock' = next /\ SendNext(next, fp, offset, activeMode)
        /\ UNCHANGED <<memory, activeMode, params>>
    BY <1>3 DEF AckLast
  <2>2. fp \in Files /\ offset \in 0..fileTable[fp].length
    BY <1>0, <1>3 DEF HandleOK
  <2>3. next \in BlockNumbers
    BY <1>0, LastBlockPositive DEF BlockNumbers
  <2>4. /\ HandleOK(fp', offset')
        /\ reply' \in Replies /\ xbuf' \in Buffer /\ prevCount' \in Sizes
    BY <2>1, <2>2, <2>3, <1>0, SendResult
  <2> QED
    BY <2>1, <2>3, <2>4, <1>0, ReadingNext
<1> QED
  BY <1>1, <1>2, <1>3

(* A stash writes the parameter file or, if any file is open, nothing.     *)
LEMMA StashStep ==
  ASSUME IInv, NEW v \in ParamValues, systemParametersStash(v) PROVE IInv'
<1> DEFINE opened == f_open(ParamFile, FA_WRITE \cup FA_CREATE_ALWAYS, offset)
<1>0. /\ memory \in [Blocks -> Content] /\ xbuf \in Buffer /\ HandleOK(fp, offset)
      /\ activeMode \in Modes /\ prevCount \in Sizes /\ prevBlock \in BlockNumbers
  BY Reading
<1>1. /\ params' \in ParamValues /\ reply' \in Replies
      /\ UNCHANGED <<offset, fp, prevBlock, prevCount, xbuf>>
  BY ReplyFacts DEF systemParametersStash
<1>2. memory' \in [Blocks -> Content] /\ activeMode' \in Modes
  <2>1. CASE opened.fr = "FR_OK"
    <3>1. opened.offset = 0
      BY <2>1 DEF f_open
    <3>2. /\ activeMode' = FA_WRITE \cup FA_CREATE_ALWAYS
          /\ \E r \in f_write(ParamFile, 0, v, 1) : memory' = r.memory
      BY <2>1, <3>1 DEF systemParametersStash
    <3>3. ParamFile \in Files /\ v \in Values
      BY NamesAssumption
    <3>4. 0 \in 0..fileTable[ParamFile].length /\ 1 \in Sizes
      BY <3>3, TableFacts
    <3>5. memory' \in [Blocks -> Content]
      BY <3>2, <3>3, <3>4, <1>0, WriteResult
    <3> QED
      BY <3>2, <3>5, ModeFacts
  <2>2. CASE opened.fr # "FR_OK"
    BY <2>2, <1>0 DEF systemParametersStash
  <2> QED
    BY <2>1, <2>2
<1> QED
  BY <1>0, <1>1, <1>2, ReadingNext

(* What a restart finds in the memory, it takes only with its checksum.    *)
LEMMA RestartStep == ASSUME IInv, Restart PROVE IInv'
<1>0. memory \in [Blocks -> Content] /\ HandleOK(fp, offset)
  BY Reading
<1>1. memory' \in [Blocks -> Content]
  <2>1. CASE memory' = memory
    BY <2>1, <1>0
  <2>2. CASE fp # NULL /\ offset < fileTable[fp].length /\ memory' \in Remains(fp, BlockOf(fp, offset))
    <3>1. fp \in Files /\ offset \in 0..fileTable[fp].length
      BY <2>2, <1>0 DEF HandleOK
    <3>2. BlockOf(fp, offset) \in Blocks
      BY <2>2, <3>1, BlockOfType
    <3>3. Torn \in Content
      BY DEF Content
    <3> QED
      BY <2>2, <3>1, <3>2, <3>3, <1>0, MemoryStays
  <2>3. CASE memory' \in Remains(ParamFile, BlockOf(ParamFile, 0))
    <3>1. ParamFile \in Files /\ BlockOf(ParamFile, 0) \in Blocks
      BY NamesAssumption, FirstBlock
    <3>2. Torn \in Content
      BY DEF Content
    <3> QED
      BY <2>3, <3>1, <3>2, <1>0, MemoryStays
  <2> QED
    BY <2>1, <2>2, <2>3 DEF Restart, Interrupted
<1>2. params' \in ParamValues
  BY NamesAssumption DEF Restart
<1>3. prevBlock' \in BlockNumbers /\ prevCount' \in Sizes
  BY LastBlockPositive DEF Restart, BlockNumbers
<1>4. activeMode' \in Modes /\ xbuf' \in Buffer /\ reply' \in Replies
  BY ModeFacts, ReplyFacts DEF Restart, Buffer
<1>5. HandleOK(fp', offset')
  BY DEF Restart, HandleOK
<1> QED
  BY <1>1, <1>2, <1>3, <1>4, <1>5, ReadingNext

LEMMA NextHolds == IInv /\ [Next]_serverVars => IInv'
<1> SUFFICES ASSUME IInv, [Next]_serverVars PROVE IInv'
  OBVIOUS
<1>1. ASSUME NEW p \in Requests, tftpHandler(p) PROVE IInv'
  BY <1>1, RequestStep, DataStep, AckStep DEF tftpHandler
<1>2. ASSUME NEW v \in ParamValues, systemParametersStash(v) PROVE IInv'
  BY <1>2, StashStep
<1>3. CASE Restart
  BY <1>3, RestartStep
<1>4. CASE UNCHANGED serverVars
  BY <1>4, Reading, ReadingNext DEF serverVars
<1> QED
  BY <1>1, <1>2, <1>3, <1>4 DEF Next

THEOREM InvariantCorrect == Spec => []IInv
  BY InitHolds, NextHolds, PTL DEF Spec

(* No offset leaves its file, no block number its sixteen bits, and the    *)
(* parameters in use are the defaults or have passed the checksum, after   *)
(* any packets, failing writes and restarts (tftp.c, ffs.c,                *)
(* systemParameters.c), for any table of files.                            *)
THEOREM TypeCorrect == Spec => []TypeOK
<1>1. IInv => TypeOK
  BY DEF IInv
<1> QED
  BY <1>1, InvariantCorrect, PTL

(* The server's file pointer and the file system's offset agree on whether *)
(* a file is open (tftp.c: fp, ffs.c: offset), for any table of files.     *)
THEOREM HandlesCorrect == Spec => []HandlesAgree
<1>1. IInv => HandlesAgree
  BY DEF IInv
<1> QED
  BY <1>1, InvariantCorrect, PTL

-----------------------------------------------------------------------------
(***************************************************************************)
(* The parameters over restarts.  A file that does not hold the parameter  *)
(* block writes other blocks only, and erases a sector only from its first *)
(* block, which the parameter block is of its own sector.                  *)
(***************************************************************************)
LEMMA ParamBlockFacts ==
  /\ ParamFile \in Files /\ ParamBlock \in Blocks
  /\ ParamBlock = fileTable[ParamFile].base /\ ParamBlock \in Nat
  /\ ParamBlock % SectorBlocks = 0
<1>1. ParamFile \in Files /\ fileTable[ParamFile].base \in Nat
  BY NamesAssumption, TableFacts
<1>2. ParamBlock = fileTable[ParamFile].base
  BY <1>1 DEF ParamBlock, BlockOf
<1>3. ParamBlock \in Blocks
  BY <1>1, FirstBlock DEF ParamBlock
<1> QED
  BY <1>1, <1>2, <1>3, AlignedAssumption

LEMMA OtherSector ==
  ASSUME NEW b \in Blocks, b # ParamBlock, b % SectorBlocks = 0
  PROVE  ParamBlock \notin Sector(b)
<1> DEFINE s == SectorBlocks
           c == ParamBlock
<1>1. s \in Nat \ {0} /\ b \in Nat /\ c \in Nat
  BY BlocksAssumption, ParamBlockFacts DEF Blocks
<1>2. b = (s * (b \div s)) + (b % s) /\ c = (s * (c \div s)) + (c % s)
  BY <1>1
<1>3. c % s = 0
  BY ParamBlockFacts
<1>4. b \div s \in Int /\ c \div s \in Int
  BY <1>1
<1> SUFFICES ASSUME c \div s = b \div s PROVE FALSE
  BY DEF Sector
<1> QED
  BY <1>1, <1>2, <1>3, <1>4

(* Neither a write of another block nor one that fails or is cut short     *)
(* changes the parameter block.                                            *)
LEMMA OtherBlock ==
  ASSUME memory \in [Blocks -> Content], NEW f \in Files, NEW b \in Blocks,
         b # ParamBlock, NEW x
  PROVE  /\ [Prepared(f, b) EXCEPT ![b] = x][ParamBlock] = memory[ParamBlock]
         /\ \A m \in Remains(f, b) : m[ParamBlock] = memory[ParamBlock]
<1>1. ~(Erases(f, b) /\ ParamBlock \in Sector(b))
  BY OtherSector DEF Erases
<1>2. ParamBlock \in Blocks
  BY ParamBlockFacts
<1>3. Prepared(f, b)[ParamBlock] = memory[ParamBlock]
  BY <1>1, <1>2 DEF Prepared
<1>4. \A y : [Prepared(f, b) EXCEPT ![b] = y][ParamBlock] = memory[ParamBlock]
  BY <1>2, <1>3 DEF Prepared
<1>5. [c \in Blocks |-> IF Erases(f, b) /\ c \in Sector(b) THEN Torn ELSE memory[c]]
        [ParamBlock] = memory[ParamBlock]
  BY <1>1, <1>2
<1> QED
  BY <1>4, <1>5 DEF Remains

LEMMA OtherFile ==
  ASSUME NEW f \in Files, f \notin Holders,
         NEW off \in 0..fileTable[f].length, off < fileTable[f].length
  PROVE  BlockOf(f, off) \in Blocks /\ BlockOf(f, off) # ParamBlock
<1>1. off \in 0..(fileTable[f].length - 1)
  BY TableFacts
<1> QED
  BY <1>1, BlockOfType DEF Holders

LEMMA OtherWrite ==
  ASSUME memory \in [Blocks -> Content], NEW f \in Files, f \notin Holders,
         NEW off \in 0..fileTable[f].length, NEW size \in Sizes, NEW data \in Values,
         NEW r \in f_write(f, off, data, size)
  PROVE  r.memory[ParamBlock] = memory[ParamBlock]
<1> DEFINE n      == Fitting(f, off, size)
           b      == BlockOf(f, off)
           wanted == IF n = size THEN data ELSE Torn
           got    == Programmed(f, b, wanted)
           whole  == [memory |-> [Prepared(f, b) EXCEPT ![b] = got],
                      n |-> IF got = wanted THEN n ELSE 0, ok |-> got = wanted]
           failed == {[memory |-> m, n |-> 0, ok |-> FALSE] :
                        m \in IF MemoryFails THEN Remains(f, b) ELSE {}}
<1>1. n # 0 => off < fileTable[f].length
  BY FittingBounds
<1>2. CASE n = 0
  BY <1>2 DEF f_write
<1>3. CASE n # 0
  <2>1. b \in Blocks /\ b # ParamBlock
    BY <1>1, <1>3, OtherFile
  <2>2. r = whole \/ r \in failed
    BY <1>3 DEF f_write
  <2>3. \/ r.memory = [Prepared(f, b) EXCEPT ![b] = got]
        \/ r.memory \in Remains(f, b)
    BY <2>2
  <2> HIDE DEF b, got
  <2>4. [Prepared(f, b) EXCEPT ![b] = got][ParamBlock] = memory[ParamBlock]
    BY <2>1, OtherBlock
  <2>5. \A m \in Remains(f, b) : m[ParamBlock] = memory[ParamBlock]
    BY <2>1, OtherBlock
  <2> QED
    BY <2>3, <2>4, <2>5
<1> QED
  BY <1>2, <1>3

StoreInv == IInv /\ StashSurvives

(* A packet writes the memory only as the next data of an open upload.     *)
LEMMA StorePacketStep ==
  ASSUME StoreInv, NEW p \in Requests, StorePacket(p)
  PROVE  StashSurvives'
<1> DEFINE none     == [memory |-> memory, n |-> 0, ok |-> TRUE]
           refused  == [memory |-> memory, n |-> 0, ok |-> FALSE]
           writable == offset # Closed /\ activeMode # FA_READ
           results  == IF p.size = 0 THEN {none}
                       ELSE IF writable THEN f_write(fp, offset, p.data, p.size)
                       ELSE {refused}
<1>0. StashSurvives /\ memory \in [Blocks -> Content] /\ HandleOK(fp, offset)
  BY Reading DEF StoreInv
<1>1. kept' = IF p.op = "data" /\ fp \in Holders THEN Unknown ELSE kept
  BY DEF StorePacket
<1>2. tftpHandler(p)
  BY DEF StorePacket
<1>3. ParamBlock' = ParamBlock
  BY DEF ParamBlock, BlockOf
<1>4. CASE memory' = memory
  BY <1>0, <1>1, <1>3, <1>4 DEF StashSurvives
<1>5. CASE p.op = "data" /\ fp \in Holders
  BY <1>1, <1>5 DEF StashSurvives
<1>6. CASE p.op = "data" /\ fp \notin Holders /\ DataNext(p)
  <2>1. PICK r \in results : memory' = r.memory
    BY <1>6 DEF DataNext
  <2>2. CASE r = none \/ r = refused
    BY <1>4, <2>1, <2>2
  <2>3. CASE r \in f_write(fp, offset, p.data, p.size) /\ offset # Closed
    <3>1. fp \in Files /\ offset \in 0..fileTable[fp].length
      BY <1>0, <2>3 DEF HandleOK
    <3>2. p.data \in Values /\ p.size \in Sizes
      BY <1>6, DataType
    <3>3. memory'[ParamBlock] = memory[ParamBlock]
      BY <1>0, <1>6, <2>1, <2>3, <3>1, <3>2, OtherWrite
    <3> QED
      BY <1>0, <1>1, <1>3, <1>6, <3>3 DEF StashSurvives
  <2> QED
    BY <2>1, <2>2, <2>3
<1>7. \/ memory' = memory
      \/ p.op = "data" /\ DataNext(p)
  BY <1>2 DEF tftpHandler, BadType, Request, DataAgain, DataStray, AckLast, AckOther
<1> QED
  BY <1>4, <1>5, <1>6, <1>7

LEMMA StoreStashStep ==
  ASSUME StoreInv, NEW v \in ParamValues, StoreStash(v)
  PROVE  StashSurvives'
<1>1. ParamBlock' = ParamBlock
  BY DEF ParamBlock, BlockOf
<1>2. CASE offset # Closed
  <2>1. memory' = memory /\ kept' = kept
    BY <1>2 DEF StoreStash, systemParametersStash, f_open
  <2> QED
    BY <1>1, <2>1 DEF StoreInv, StashSurvives
<1>3. CASE offset = Closed
  BY <1>1, <1>3 DEF StoreStash, StashSurvives
<1> QED
  BY <1>2, <1>3

LEMMA StoreRestartStep ==
  ASSUME StoreInv, StoreRestart
  PROVE  StashSurvives'
<1>0. StashSurvives /\ memory \in [Blocks -> Content] /\ HandleOK(fp, offset)
  BY Reading DEF StoreInv
<1>1. ParamBlock' = ParamBlock
  BY DEF ParamBlock, BlockOf
<1>2. kept' = IF memory' # memory /\ fp \in Holders \cup {NULL} THEN Unknown ELSE kept
  BY DEF StoreRestart
<1>3. CASE memory' = memory
  BY <1>0, <1>1, <1>2, <1>3 DEF StashSurvives
<1>4. CASE memory' # memory /\ fp \in Holders \cup {NULL}
  BY <1>2, <1>4 DEF StashSurvives
<1>5. CASE memory' # memory /\ fp \notin Holders \cup {NULL}
  <2>1. fp \in Files /\ offset \in 0..fileTable[fp].length /\ offset # Closed
    BY <1>0, <1>5 DEF HandleOK
  <2>2. offset < fileTable[fp].length /\ memory' \in Remains(fp, BlockOf(fp, offset))
    BY <1>5, <2>1 DEF StoreRestart, Restart, Interrupted
  <2>3. BlockOf(fp, offset) \in Blocks /\ BlockOf(fp, offset) # ParamBlock
    BY <1>5, <2>1, <2>2, OtherFile
  <2>4. memory'[ParamBlock] = memory[ParamBlock]
    BY <1>0, <2>1, <2>2, <2>3, OtherBlock
  <2> QED
    BY <1>0, <1>1, <1>2, <1>5, <2>4 DEF StashSurvives
<1> QED
  BY <1>3, <1>4, <1>5

(* ParameterStore is the file server with a history variable: its type     *)
(* invariant and the agreement of server and file system carry over.       *)
LEMMA StoreImplementsServer == StoreSpec => Spec
<1>1. StoreInit => Init
  BY DEF StoreInit
<1>2. [StoreNext]_storeVars => [Next]_serverVars
  BY DEF StoreNext, StorePacket, StoreStash, StoreRestart, Next, storeVars
<1> QED
  BY <1>1, <1>2, PTL DEF StoreSpec, Spec

(* What was stashed without an error is what a restart will find           *)
(* (systemParameters.c, ffs.c), for any table of files whose parameters    *)
(* begin a sector, any packets, failing writes and restarts.               *)
THEOREM StashCorrect == StoreSpec => []StashSurvives
<1>1. StoreInit => StashSurvives
  BY DEF StoreInit, StashSurvives
<1>2. IInv /\ StashSurvives /\ [StoreNext]_storeVars => StashSurvives'
  <2> SUFFICES ASSUME StoreInv, [StoreNext]_storeVars PROVE StashSurvives'
    BY DEF StoreInv
  <2>1. CASE UNCHANGED storeVars
    BY <2>1 DEF StoreInv, StashSurvives, storeVars, serverVars, ParamBlock, BlockOf
  <2> QED
    BY <2>1, StorePacketStep, StoreStashStep, StoreRestartStep DEF StoreNext
<1> QED
  BY <1>1, <1>2, StoreImplementsServer, InvariantCorrect, PTL DEF StoreSpec

=============================================================================
