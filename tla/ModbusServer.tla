---------------------------- MODULE ModbusServer ----------------------------
(***************************************************************************)
(* modbusServer.c: one request and its reply.  The server's variables are  *)
(* one record srv, with the registers of the application behind it.        *)
(* A request is [nonce, fn, base, count, values, length]: the two numbers  *)
(* and the data that its function takes, and how its length fits them.     *)
(* The application is not in this repository: it takes or refuses a read   *)
(* or a write as a whole.                                                  *)
(***************************************************************************)
EXTENDS Naturals, Sequences

CONSTANTS MAX_REGCOUNT, Registers   \* Registers: how many the application has

ASSUME ModbusAssumption == MAX_REGCOUNT \in Nat \ {0} /\ Registers \in Nat

FC_READ_HOLDING_REGISTERS            == 3
FC_WRITE_SINGLE_HOLDING_REGISTER     == 6
FC_WRITE_MULTIPLE_HOLDING_REGISTERS  == 16
ILLEGAL_FUNCTION == 1
ILLEGAL_ADDRESS  == 2

\* nonce and reply: replyBuf with replyLen, an empty reply being none.
ModbusStart ==
  [nonce |-> 0, reply |-> <<>>, regs |-> [r \in 0..Registers - 1 |-> 0]]

Exist(base, count) == base + count <= Registers

replyError(cmd, errorCode) == <<128 + cmd.fn, errorCode>>
replyEcho4(cmd) ==
  <<cmd.fn, cmd.base, IF cmd.fn = FC_WRITE_SINGLE_HOLDING_REGISTER
                      THEN cmd.values[1] ELSE cmd.count>>
replyData(cmd, regs) ==
  <<cmd.fn, 2 * cmd.count>> \o [k \in 1..cmd.count |-> regs[cmd.base + k - 1]]

Read(srv, cmd) ==
  IF cmd.length # "right" \/ cmd.count \notin 1..MAX_REGCOUNT
  THEN <<>>
  ELSE IF Exist(cmd.base, cmd.count) THEN replyData(cmd, srv.regs)
  ELSE replyError(cmd, ILLEGAL_ADDRESS)

Write(srv, cmd) ==
  IF Exist(cmd.base, Len(cmd.values))
  THEN [regs |-> [r \in DOMAIN srv.regs |->
                    IF r \in cmd.base..cmd.base + Len(cmd.values) - 1
                    THEN cmd.values[r - cmd.base + 1] ELSE srv.regs[r]],
        reply |-> replyEcho4(cmd)]
  ELSE [regs |-> srv.regs, reply |-> replyError(cmd, ILLEGAL_ADDRESS)]

Answered(srv, reply) == [regs |-> srv.regs, reply |-> reply]

Execute(srv, cmd) ==
  CASE cmd.fn = FC_READ_HOLDING_REGISTERS -> Answered(srv, Read(srv, cmd))
    [] cmd.fn = FC_WRITE_SINGLE_HOLDING_REGISTER ->
         IF cmd.length = "right" THEN Write(srv, cmd) ELSE Answered(srv, <<>>)
    [] cmd.fn = FC_WRITE_MULTIPLE_HOLDING_REGISTERS ->
         IF cmd.length = "short" THEN Answered(srv, <<>>)
         ELSE IF cmd.length = "right" /\ cmd.count <= MAX_REGCOUNT
                                      /\ cmd.count = Len(cmd.values)
         THEN Write(srv, cmd)
         ELSE Answered(srv, replyError(cmd, ILLEGAL_ADDRESS))
    [] OTHER -> Answered(srv, replyError(cmd, ILLEGAL_FUNCTION))

IsFrame(cmd) == cmd.length # "frame"

\* A request with the nonce of the last one is taken for its repetition.
IsNew(srv, cmd) == srv.reply = <<>> \/ cmd.nonce # srv.nonce

modbusCallbackOnSuccess(srv, cmd) ==   \* faulty: forgets a refused request
  IF ~IsFrame(cmd) \/ ~IsNew(srv, cmd) THEN srv
  ELSE LET done == Execute(srv, cmd)
       IN  [nonce |-> IF Len(done.reply) = 2 THEN srv.nonce ELSE cmd.nonce,
            reply |-> done.reply, regs |-> done.regs]

modbusCallback(srv, cmd) ==
  IF ~IsFrame(cmd) \/ ~IsNew(srv, cmd) THEN srv
  ELSE LET done == Execute(srv, cmd)
       IN  [nonce |-> cmd.nonce, reply |-> done.reply, regs |-> done.regs]

\* What is sent then.
Reply(srv, cmd) ==
  IF IsFrame(cmd) /\ srv.reply # <<>>
  THEN <<cmd.nonce>> \o srv.reply ELSE <<>>
=============================================================================
