----------------------------- MODULE UciDevice ------------------------------
(* The Ultimate's command interface as src/net/uci uses it: the registers   *)
(* at $DF1B-$DF1F and the firmware task behind them. The C64 writes a       *)
(* command in parts, pushes it, waits for the reply, and accepts the reply; *)
(* or it aborts, which sets a bit that only the task's own reset clears.    *)
(* The task takes commands and aborts in the order they were queued, one    *)
(* at a time: an abort waits behind a command it is busy with.              *)
EXTENDS Naturals, Sequences

NoReply == [op |-> "none", kind |-> "empty", val |-> <<>>]

\* mine is no register: does the command in the interface belong to the call in progress?
Quiet == [state |-> "idle", busy |-> FALSE, abort |-> FALSE, error |-> FALSE,
          buf |-> <<>>, queue |-> <<>>, exec |-> <<>>, reply |-> NoReply, mine |-> FALSE]

----------------------------------------------------------------------------
(* What the C64 reads in $DF1C.                                            *)

\* STATE "00", CMD_BUSY and ABORT_PENDING clear: the mask $35.
FullyIdle(d) == d.state = "idle" /\ ~d.busy /\ ~d.abort
NotBusy(d) == ~d.busy
\* STATE bit 5 or ERROR: the mask $28.
Answered(d) == d.state = "valid" \/ d.error
\* Both queues read empty while an abort is pending.
Staged(d) == IF d.state = "valid" /\ ~d.abort THEN d.reply ELSE NoReply

----------------------------------------------------------------------------
(* What the C64 writes.                                                    *)

\* Command bytes go where the pointer stands; a rejected push does not rewind it.
Write(d, cmd, part) == [d EXCEPT !.buf = Append(@, [cmd |-> cmd, part |-> part])]

ClearError(d) == [d EXCEPT !.error = FALSE]

PushCommand(d) ==
    IF d.state = "idle"
    THEN [d EXCEPT !.state = "busy", !.busy = TRUE, !.queue = Append(@, "command"), !.mine = TRUE]
    ELSE [d EXCEPT !.error = TRUE]

\* DATA_ACC does nothing unless a reply is valid.
DataAccept(d) ==
    IF d.state = "valid" THEN [d EXCEPT !.state = "idle", !.reply = NoReply, !.mine = FALSE] ELSE d

\* The abort is queued once, until it is served.
Abort(d) == IF d.abort THEN d ELSE [d EXCEPT !.abort = TRUE, !.queue = Append(@, "abort")]

\* The call gives up on its command; the interface does not notice.
Disown(d) == [d EXCEPT !.mine = FALSE]

----------------------------------------------------------------------------
(* The firmware task.                                                      *)

TaskFree(d) == d.exec = <<>> /\ d.queue # <<>>

\* The command a buffer holds: the first one written, if it is there whole.
Parsed(buf) ==
    IF Len(buf) >= 2 /\ buf[1].part = 1 /\ buf[2] = [buf[1] EXCEPT !.part = 2]
    THEN buf[1].cmd
    ELSE [op |-> "null", id |-> 0, arg |-> 0, from |-> 0]

\* ACCEPT_COMMAND: CMD_BUSY clears and the pointer is rewound before the command runs.
TakeCommand(d) ==
    [d EXCEPT !.queue = Tail(@), !.busy = FALSE, !.buf = <<>>, !.exec = <<Parsed(d.buf)>>]

\* VALIDATE: the reply is staged, the state becomes "10".
Validate(d, kind, val) ==
    [d EXCEPT !.exec = <<>>, !.state = "valid",
              !.reply = [op |-> d.exec[1].op, kind |-> kind, val |-> val]]

\* HANDSHAKE_RESET: one write.
Reset(d) ==
    [d EXCEPT !.queue = Tail(@), !.abort = FALSE, !.busy = FALSE, !.state = "idle",
              !.buf = <<>>, !.reply = NoReply]
=============================================================================
