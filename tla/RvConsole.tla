------------------------------ MODULE RvConsole ------------------------------
(***************************************************************************)
(* The console of the RISC-V kernel: console.c and uart.c.                 *)
(*                                                                         *)
(* cons.lock is a variable because consolewrite keeps it over many calls   *)
(* of uartputc; a section under uart_tx_lock is one step.  The UART is     *)
(* external: a transmitter that is idle or busy and raises an interrupt    *)
(* when it is idle, and a receiver with at most one byte.                  *)
(* An output byte is only counted; an input byte has its number and kind.  *)
(***************************************************************************)
EXTENDS Integers, Sequences

CONSTANTS
  ConProcs,
  INPUT_BUF, UART_TX_BUF_SIZE,
  MaxKeys,        \* bound: bytes that arrive
  MaxConsole      \* bound: bytes of one read or write call

RvConsoleAssumption ==
  {INPUT_BUF, UART_TX_BUF_SIZE, MaxKeys, MaxConsole} \subseteq Nat \ {0}

VARIABLES
  cons,      \* lock, r, w, e, buf
  uart,      \* idle, rx (the byte received, or none), tx: bytes in uart_tx_buf
  conp,      \* per process: the call it is in
  typed,     \* the number of bytes that have arrived
  line,      \* history: the bytes consoleread has yet to deliver, and the line
             \* under edit
  schedpanic \* "sched locks": a process went to sleep holding cons.lock

rvConsoleVars == <<cons, uart, conp, typed, line, schedpanic>>

Kinds == {"char", "newline", "eof", "kill", "erase"}
NoKey == [n |-> 0, kind |-> "none"]
NotIn == [op |-> "none", n |-> 0, target |-> 0, asleep |-> FALSE]
NoHolder == "no process"

Slot(i) == i % INPUT_BUF
Buffered(from, to) == [i \in 1 .. to - from |-> cons.buf[Slot(from + i - 1)]]

----------------------------------------------------------------------------
(* input *)

\* A byte reaches the receiver.
Receive ==
  /\ uart.rx = NoKey /\ typed < MaxKeys
  /\ \E k \in Kinds : uart' = [uart EXCEPT !.rx = [n |-> typed + 1, kind |-> k]]
  /\ typed' = typed + 1
  /\ UNCHANGED <<cons, conp, line, schedpanic>>

\* ^U takes back the line up to cons.w or the newline before it.
KillLine == CHOOSE e \in cons.w .. cons.e :
              /\ \A i \in e .. cons.e - 1 : cons.buf[Slot(i)].kind # "newline"
              /\ e = cons.w \/ cons.buf[Slot(e - 1)].kind = "newline"

\* The test of the default case, and as it would be off by one.
HasRoomWide == cons.e - cons.r <= INPUT_BUF
HasRoom == cons.e - cons.r < INPUT_BUF

\* consoleintr for the byte c: every case of its switch.
Stored(c) == [cons EXCEPT !.buf[Slot(cons.e)] = c, !.e = @ + 1]
Ends(c) == c.kind \in {"newline", "eof"} \/ cons.e + 1 = cons.r + INPUT_BUF

consoleintr(c) ==
  \/ /\ c.kind = "kill"
     /\ cons' = [cons EXCEPT !.e = KillLine]
     /\ line' = [line EXCEPT !.edit = SubSeq(@, 1, KillLine - cons.w)]
     /\ UNCHANGED conp
  \/ /\ c.kind = "erase"
     /\ IF cons.e # cons.w
        THEN /\ cons' = [cons EXCEPT !.e = @ - 1]
             /\ line' = [line EXCEPT !.edit = SubSeq(@, 1, Len(@) - 1)]
        ELSE UNCHANGED <<cons, line>>
     /\ UNCHANGED conp
  \/ /\ c.kind \in {"char", "newline", "eof"} /\ HasRoom
     /\ IF Ends(c)
        THEN /\ cons' = [Stored(c) EXCEPT !.w = cons.e + 1]
             /\ line' = [todo |-> line.todo \o Append(line.edit, c), edit |-> <<>>]
             /\ conp' = [p \in ConProcs |-> [conp[p] EXCEPT
                           !.asleep = @ /\ conp[p].op # "read"]]
        ELSE /\ cons' = Stored(c)
             /\ line' = [line EXCEPT !.edit = Append(@, c)]
             /\ UNCHANGED conp
  \/ /\ c.kind \in {"char", "newline", "eof"} /\ ~HasRoom
     /\ UNCHANGED <<cons, line, conp>>

\* uartstart: sends while the transmitter is idle, and wakes uartputc.  After
\* one byte the transmitter is busy.
uartstart(u) == IF u.tx > 0 /\ u.idle THEN [u EXCEPT !.tx = @ - 1, !.idle = FALSE] ELSE u

\* The echo waits for the transmitter by itself; it is busy then, or done again.
uartputc_sync(u) == {[u EXCEPT !.idle = idle] : idle \in BOOLEAN}
consputc(u) == IF cons'.e # cons.e THEN uartputc_sync(u) ELSE {u}

\* uartintr with a byte received: consoleintr, which needs cons.lock and echoes
\* whatever changes the line.  Then uartstart, under uart_tx_lock.
UartReceives ==
  /\ uart.rx # NoKey /\ cons.lock = NoHolder
  /\ consoleintr(uart.rx)
  /\ \E u \in consputc([uart EXCEPT !.rx = NoKey]) : uart' = uartstart(u)
  /\ UNCHANGED <<typed, schedpanic>>

\* uartintr without one: only uartstart.
UartSends ==
  /\ uart.rx = NoKey /\ uart.idle /\ uart.tx > 0
  /\ uart' = uartstart(uart)
  /\ UNCHANGED <<cons, conp, typed, line, schedpanic>>

\* The byte in the transmitter has been sent.
TransmitDone ==
  /\ ~uart.idle
  /\ uart' = [uart EXCEPT !.idle = TRUE]
  /\ UNCHANGED <<cons, conp, typed, line, schedpanic>>

----------------------------------------------------------------------------
(* system calls *)

\* consoleread and consolewrite: acquire(&cons.lock); a reader that was woken
\* takes it again in sleep.  A call that meets a bad address of the user does
\* what a shorter one does.
StartCons(p, op, n) ==
  /\ conp[p].op = "none" /\ cons.lock = NoHolder
  /\ conp' = [conp EXCEPT ![p] = [op |-> op, n |-> n, target |-> n, asleep |-> FALSE]]
  /\ cons' = [cons EXCEPT !.lock = p]
  /\ UNCHANGED <<uart, typed, line, schedpanic>>

ReadAgain(p) ==
  /\ conp[p].op = "read" /\ ~conp[p].asleep /\ cons.lock = NoHolder
  /\ cons' = [cons EXCEPT !.lock = p]
  /\ UNCHANGED <<uart, conp, typed, line, schedpanic>>

\* One turn of the loop of consoleread: sleep at an empty buffer, return if
\* the process is killed there, or take one byte.  End of file is put back
\* when something was read before it.
ReadTurn(p) ==
  /\ conp[p].op = "read" /\ cons.lock = p
  /\ IF cons.r = cons.w
     THEN /\ \/ conp' = [conp EXCEPT ![p].asleep = TRUE]
             \/ conp' = [conp EXCEPT ![p] = NotIn]
          /\ cons' = [cons EXCEPT !.lock = NoHolder]
          /\ UNCHANGED line
     ELSE LET c == cons.buf[Slot(cons.r)]
              kept == c.kind = "eof" /\ conp[p].n < conp[p].target
              over == c.kind \in {"eof", "newline"} \/ conp[p].n = 1
          IN  /\ cons' = [cons EXCEPT !.r = IF kept THEN @ ELSE @ + 1,
                                      !.lock = IF over THEN NoHolder ELSE @]
              /\ line' = IF kept THEN line ELSE [line EXCEPT !.todo = Tail(@)]
              /\ conp' = [conp EXCEPT ![p] = IF over THEN NotIn ELSE [@ EXCEPT !.n = @ - 1]]
  /\ UNCHANGED <<uart, typed, schedpanic>>

\* kill of a reader that sleeps: it runs, finds the buffer empty or not, and
\* may then leave.
KillSleeper(p) ==
  /\ conp[p].asleep
  /\ conp' = [conp EXCEPT ![p].asleep = FALSE]
  /\ UNCHANGED <<cons, uart, typed, line, schedpanic>>

TxFull == uart.tx = UART_TX_BUF_SIZE - 1

\* One turn of the loop of consolewrite.  uartputc at a full buffer calls sleep
\* with uart_tx_lock, but the process also holds cons.lock: sched panics.
WriteTurn(p) ==
  /\ conp[p].op = "write" /\ cons.lock = p
  /\ IF TxFull
     THEN schedpanic' = TRUE /\ UNCHANGED <<cons, uart, conp>>
     ELSE /\ uart' = uartstart([uart EXCEPT !.tx = @ + 1])
          /\ conp' = [conp EXCEPT ![p] = IF @.n = 1 THEN NotIn ELSE [@ EXCEPT !.n = @ - 1]]
          /\ cons' = [cons EXCEPT !.lock = IF conp[p].n = 1 THEN NoHolder ELSE @]
          /\ UNCHANGED schedpanic
  /\ UNCHANGED <<typed, line>>

RvConsoleInit ==
  /\ cons = [lock |-> NoHolder, r |-> 0, w |-> 0, e |-> 0,
             buf |-> [i \in 0 .. INPUT_BUF - 1 |-> NoKey]]
  /\ uart = [idle |-> TRUE, rx |-> NoKey, tx |-> 0]
  /\ conp = [p \in ConProcs |-> NotIn]
  /\ typed = 0 /\ line = [todo |-> <<>>, edit |-> <<>>] /\ schedpanic = FALSE

RvConsoleNext ==
  /\ ~schedpanic
  /\ \/ Receive \/ UartReceives \/ UartSends \/ TransmitDone
     \/ \E p \in ConProcs :
          \/ \E op \in {"read", "write"}, n \in 1 .. MaxConsole : StartCons(p, op, n)
          \/ ReadAgain(p) \/ ReadTurn(p) \/ KillSleeper(p) \/ WriteTurn(p)

RvConsoleSpec == RvConsoleInit /\ [][RvConsoleNext]_rvConsoleVars

----------------------------------------------------------------------------
\* The ring holds exactly the lines typed and not yet read, in the order they
\* were typed and as they were edited, then the line being edited: no byte is
\* overwritten before it is read, nor delivered twice, and erasing never
\* reaches a line that was already given to readers; a reader sleeps only
\* while there is nothing to deliver (console.c consoleintr, consoleread).
RvConsoleOrder ==
  /\ Buffered(cons.r, cons.w) = line.todo
  /\ Buffered(cons.w, cons.e) = line.edit
  /\ \A p \in ConProcs : conp[p].asleep => cons.r = cons.w
=============================================================================
