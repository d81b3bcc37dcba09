------------------------------- MODULE Serial --------------------------------
(***************************************************************************)
(* Output on the serial line (arch/x86/kernel/serial.c): the ring between  *)
(* processes that write and the interrupt handler that sends, and the      *)
(* direct way printk takes when it cannot sleep.                           *)
(*                                                                         *)
(* The kernel runs with interrupts off and this models one CPU: a step     *)
(* lasts until a process sleeps, and an interrupt is taken between steps.  *)
(* A byte is the process that writes it and its number (a newline is two   *)
(* of them); NoByte is the empty holding register.  uart_getc has no       *)
(* caller.                                                                 *)
(***************************************************************************)
EXTENDS Integers, Sequences, FiniteSets, SequencesExt

CONSTANTS
  SerialProcs,
  UART_BUF,      \* the ring holds UART_BUF - 1 bytes
  MaxPuts,       \* bytes each process writes
  MaxPrintk      \* bytes printk writes

SerialAssumption == UART_BUF \in Nat \ {0, 1} /\ MaxPuts \in Nat /\ MaxPrintk \in Nat

VARIABLES
  txbuf,     \* the ring, from tx_r to tx_w
  thr,       \* the holding register of the 16550
  thre,      \* IER_THRE: an interrupt when the register is empty
  line,      \* bytes that are out
  sent,      \* how many bytes a process has written
  waiting,   \* processes asleep on uart_tx_chan
  printed    \* how many bytes printk has written

serialVars == <<txbuf, thr, thre, line, sent, waiting, printed>>

NoByte == <<>>
KernelByte == <<"printk">>
tx_full == Len(txbuf) = UART_BUF - 1

\* Variant: the interrupt is not switched on while the register is busy.
StartUnarmed(buf) ==
  IF buf = <<>> \/ thr # NoByte
  THEN txbuf' = buf /\ UNCHANGED <<thr, thre>>
  ELSE txbuf' = Tail(buf) /\ thr' = Head(buf) /\ thre' = (Tail(buf) # <<>>)

\* A ring, the register and the interrupt enable after uart_start
uart_start(buf) ==
  IF buf = <<>> \/ thr # NoByte
  THEN txbuf' = buf /\ thre' = (buf # <<>>) /\ UNCHANGED thr
  ELSE txbuf' = Tail(buf) /\ thr' = Head(buf) /\ thre' = (Tail(buf) # <<>>)

\* The while loop of uart_putc: there is room, or the process sleeps.
PutByte(p) ==
  /\ p \notin waiting /\ sent[p] < MaxPuts /\ ~tx_full
  /\ uart_start(Append(txbuf, <<p, sent[p] + 1>>))
  /\ sent' = [sent EXCEPT ![p] = @ + 1]
  /\ UNCHANGED <<line, waiting, printed>>

SleepFull(p) ==
  /\ p \notin waiting /\ sent[p] < MaxPuts /\ tx_full
  /\ waiting' = waiting \cup {p}
  /\ UNCHANGED <<txbuf, thr, thre, line, sent, printed>>

uart_putc(p) == PutByte(p) \/ SleepFull(p)

\* With a lock held the byte goes past the ring, once the register is empty.
uart_putc_busy ==
  /\ printed < MaxPrintk /\ thr = NoByte
  /\ thr' = KernelByte
  /\ printed' = printed + 1
  /\ UNCHANGED <<txbuf, thre, line, sent, waiting>>

\* IRQ 4: a byte has come in, which is the console's, or the register is empty
\* while IER_THRE is set.
uart_intr(received) ==
  /\ received \/ (thre /\ thr = NoByte)
  /\ IF thr # NoByte \/ txbuf = <<>> THEN UNCHANGED <<txbuf, thr, waiting>>
     ELSE txbuf' = Tail(txbuf) /\ thr' = Head(txbuf) /\ waiting' = {}
  /\ thre' = (thre /\ txbuf' # <<>>)
  /\ UNCHANGED <<line, sent, printed>>

\* The device sends what is in the register.
Shift ==
  /\ thr # NoByte
  /\ line' = Append(line, thr)
  /\ thr' = NoByte
  /\ UNCHANGED <<txbuf, thre, sent, waiting, printed>>

\* serial_init leaves only the receiver's interrupt on.
SerialInit ==
  /\ txbuf = <<>> /\ thr = NoByte /\ thre = FALSE /\ line = <<>>
  /\ sent = [p \in SerialProcs |-> 0]
  /\ waiting = {}
  /\ printed = 0

SerialNext ==
  \/ \E p \in SerialProcs : uart_putc(p)
  \/ uart_putc_busy \/ Shift
  \/ \E received \in BOOLEAN : uart_intr(received)

SerialSpec == SerialInit /\ [][SerialNext]_serialVars

----------------------------------------------------------------------------
\* uart_start and uart_intr: a ring with something in it has its interrupt on, and who sleeps does so
\* because it is full: no wake-up is missed, whoever takes bytes out of it and
\* whatever printk puts in between.
TransmitterArmed ==
  /\ txbuf # <<>> => thre
  /\ waiting # {} => tx_full

\* uart_putc and uart_intr: the bytes of a process come out in the order it wrote them, none lost or twice.
SerialOrder ==
  LET out == line \o (IF thr = NoByte THEN <<>> ELSE <<thr>>) \o txbuf
  IN \A p \in SerialProcs :
       SelectSeq(out, LAMBDA b : b[1] = p) = [k \in 1 .. sent[p] |-> <<p, k>>]
=============================================================================
