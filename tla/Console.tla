------------------------------ MODULE Console -------------------------------
(***************************************************************************)
(* The console of the xv6 kernel: kernel/console.c and the UART driver     *)
(* kernel/uart.c, with processes that read and write, the interrupt        *)
(* handler, the user and the UART as actors.                               *)
(*                                                                         *)
(* cons.lock is held by consoleread() over its loop, until it sleeps or    *)
(* returns, and by consoleintr() for one step.  uart_tx_lock protects      *)
(* short sections: each is one step.  The PLIC lets one hart at a time     *)
(* handle the UART.  A copy from or to user memory may fail.  Keys that    *)
(* change no state (control-P, NUL) are left out, as is panicked.          *)
(*                                                                         *)
(* cons.r, cons.w and cons.e are unsigned and wrap: they count modulo      *)
(* IdxMod, a multiple of the size of the buffer, as 2^32 is.  Of the       *)
(* output only its amount is kept: tx is uart_tx_w - uart_tx_r.            *)
(***************************************************************************)
EXTENDS Integers, Sequences

CONSTANTS
    Readers,          \* processes in read()
    Writers,          \* processes in write()
    Nobody,           \* holder of cons.lock when it is free
    Chars,            \* characters other than control characters
    INPUT_BUF_SIZE,   \* console.c
    IdxMod,           \* the indices of cons count modulo this
    UART_TX_BUF_SIZE, \* uart.c
    Counts,           \* the n of read(), greater than 0
    WriteLen          \* the n of write(), greater than 0

ASSUME ConsoleAssumption ==
    /\ INPUT_BUF_SIZE \in Nat \ {0} /\ UART_TX_BUF_SIZE \in Nat /\ IdxMod \in Nat
    /\ IdxMod % INPUT_BUF_SIZE = 0 /\ IdxMod > INPUT_BUF_SIZE

Ends == {"newline", "eof"}
Keys == Chars \cup Ends \cup {"erase", "eraseLine"}
NoKey == "none"
Add(i, d) == (i + d) % IdxMod

VARIABLES
    buf, r, w, e,     \* cons
    conslock,         \* the reader that holds cons.lock
    rpc, n, target,   \* consoleread()
    wpc, wleft,       \* consolewrite(): left is n - i
    tx,               \* characters in uart_tx_buf
    thr,              \* the transmit register is full
    rx,               \* the receive register
    irq,              \* the UART asserts its interrupt
    handler           \* where uartintr() is

inVars == <<buf, r, w, e>>
readVars == <<conslock, rpc, n, target>>
writeVars == <<wpc, wleft>>
uartVars == <<thr, rx, irq, handler>>
consoleVars == <<inVars, readVars, writeVars, tx, uartVars>>

ConsoleInit ==
    /\ buf = [i \in 0..(INPUT_BUF_SIZE - 1) |-> NoKey]
    /\ r = 0 /\ w = 0 /\ e = 0
    /\ conslock = Nobody
    /\ rpc = [p \in Readers |-> "idle"]
    /\ n = [p \in Readers |-> 0] /\ target = [p \in Readers |-> 0]
    /\ wpc = [p \in Writers |-> "idle"] /\ wleft = [p \in Writers |-> 0]
    /\ tx = 0 /\ thr = FALSE /\ rx = NoKey
    /\ irq = FALSE /\ handler = "out"

-----------------------------------------------------------------------------
(* consoleread() *)

Read(p, k) ==
    /\ rpc[p] = "idle" /\ conslock = Nobody
    /\ n' = [n EXCEPT ![p] = k] /\ target' = [target EXCEPT ![p] = k]
    /\ conslock' = p /\ rpc' = [rpc EXCEPT ![p] = "loop"]
    /\ UNCHANGED <<inVars, writeVars, tx, uartVars>>

\* sleep() returns with cons.lock.
ReadWoken(p) ==
    /\ rpc[p] = "woken" /\ conslock = Nobody
    /\ conslock' = p /\ rpc' = [rpc EXCEPT ![p] = "loop"]
    /\ UNCHANGED <<inVars, n, target, writeVars, tx, uartVars>>

\* release(&cons.lock) and return
ReadReturn(p) ==
    /\ conslock' = Nobody /\ rpc' = [rpc EXCEPT ![p] = "idle"]
    /\ n' = [n EXCEPT ![p] = 0] /\ target' = [target EXCEPT ![p] = 0]

\* cons.r == cons.w: sleep, or return -1 when killed.
ReadWait(p) ==
    /\ rpc[p] = "loop" /\ r = w
    /\ \/ /\ conslock' = Nobody /\ rpc' = [rpc EXCEPT ![p] = "asleep"]
          /\ UNCHANGED <<n, target>>
       \/ ReadReturn(p)
    /\ UNCHANGED <<inVars, writeVars, tx, uartVars>>

\* The character at cons.r.
FirstKey == buf[r % INPUT_BUF_SIZE]

\* One turn of the loop.  An end of file that comes after other characters
\* is left for the next read.  The second alternative is a copy that fails.
ReadChar(p) ==
    /\ rpc[p] = "loop" /\ r # w
    /\ r' = IF FirstKey = "eof" /\ n[p] < target[p] THEN r ELSE Add(r, 1)
    /\ \/ (FirstKey \in Chars => n[p] = 1) /\ ReadReturn(p)
       \/ FirstKey # "eof" /\ ReadReturn(p)
       \/ /\ FirstKey \in Chars /\ n[p] > 1
          /\ n' = [n EXCEPT ![p] = @ - 1] /\ UNCHANGED <<conslock, rpc, target>>
    /\ UNCHANGED <<buf, w, e, writeVars, tx, uartVars>>

\* kill() makes a sleeping process RUNNABLE.
KillReader(p) ==
    /\ rpc[p] = "asleep"
    /\ rpc' = [rpc EXCEPT ![p] = "woken"]
    /\ UNCHANGED <<inVars, conslock, n, target, writeVars, tx, uartVars>>
KillWriter(p) ==
    /\ wpc[p] = "asleep"
    /\ wpc' = [wpc EXCEPT ![p] = "woken"]
    /\ UNCHANGED <<inVars, readVars, wleft, tx, uartVars>>

-----------------------------------------------------------------------------
(* consoleintr(), called by uartintr() for each character *)

Held == (e - r) % IdxMod     \* cons.e - cons.r

\* consputc() of what is shown for c waits for the transmit register.
Echo == ~thr /\ thr' = TRUE

\* wakeup(&cons.r)
WakeConsole ==
    rpc' = [p \in Readers |-> IF rpc[p] = "asleep" THEN "woken" ELSE rpc[p]]

\* Mutant: a character is taken although the buffer is full.
StoreNoLimit(c) ==
    /\ Echo
    /\ buf' = [buf EXCEPT ![e % INPUT_BUF_SIZE] = c]
    /\ e' = Add(e, 1)
    /\ IF c \in Ends \/ Held + 1 >= INPUT_BUF_SIZE
       THEN w' = Add(e, 1) /\ WakeConsole
       ELSE UNCHANGED <<w, rpc>>

\* The default case: store c, and give the line to the readers when it is
\* complete or the buffer is full.
Store(c) ==
    IF Held < INPUT_BUF_SIZE
    THEN /\ Echo
         /\ buf' = [buf EXCEPT ![e % INPUT_BUF_SIZE] = c]
         /\ e' = Add(e, 1)
         /\ IF c \in Ends \/ Held + 1 = INPUT_BUF_SIZE
            THEN w' = Add(e, 1) /\ WakeConsole
            ELSE UNCHANGED <<w, rpc>>
    ELSE UNCHANGED <<buf, w, e, rpc, thr>>

\* Backspace, or kill line: the line being typed holds no newline.
EraseTo(i) ==
    IF e # w THEN Echo /\ e' = i /\ UNCHANGED <<buf, w, rpc>>
             ELSE UNCHANGED <<buf, w, e, rpc, thr>>

ConsoleIntr ==
    /\ handler = "rx" /\ rx # NoKey /\ conslock = Nobody
    /\ CASE rx = "erase" -> EraseTo(Add(e, -1))
         [] rx = "eraseLine" -> EraseTo(w)
         [] OTHER -> Store(rx)
    /\ rx' = NoKey
    /\ UNCHANGED <<r, conslock, n, target, writeVars, tx, irq, handler>>

-----------------------------------------------------------------------------
(* uart.c and consolewrite() *)

\* uartstart() with k characters in the buffer: the register takes one when
\* it is empty, and a writer that sleeps is woken.
UartStart(k, at) ==
    IF k > 0 /\ ~thr
    THEN /\ tx' = k - 1 /\ thr' = TRUE
         /\ wpc' = [q \in Writers |-> IF at[q] = "asleep" THEN "woken" ELSE at[q]]
    ELSE tx' = k /\ wpc' = at /\ UNCHANGED thr

Write(p) ==
    /\ wpc[p] = "idle"
    /\ wpc' = [wpc EXCEPT ![p] = "put"]
    /\ wleft' = [wleft EXCEPT ![p] = WriteLen]
    /\ UNCHANGED <<inVars, readVars, tx, uartVars>>

\* either_copyin() fails in consolewrite().
WriteFault(p) ==
    /\ wpc[p] = "put"
    /\ wpc' = [wpc EXCEPT ![p] = "idle"] /\ wleft' = [wleft EXCEPT ![p] = 0]
    /\ UNCHANGED <<inVars, readVars, tx, uartVars>>

\* uartputc(), until it sleeps or returns to the loop of consolewrite().
Uartputc(p) ==
    /\ wpc[p] \in {"put", "woken"}
    /\ IF tx = UART_TX_BUF_SIZE
       THEN wpc' = [wpc EXCEPT ![p] = "asleep"] /\ UNCHANGED <<tx, thr, wleft>>
       ELSE /\ UartStart(tx + 1,
                         [wpc EXCEPT ![p] = IF wleft[p] = 1 THEN "idle" ELSE "put"])
            /\ wleft' = [wleft EXCEPT ![p] = @ - 1]
    /\ UNCHANGED <<inVars, readVars, rx, irq, handler>>

\* uartintr()
IntrEnter ==
    /\ irq /\ handler = "out"
    /\ irq' = FALSE /\ handler' = "rx"
    /\ UNCHANGED <<inVars, readVars, writeVars, tx, thr, rx>>

\* Mutant: only the receive side is served.
IntrSendSkipped ==
    /\ handler = "rx" /\ rx = NoKey
    /\ handler' = "out"
    /\ UNCHANGED <<inVars, readVars, writeVars, tx, thr, rx, irq>>

\* uartgetc() finds nothing: send buffered characters and return.
IntrSend ==
    /\ handler = "rx" /\ rx = NoKey
    /\ UartStart(tx, wpc)
    /\ handler' = "out"
    /\ UNCHANGED <<inVars, readVars, wleft, rx, irq>>

-----------------------------------------------------------------------------
(* The user and the UART *)

Type(c) ==
    /\ rx = NoKey
    /\ rx' = c /\ irq' = TRUE
    /\ UNCHANGED <<inVars, readVars, writeVars, tx, thr, handler>>

\* The character has been sent: the register is empty.
Sent ==
    /\ thr
    /\ thr' = FALSE /\ irq' = TRUE
    /\ UNCHANGED <<inVars, readVars, writeVars, tx, rx, handler>>

-----------------------------------------------------------------------------
ConsoleNext ==
    \/ \E p \in Readers :
          \/ ReadWoken(p) \/ ReadWait(p) \/ ReadChar(p) \/ KillReader(p)
          \/ \E k \in Counts : Read(p, k)
    \/ \E p \in Writers : Write(p) \/ WriteFault(p) \/ Uartputc(p) \/ KillWriter(p)
    \/ IntrEnter \/ ConsoleIntr \/ IntrSend
    \/ Sent \/ \E c \in Keys : Type(c)

ConsoleSpec == ConsoleInit /\ [][ConsoleNext]_consoleVars

-----------------------------------------------------------------------------
(* Properties *)

\* Type invariant.
ConsoleTypeOK ==
    /\ r \in 0..(IdxMod - 1) /\ w \in 0..(IdxMod - 1) /\ e \in 0..(IdxMod - 1)
    /\ conslock \in Readers \cup {Nobody}
    /\ rpc \in [Readers -> {"idle", "loop", "asleep", "woken"}]
    /\ wpc \in [Writers -> {"idle", "put", "asleep", "woken"}]
    /\ tx \in 0..UART_TX_BUF_SIZE

\* The characters from index i up to index j.
Slice(i, j) ==
    [k \in 1..((j - i) % IdxMod) |-> buf[Add(i, k - 1) % INPUT_BUF_SIZE]]

\* The input buffer is a LineQueue: what was typed and not erased is read
\* once and in order, also when the indices wrap and the buffer is full.
Queue == INSTANCE LineQueue
             WITH Size <- INPUT_BUF_SIZE, ready <- Slice(r, w), edit <- Slice(w, e)
InputIsQueue == Queue!Spec

\* Nobody sleeps for ever: a reader sleeps only while there is no complete
\* line, a writer only while the output buffer is full, and buffered output
\* waits only for the register or for an interrupt that is on its way.
ConsoleSleepers ==
    /\ conslock = Nobody => \A p \in Readers : rpc[p] = "asleep" => r = w
    /\ \A p \in Writers : wpc[p] = "asleep" => tx = UART_TX_BUF_SIZE
    /\ tx > 0 => thr \/ irq \/ handler # "out"
=============================================================================
