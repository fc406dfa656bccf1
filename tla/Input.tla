-------------------------------- MODULE Input --------------------------------
(***************************************************************************)
(* The keyboard and the mouse: do_kb of kb.c and do_mouse of mouse.c, with *)
(* the two devices, the controller both hang on (one byte of output buffer *)
(* for two sources), the interrupt controller, and the end of              *)
(* mouse_install, which polls that same byte with interrupts disabled.     *)
(*                                                                         *)
(* The devices act at any time, also inside a handler.  The module begins  *)
(* where mouse_install has set the command byte of the controller.  Both   *)
(* handlers echo what they get with print_c.                               *)
(***************************************************************************)
EXTENDS Console, FiniteSets, Sequences

CONSTANTS Keys,       \* the keys
          Modifier,   \* those of them that are shift, ctrl or alt
          key_map,    \* what the others print, plain and with shift
          MaxKeys,    \* bound: how often keys go down or up
          MaxMoves,   \* bound: how many packets the mouse sends
          MaxQueue    \* bound: the bytes a device holds back

ASSUME InputAssumption ==
  /\ "shift" \in Modifier /\ Modifier \subseteq Keys
  /\ \A k \in Keys \ Modifier : \A i \in 1..2 :
       key_map[k][i] \in Chars \union {"return", "newline", "tab", "back"}
  /\ {"0", "1", "2"} \subseteq Chars
  /\ MaxKeys \in Nat /\ MaxMoves \in Nat /\ MaxQueue \in Nat

VARIABLES down,        \* the keys that are held
          kbq, mq,     \* the bytes in the keyboard and in the mouse
          full, data,  \* the output buffer of the controller
          irr,         \* the interrupts that are requested
          in_service,  \* those not yet acknowledged
          boot,        \* how far init() is
          isr,         \* the handler that runs
          pressed,     \* shf_p, ctl_p and alt_p
          mousecount, mouse_byte, mousemoves,
          keys, moves, \* how much of the bounds is used
          slip         \* history: "byte" if a byte went to one it was not meant
                       \* for, "repeat" if a held modifier has sent its code again

hardware == <<down, kbq, mq, full, data, irr, in_service, keys, moves>>
kbvars == <<pressed>>
mousevars == <<mousecount, mouse_byte, mousemoves>>
vars == <<hardware, kbvars, mousevars, console, boot, isr, slip>>

ACK == [from |-> "mouse", what |-> 0]   \* a byte of the mouse that is in no packet
Scan(k, make) == [from |-> "kb", what |-> <<k, make>>]
Part(i) == [from |-> "mouse", what |-> i]

----------------------------------------------------------------------------
(* The devices *)

\* A key goes down or comes up; one that is held may send its make code again.
Strike(k, make) ==
  /\ keys < MaxKeys /\ Len(kbq) < MaxQueue
  /\ make \/ k \in down
  /\ down' = IF make THEN down \union {k} ELSE down \ {k}
  /\ kbq' = Append(kbq, Scan(k, make))
  /\ keys' = keys + 1
  /\ slip' = IF make /\ k \in down /\ k \in Modifier THEN slip \union {"repeat"} ELSE slip
  /\ UNCHANGED <<mq, full, data, irr, in_service, moves, kbvars, mousevars, console, boot, isr>>

\* The mouse reports once it was told to (F4), packets of three bytes.
Move ==
  /\ boot \in {"ack F4", "unmask", "up"}
  /\ moves < MaxMoves /\ Len(mq) < MaxQueue
  /\ mq' = mq \o <<Part(1), Part(2), Part(3)>>
  /\ moves' = moves + 1
  /\ UNCHANGED <<down, kbq, full, data, irr, in_service, keys, kbvars, mousevars, console, boot, isr, slip>>

\* The controller takes the next byte of a device and raises its interrupt.
Fill ==
  /\ ~full
  /\ \/ kbq # <<>> /\ data' = Head(kbq) /\ kbq' = Tail(kbq) /\ mq' = mq
     \/ mq # <<>> /\ data' = Head(mq) /\ mq' = Tail(mq) /\ kbq' = kbq
  /\ full' = TRUE
  /\ irr' = irr \union {data'.from}
  /\ UNCHANGED <<down, in_service, keys, moves, kbvars, mousevars, console, boot, isr, slip>>

\* inb(0x60): an empty buffer gives the last byte once more.
Inb(meant) ==
  /\ full' = FALSE
  /\ slip' = IF meant /\ full THEN slip ELSE slip \union {"byte"}
  /\ UNCHANGED <<down, kbq, mq, data, keys, moves>>

----------------------------------------------------------------------------
(* mouse_install and the end of init(), with interrupts disabled *)

\* mouse_write(0xF6), mouse_write(0xF4): the mouse answers in its own time.
MouseWrite ==
  /\ boot \in {"F6", "F4"}
  /\ mq' = Append(mq, ACK)
  /\ boot' = IF boot = "F6" THEN "ack F6" ELSE "ack F4"
  /\ UNCHANGED <<down, kbq, full, data, irr, in_service, keys, moves, kbvars, mousevars, console, isr, slip>>

\* mouse_read: mouse_wait(0) gives up after a while, and inb() reads whatever
\* is there.  That lowers the interrupt line of the byte's device; whether
\* the interrupt controller forgets the request then depends on its make.
MouseRead ==
  /\ boot \in {"ack F6", "ack F4"}
  /\ Inb(data = ACK)
  /\ irr' = irr \/ (full /\ irr' = irr \ {data.from})
  /\ boot' = IF boot = "ack F6" THEN "F4" ELSE "unmask"
  /\ UNCHANGED <<in_service, kbvars, mousevars, console, isr>>

\* The masks of both interrupt controllers, then sti().
Sti ==
  /\ boot = "unmask"
  /\ boot' = "up"
  /\ UNCHANGED <<hardware, kbvars, mousevars, console, isr, slip>>

----------------------------------------------------------------------------
(* The handlers, which run with interrupts disabled *)

\* The keyboard has the higher priority.
Deliver(i) ==
  /\ boot = "up" /\ isr = "none"
  /\ i \in irr /\ in_service = {}
  /\ i = "mouse" => "kb" \notin irr
  /\ irr' = irr \ {i}
  /\ in_service' = {i}
  /\ isr' = i
  /\ UNCHANGED <<down, kbq, mq, full, data, keys, moves, kbvars, mousevars, console, boot, slip>>

\* Mutant: the handler forgets its outb(0x20, 0x20).
Acknowledged_mutant(i) == in_service

\* outb(0x20, 0x20), and outb(0x20, 0xA0) for the mouse.
Acknowledged(i) == in_service \ {i}

Finish(i) == isr' = "none" /\ in_service' = Acknowledged(i)

\* Mutant: only the make code of a modifier counts.
Toggled_mutant(k, make) == IF make THEN 1 - pressed[k] ELSE pressed[k]

\* ctl, alt and shf: at the make code and at the break code.
Toggled(k, make) == 1 - pressed[k]

\* The keys a byte can stand for: one of the mouse is taken for any key, or
\* for none; FA, the acknowledgement, is none.
NoKey == <<"none", FALSE>>
Codes(b) ==
  CASE b.from = "kb" -> {b.what}
    [] b = ACK       -> {NoKey}
    [] OTHER         -> {NoKey} \union (Keys \X BOOLEAN)

\* (*key_way[scan_code & 0x7f])()
KeyWay(k, make) ==
  /\ pressed' = IF k \in Modifier THEN [pressed EXCEPT ![k] = Toggled(k, make)] ELSE pressed
  /\ IF make /\ k \notin Modifier THEN print_c(key_map[k][pressed["shift"] + 1])
                                 ELSE UNCHANGED console

DoKb ==
  /\ isr = "kb"
  /\ Inb(data.from = "kb")
  /\ \E code \in Codes(data) : KeyWay(code[1], code[2])
  /\ Finish("kb")
  /\ UNCHANGED <<irr, mousevars, boot>>

Digit == <<"0", "1", "2">>

\* do_mouse finds nothing to read.
DoMouseEmpty ==
  /\ isr = "mouse" /\ ~full
  /\ mousemoves' = FALSE
  /\ print_c(Digit[mousecount + 1])
  /\ Finish("mouse")
  /\ UNCHANGED <<down, kbq, mq, full, data, irr, keys, moves, kbvars, mousecount, mouse_byte, boot, slip>>

\* do_mouse has found the buffer full: whose byte that is, it does not ask.
DoMouseTest ==
  /\ isr = "mouse" /\ full
  /\ isr' = "mouse read"
  /\ UNCHANGED <<hardware, kbvars, mousevars, console, boot, slip>>

\* Mutant: mousecount >= 2.
PacketFull_mutant(n) == n >= 2

\* mousecount >= 3 + mouse_haswheel: there is no wheel.
PacketFull(n) == n >= 3

DoMouseRead ==
  LET n == mousecount + 1 IN
  /\ isr = "mouse read"
  /\ Inb(data.from = "mouse" /\ data # ACK)
  /\ mouse_byte' = [mouse_byte EXCEPT ![n] = data]
  /\ mousemoves' = PacketFull(n)
  /\ mousecount' = IF PacketFull(n) THEN 0 ELSE n
  /\ print_c(Digit[mousecount' + 1])
  /\ Finish("mouse")
  /\ UNCHANGED <<irr, kbvars, boot>>

----------------------------------------------------------------------------
Init ==
  /\ ConsoleInit
  /\ down = {} /\ kbq = <<>> /\ mq = <<>>
  /\ full = FALSE /\ data = ACK
  /\ irr = {} /\ in_service = {}
  /\ boot = "F6" /\ isr = "none"
  /\ pressed = [k \in Modifier |-> 0]
  /\ mousecount = 0 /\ mouse_byte = [i \in 1..3 |-> ACK] /\ mousemoves = FALSE
  /\ keys = 0 /\ moves = 0 /\ slip = {}

Devices == Move \/ \E k \in Keys, make \in BOOLEAN : Strike(k, make)

DoMouse == DoMouseEmpty \/ DoMouseTest \/ DoMouseRead

Install == MouseWrite \/ MouseRead \/ Sti

Handlers == DoKb \/ DoMouse \/ \E i \in {"kb", "mouse"} : Deliver(i)

Next == Devices \/ Fill \/ Install \/ Handlers

\* init() goes on, the hardware moves bytes and delivers interrupts.
Spec == Init /\ [][Next]_vars /\ WF_vars(Fill) /\ WF_vars(Install) /\ WF_vars(Handlers)

----------------------------------------------------------------------------
(* Properties *)

Bytes == {ACK} \union {Part(i) : i \in 1..3} \union {Scan(k, m) : k \in Keys, m \in BOOLEAN}

\* Every variable has its type; the cursor stays on the screen.
TypeOK ==
  /\ ConsoleTypeOK
  /\ down \subseteq Keys
  /\ data \in Bytes
  /\ pressed \in [Modifier -> 0..1]
  /\ mousecount \in 0..2
  /\ \A i \in 1..3 : mouse_byte[i] \in Bytes

\* The bytes a device has sent and no handler has seen yet, oldest first.
Pending(q, i) == (IF full /\ data.from = i THEN <<data>> ELSE <<>>) \o q

\* How many of the bytes q are codes of the key k.
CodesOf(k, q) == Cardinality({i \in DOMAIN q : q[i].what[1] = k})

\* A modifier the driver believes held is the one that is held, once the
\* bytes on their way have arrived, as long as none has gone astray and none
\* was sent twice: either inverts the modifier for good.
ModifiersInStep ==
  slip = {} => \A k \in Modifier :
    (k \in down) <=> (pressed[k] + CodesOf(k, Pending(kbq, "kb"))) % 2 = 1

\* As long as no byte has gone astray, the next byte of the mouse that is in
\* a packet is the one the driver takes it for, and a packet it reports is
\* one packet: an interrupt without a byte does not count as one.
PacketsInStep ==
  "byte" \notin slip =>
    LET bytes == Pending(mq, "mouse") IN
    /\ \A i \in DOMAIN bytes :
         bytes[i] # ACK /\ (\A j \in 1..(i - 1) : bytes[j] = ACK) => bytes[i] = Part(mousecount + 1)
    /\ mousemoves => \A i \in 1..3 : mouse_byte[i] = Part(i)

\* The output buffer never stays full: whoever took whose byte, there is an
\* interrupt left for the byte that is in it, and keyboard and mouse go on.
NeverWedged == full ~> ~full
=============================================================================
