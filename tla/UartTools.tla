----------------------------- MODULE UartTools ------------------------------
(***************************************************************************)
(* Writing an image to a base's flash and reading it back:                  *)
(* gigaset_uart_flash.py and gigaset_uart_dump.py at one end of a serial    *)
(* line, the chip at the other, and an operator who may stop either tool    *)
(* and starts it again if it fails.  What the tools are used for is in      *)
(* Recovery.                                                                *)
(*                                                                          *)
(* The chip is modelled from what the tools say of it: the mask ROM, which  *)
(* a power cycle always brings back, the programmer 452fp.bin and the       *)
(* read-only dump loader.  A message stands for a run of bytes; a byte the  *)
(* host reads by itself is a member of Byte.  An image that arrives is      *)
(* "good", "bad" (its XOR differs) or "masked" (it differs, its XOR does    *)
(* not).  Faults: messages lost or damaged, answers or halves of the        *)
(* dialogue that come too late, and a write that leaves something else in   *)
(* the flash.                                                               *)
(***************************************************************************)
EXTENDS Naturals, Sequences

CONSTANTS
    LoaderSum, ImageSum,    \* the XOR of loader and image: any byte
    RomAttempts,            \* --rom-attempts
    MaxFaults               \* bound

Signal == {"STX", "ACK", "NAK", "PSTX", "PACK", "PNAK", "COM"}
Other  == {"x", "y"}        \* bytes that are no signal
Byte   == Signal \cup Other

ASSUME UartToolsAssumption ==
    /\ {LoaderSum, ImageSum} \subseteq Byte
    /\ RomAttempts \in Nat \ {0} /\ MaxFaults \in Nat

VARIABLES
    task,               \* the tool in use, "flash" or "dump"
    host, attempt,      \* the tool's place; its ROM attempt
    fast,               \* is its port at 115200 baud?
    file,               \* what the dump file holds
    toHost, toChip,     \* the line
    chip,               \* what the chip waits for, or is about to do
    loader, buffer,     \* the chip's RAM: the loader, and the image received
    flash,
    faults              \* counter

tool     == <<host, attempt, fast, file>>
ram      == <<loader, buffer>>
line     == <<task, tool, toHost, toChip, chip, ram, flash, faults>>

RomPhase == {"stx", "header", "checksum"}
Waiting  == RomPhase \cup {"progstx", "length", "imagesum", "com", "magic", "data", "tail"}
Loaded   == {"progstart", "progidle", "image", "confirm", "erase", "dump"}
Content  == {"none", "good", "bad", "masked"}
FlashContent == {"old", "erased", "good", "bad", "masked", "faulty"}

\* What is sent: a byte, or a run of them that carries something.
Msg(k, c) == [kind |-> k, load |-> c]
Plain(b)  == Msg(b, "none")
Say(s)    == toHost' = toHost \o s
Send(s)   == toChip' = toChip \o s

Init ==
    /\ task = "dump"
    /\ host = "stx" /\ attempt = 1 /\ fast = FALSE /\ file = "none"
    /\ toHost = <<>> /\ toChip = <<>>
    /\ chip = "rom" /\ loader = "none" /\ buffer = "none" /\ flash = "old"
    /\ faults = 0

Fault == faults < MaxFaults /\ faults' = faults + 1

-----------------------------------------------------------------------------
(* The tools *)

\* Mutant of Fail: the attempts are not counted.
FailAlways ==
    /\ IF host \in {"header", "checksum"}
         THEN host' = "stx" /\ attempt' = attempt + 1
         ELSE host' = "failed" /\ UNCHANGED attempt
    /\ UNCHANGED <<fast, toChip>>
\* A failed attempt is repeated if the ROM had been seen; any other failure ends
\* the tool.  What has been received stays in the port's buffer.
Fail ==
    /\ IF host \in {"header", "checksum"} /\ attempt < RomAttempts
         THEN host' = "stx" /\ attempt' = attempt + 1
         ELSE host' = "failed" /\ UNCHANGED attempt
    /\ UNCHANGED <<fast, toChip>>

Go(p, s) == host' = p /\ Send(s) /\ UNCHANGED <<attempt, fast>>
Stay == UNCHANGED <<host, attempt, fast, toChip>>

\* Wait for the byte b, skipping all others; send s.
Await(b, byte, next, s) == IF byte = b THEN Go(next, s) ELSE Stay

\* Mutant of Verified: the checksum is only required to be there.
VerifiedAny(byte, sum) == byte \in Byte
Verified(byte, sum) == byte = sum

\* upload_loader()
RomRead(byte) ==
    \/ host = "stx" /\ Await("STX", byte, "header", <<Plain("header")>>)
    \/ host = "header"
       /\ CASE byte = "STX" -> Stay
            [] byte = "ACK" -> Go("checksum", <<Msg("loader", "good")>>)
            [] OTHER        -> Fail
    \/ host = "checksum"
       /\ IF Verified(byte, LoaderSum)
            THEN /\ host' = IF task = "flash" THEN "progstx" ELSE "magic"
                 /\ Send(<<Plain("ack")>>)
                 /\ fast' = TRUE /\ UNCHANGED attempt
            ELSE Fail

ConfirmImage(byte) ==
    IF Verified(byte, ImageSum) THEN Go("com", <<Plain("pack")>>) ELSE Fail

\* send_image()
ProgRead(byte) ==
    \/ host = "progstx" /\ Await("PSTX", byte, "length", <<Plain("length")>>)
    \/ host = "length"
       /\ IF byte = "PACK" THEN Go("imagesum", <<Msg("image", "good")>>) ELSE Fail
    \/ host = "imagesum" /\ ConfirmImage(byte)
    \/ host = "com" /\ IF byte = "COM" THEN Go("done", <<>>) ELSE Fail

\* Mutant of HashFits: the trailer is checked, the hash is not.
HashFitsAlways(m) == m.kind = "tail"
HashFits(m) == m.kind = "tail" /\ file # "damaged"

\* dump_flash(): the file is overwritten from the first byte on; FNV-1a tells any
\* damage.
DumpRead(m) ==
    \/ host = "magic" /\ Await("magic", m.kind, "data", <<>>) /\ UNCHANGED file
    \/ host = "data" /\ m.kind = "data" /\ Go("tail", <<>>) /\ file' = m.load
    \/ host = "data" /\ m.kind # "data" /\ Fail /\ file' = "damaged"
    \/ host = "tail" /\ UNCHANGED file
       /\ IF HashFits(m) THEN Go("done", <<>>) ELSE Fail

\* port.flush(): only a header may still be on its way when the tool goes on.
Flushed == host \in {"stx", "header"} \/ toChip = <<>>

Read ==
    /\ toHost # <<>> /\ toHost' = Tail(toHost) /\ Flushed
    /\ \/ (RomRead(Head(toHost).kind) \/ ProgRead(Head(toHost).kind)) /\ UNCHANGED file
       \/ DumpRead(Head(toHost))
    /\ UNCHANGED <<task, chip, ram, flash, faults>>

\* Mutant of Silent: a read waits for ever.
SilentNever == FALSE
\* A deadline passes: nothing more comes, or only what the loop skips.  The wait for
\* PSTX has no deadline of its own: it begins anew with every byte.
Silent ==
    \/ toHost = <<>> /\ chip \in {"body", "romack", "progidle", "image", "confirm", "off"}
    \/ chip = "rom" /\ host \in {"header", "magic"}
       /\ \A i \in DOMAIN toHost : toHost[i].kind \in {"STX", "x"}

\* What is sent to the chip gets there at once; its answer may be late, and then it
\* is in the buffer when the tool has stopped waiting for it.
Timeout ==
    /\ host \in Waiting /\ toChip = <<>> /\ Fail
    /\ \/ Silent /\ UNCHANGED faults
       \/ Len(toHost) <= 1 /\ Fault
    /\ file' = IF host = "data" THEN "damaged" ELSE file
    /\ UNCHANGED <<task, toHost, chip, ram, flash>>

-----------------------------------------------------------------------------
(* The chip *)

\* What it says before the loader runs is said at 9600 baud.
Heard(b) == IF fast /\ chip \notin Loaded THEN "x" ELSE b

SendStx ==
    /\ chip = "rom" /\ Len(toHost) < 2
    /\ Say(<<Plain(Heard("STX"))>>)
    /\ UNCHANGED <<task, tool, toChip, chip, ram, flash, faults>>

Sums(load, sum) == IF load = "bad" THEN Byte \ {sum} ELSE {sum}
Become(c) == chip' = c /\ UNCHANGED <<ram, flash>>

RomReceive(m) ==
    \/ chip = "rom"
       /\ CASE m.kind = "header"  -> Say(<<Plain(Heard("ACK"))>>) /\ Become("body")
            [] m.kind = "damaged" -> Say(<<Plain(Heard("NAK"))>>) /\ Become("rom")
            [] OTHER              -> UNCHANGED toHost /\ Become("rom")
    \/ chip = "body"
       /\ IF m.kind = "loader"
            THEN /\ loader' = m.load /\ chip' = "romack"
                 /\ \E b \in Sums(m.load, LoaderSum) : Say(<<Plain(Heard(b))>>)
                 /\ UNCHANGED <<buffer, flash>>
            ELSE UNCHANGED toHost /\ Become("rom")
    \/ chip = "romack" /\ UNCHANGED toHost
       /\ Become(IF m.kind # "ack" THEN "rom"
                                   ELSE IF task = "flash" THEN "progstart" ELSE "dump")

ProgReceive(m) ==
    \/ chip = "progidle"
       /\ CASE m.kind = "length"  -> Say(<<Plain("PACK")>>) /\ Become("image")
            [] m.kind = "damaged" -> Say(<<Plain("PNAK")>>) /\ Become("progidle")
            [] OTHER              -> UNCHANGED toHost /\ Become("progidle")
    \/ chip = "image" /\ m.kind = "image"
       /\ buffer' = m.load /\ chip' = "confirm"
       /\ \E b \in Sums(m.load, ImageSum) : Say(<<Plain(b)>>)
       /\ UNCHANGED <<loader, flash>>
    \/ chip = "confirm" /\ UNCHANGED <<toHost, ram>>
       /\ IF m.kind = "pack" THEN chip' = "erase" /\ flash' = "erased"
                             ELSE chip' = "progidle" /\ UNCHANGED flash
    \/ chip = "off" /\ UNCHANGED toHost /\ Become("off")

Receive ==
    /\ toChip # <<>> /\ toChip' = Tail(toChip)
    /\ RomReceive(Head(toChip)) \/ ProgReceive(Head(toChip))
    /\ UNCHANGED <<task, tool, faults>>

\* A loader starts with a word of its own; the programmer ends with one.
ProgStart ==
    /\ chip = "progstart" /\ chip' = "progidle" /\ Say(<<Plain("PSTX")>>)
    /\ UNCHANGED <<task, tool, toChip, ram, flash, faults>>
\* The programmer compares the buffer with itself: it says the same of a write that
\* failed (gigaset_uart_flash.py:19-20, docs/RECOVERY.md:76-80).
Program ==
    /\ chip = "erase" /\ chip' = "off" /\ Say(<<Plain("COM")>>)
    /\ \/ flash' = buffer /\ UNCHANGED faults
       \/ flash' = "faulty" /\ Fault
    /\ UNCHANGED <<task, tool, toChip, ram>>
SendDump ==
    /\ chip = "dump" /\ chip' = "off"
    /\ Say(<<Plain("magic"), Msg("data", flash), Plain("tail")>>)
    /\ UNCHANGED <<task, tool, toChip, ram, flash, faults>>

\* The ROM gives up and starts again.
RomTimeout ==
    /\ chip \in {"body", "romack"} /\ toChip = <<>> /\ chip' = "rom"
    /\ toHost = <<>> \/ host = "failed"
    /\ \/ host \notin {"header", "checksum"} /\ UNCHANGED faults
       \/ host \in {"header", "checksum"} /\ Fault
    /\ UNCHANGED <<task, tool, toHost, toChip, ram, flash>>

-----------------------------------------------------------------------------
(* The line, the power, the operator *)

Damaged(m) ==
    CASE m.kind \in {"loader", "image"} -> {Msg(m.kind, "bad"), Msg(m.kind, "masked")}
      [] m.kind \in {"header", "length"} -> {Plain("damaged")}
      [] m.kind = "data" -> {Msg("data", "damaged")}
      [] OTHER -> {Plain("x")}

Disturb ==
    /\ Fault
    /\ \/ toHost # <<>> /\ UNCHANGED toChip
          /\ \/ toHost' = Tail(toHost)
             \/ \E m \in Damaged(Head(toHost)) : toHost' = <<m>> \o Tail(toHost)
       \/ toChip # <<>> /\ UNCHANGED toHost
          /\ \/ toChip' = Tail(toChip)
             \/ \E m \in Damaged(Head(toChip)) : toChip' = <<m>> \o Tail(toChip)
    /\ UNCHANGED <<task, tool, chip, ram, flash>>

PowerLoss ==
    /\ Fault /\ chip # "off" /\ chip' = "off" /\ toChip' = <<>>
    /\ UNCHANGED <<task, tool, toHost, ram, flash>>

\* The base is powered up in ROM mode, and a tool started.
Begin(t) ==
    /\ task' = t /\ host' = "stx" /\ attempt' = 1 /\ fast' = FALSE
    /\ toHost' = <<>> /\ toChip' = <<>>
    /\ chip' = "rom" /\ loader' = "none" /\ buffer' = "none"
    /\ UNCHANGED <<file, flash>>

\* Nothing but noise arrives, and the tool does not give up.
Hangs == host = "progstx" /\ chip = "rom"

Retry == (host = "failed" \/ Hangs) /\ Begin(task) /\ UNCHANGED faults
Interrupt == host \in Waiting /\ ~Hangs /\ Fault /\ Begin(task)

-----------------------------------------------------------------------------
ToolNext == Read \/ Timeout
ChipNext == SendStx \/ Receive \/ ProgStart \/ Program \/ SendDump \/ RomTimeout
UartNext == ToolNext \/ ChipNext \/ Retry \/ Interrupt \/ Disturb \/ PowerLoss

-----------------------------------------------------------------------------
(* Properties *)

Kind == Byte \cup {"header", "loader", "ack", "length", "image", "pack", "damaged",
                   "magic", "data", "tail"}
Load == Content \cup FlashContent \cup {"damaged"}

\* Port and chip are in places the tools and their loaders have, and the port is fast
\* exactly once the ROM's part is over.
UartTypeOK ==
    /\ task \in {"flash", "dump"}
    /\ host \in Waiting \cup {"done", "failed"} /\ attempt \in 1..RomAttempts
    /\ fast \in BOOLEAN /\ host \in RomPhase => ~fast
    /\ file \in Load
    /\ toHost \in Seq([kind : Kind, load : Load]) /\ toChip \in Seq([kind : Kind, load : Load])
    /\ chip \in Loaded \cup {"rom", "body", "romack", "off"}
    /\ loader \in Content /\ buffer \in Content /\ flash \in FlashContent
    /\ faults \in 0..MaxFaults

\* No loader runs whose checksum did not fit, whatever attempt a late answer belongs
\* to; the flash is erased only for an image that arrived with the right checksum, and
\* is never left with another (gigaset_uart_flash.py:104-121, 185-199,
\* gigaset_uart_dump.py:97-112).
ChecksumFits ==
    /\ chip \in Loaded => loader \in {"good", "masked"}
    /\ chip = "erase" => buffer \in {"good", "masked"}
    /\ flash # "bad"

\* The image arrived with its checksum, and was written, well or not.
Written == buffer \in {"good", "masked"} /\ flash \in {buffer, "faulty"}
=============================================================================
