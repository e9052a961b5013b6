--------------------------- MODULE Recovery_proofs ---------------------------
(***************************************************************************)
(* A base keeps its identity through a recovery, whatever the line, the     *)
(* power and the operator do; tools and chip are only ever where they can   *)
(* be; what the checksums promise is true as long as none can be taken for  *)
(* what the ROM says of itself, or noise for one of them; and a file system *)
(* comes through the repacking whole, and is refused only if it must be.    *)
(***************************************************************************)
EXTENDS Recovery, Recursion, FiniteSetTheorems

Message == [kind : Kind, load : Load]

\* The types of the line and of what goes over it.
LineTyped ==
    /\ toHost \in Seq(Message) /\ toChip \in Seq(Message)
    /\ file \in Load /\ flash \in Load /\ buffer \in Load

\* Only the flash tool's loader writes, and only the dump tool's sends a dump.
TaskInv ==
    /\ task \in {"flash", "dump"}
    /\ chip \in {"progstart", "progidle", "image", "confirm", "erase"} => task = "flash"
    /\ chip = "dump" => task = "dump"
    /\ host \in {"progstx", "length", "imagesum", "com"} => task = "flash"
    /\ host \in {"magic", "data", "tail"} => task = "dump"

\* A dump on its way to the file is what the flash holds, or damaged; a complete one
\* is not damaged.
Sound == {m \in Message : m.kind = "data" => m.load \in {flash, "damaged"}}
DumpInv ==
    task = "dump" =>
        /\ toHost \in Seq(Sound)
        /\ host = "tail" => file \in {flash, "damaged"}
        /\ host = "done" => file = flash

LineInv == LineTyped /\ TaskInv /\ DumpInv

\* What the operator has when.
StageInv ==
    /\ stage \in {"dump", "build", "write", "check", "done"}
    /\ stage \in {"dump", "build"} => task = "dump" /\ flash = "old"
    /\ stage # "dump" => kept = "old"
    /\ stage \in {"write", "check", "done"} =>
          built.identity = "own" /\ built.fs1 \in {"own", "tree"} /\ built.fs2 = "tree"
    /\ stage = "done" => task = "dump" /\ flash = "good"
    /\ stage = "check" => task = "dump"

IdentityInv == LineInv /\ StageInv

-----------------------------------------------------------------------------
(* Sequences and messages *)

LEMMA SeqParts ==
    ASSUME NEW S, NEW s \in Seq(S), s # <<>>
    PROVE  Head(s) \in S /\ Tail(s) \in Seq(S)
  OBVIOUS

LEMMA SeqJoin ==
    ASSUME NEW S, NEW s \in Seq(S), NEW t \in Seq(S)
    PROVE  s \o t \in Seq(S)
  OBVIOUS

LEMMA SeqOne ==
    ASSUME NEW S, NEW m \in S
    PROVE  <<m>> \in Seq(S)
  OBVIOUS

LEMMA SeqThree ==
    ASSUME NEW S, NEW a \in S, NEW b \in S, NEW c \in S
    PROVE  <<a, b, c>> \in Seq(S)
  OBVIOUS

\* A message that is no dump is sound, whatever the flash holds.
LEMMA PlainSound ==
    ASSUME NEW b \in Kind \ {"data"}
    PROVE  Plain(b) \in Message /\ Plain(b) \in Sound
  BY DEF Plain, Msg, Message, Sound, Load, Content, Kind, Byte, Signal, Other

LEMMA BytesArePlain ==
    /\ Byte \subseteq Kind \ {"data"}
    /\ \A b \in Byte : Heard(b) \in Byte
    /\ \A load \in Load, sum \in Byte : Sums(load, sum) \subseteq Byte
  BY DEF Byte, Signal, Other, Kind, Heard, Sums

\* What the tools send is a message; so is what they leave of the line.
LEMMA SentTyped ==
    ASSUME toChip \in Seq(Message), NEW m \in Message,
           toChip' = toChip \/ Send(<<m>>) \/ Send(<<>>)
    PROVE  toChip' \in Seq(Message)
<1>1. CASE Send(<<m>>)
  BY <1>1, SeqOne, SeqJoin DEF Send
<1>2. CASE Send(<<>>)
  BY <1>2, SeqJoin DEF Send
<1>. QED  BY <1>1, <1>2

LEMMA PlainTyped ==
    /\ \A b \in Kind : Plain(b) \in Message
    /\ \A k \in Kind, c \in Load : Msg(k, c) \in Message
  BY DEF Plain, Msg, Message, Load, Content

\* upload_loader() ends where the tool in use goes on.
LEMMA RomReadStep ==
    ASSUME LineInv, NEW b \in Kind, RomRead(b)
    PROVE  /\ toChip' \in Seq(Message)
           /\ host' \in {"stx", "header", "checksum", "failed", "progstx", "magic"}
           /\ host' = "progstx" => task = "flash"
           /\ host' = "magic" => task = "dump"
<1>. USE DEF LineInv, LineTyped, TaskInv
<1>1. /\ Plain("header") \in Message /\ Plain("ack") \in Message
      /\ Msg("loader", "good") \in Message
  BY PlainTyped DEF Kind, Load, Content
<1>2. CASE host = "stx" /\ Await("STX", b, "header", <<Plain("header")>>)
  BY <1>1, <1>2, SentTyped DEF Await, Go, Stay
<1>3. CASE /\ host = "header"
           /\ CASE b = "STX" -> Stay
                [] b = "ACK" -> Go("checksum", <<Msg("loader", "good")>>)
                [] OTHER     -> Fail
  <2>1. CASE b = "STX"
    BY <1>3, <2>1 DEF Stay
  <2>2. CASE b = "ACK"
    BY <1>1, <1>3, <2>2, SentTyped DEF Go
  <2>3. CASE b \notin {"STX", "ACK"}
    BY <1>3, <2>3 DEF Fail
  <2>. QED  BY <2>1, <2>2, <2>3
<1>4. CASE host = "checksum" /\ Verified(b, LoaderSum)
  <2>1. Send(<<Plain("ack")>>) /\ host' = IF task = "flash" THEN "progstx" ELSE "magic"
    BY <1>4 DEF RomRead
  <2>. QED  BY <1>1, <2>1, SentTyped
<1>5. CASE host = "checksum" /\ ~Verified(b, LoaderSum)
  BY <1>5 DEF RomRead, Fail
<1>. QED  BY <1>2, <1>3, <1>4, <1>5 DEF RomRead

\* send_image() is the flash tool's.
LEMMA ProgReadStep ==
    ASSUME LineInv, NEW b \in Kind, ProgRead(b)
    PROVE  /\ toChip' \in Seq(Message) /\ task = "flash"
           /\ host' \in {"progstx", "length", "imagesum", "com", "done", "failed"}
<1>. USE DEF LineInv, LineTyped, TaskInv
<1>1. /\ Plain("length") \in Message /\ Plain("pack") \in Message
      /\ Msg("image", "good") \in Message
  BY PlainTyped DEF Kind, Load, Content
<1>2. CASE host = "progstx" /\ Await("PSTX", b, "length", <<Plain("length")>>)
  BY <1>1, <1>2, SentTyped DEF Await, Go, Stay
<1>3. CASE /\ host = "length"
           /\ IF b = "PACK" THEN Go("imagesum", <<Msg("image", "good")>>) ELSE Fail
  BY <1>1, <1>3, SentTyped DEF Go, Fail
<1>4. CASE host = "imagesum" /\ ConfirmImage(b)
  BY <1>1, <1>4, SentTyped DEF ConfirmImage, Go, Fail
<1>5. CASE host = "com" /\ IF b = "COM" THEN Go("done", <<>>) ELSE Fail
  BY <1>1, <1>5, SentTyped DEF Go, Fail
<1>. QED  BY <1>2, <1>3, <1>4, <1>5 DEF ProgRead

\* dump_flash() takes a file for complete only if it is not damaged.
LEMMA DumpReadStep ==
    ASSUME LineInv, NEW m \in Message, m \in Sound, DumpRead(m)
    PROVE  /\ toChip' \in Seq(Message) /\ task = "dump" /\ file' \in Load
           /\ host' \in {"magic", "data", "tail", "done", "failed"}
           /\ host' = "tail" => file' \in {flash, "damaged"}
           /\ host' = "done" => file' = flash
<1>. USE DEF LineInv, LineTyped, TaskInv
<1>1. CASE host = "magic" /\ Await("magic", m.kind, "data", <<>>) /\ UNCHANGED file
  BY <1>1, SentTyped, PlainTyped DEF Await, Go, Stay, Kind
<1>2. CASE host = "data" /\ m.kind = "data" /\ Go("tail", <<>>) /\ file' = m.load
  <2>1. toChip' \in Seq(Message)
    BY <1>2, SentTyped DEF Go
  <2>. QED  BY <1>2, <2>1 DEF Go, Sound, Message
<1>3. CASE host = "data" /\ m.kind # "data" /\ Fail /\ file' = "damaged"
  BY <1>3 DEF Fail, Load
<1>4. CASE host = "tail" /\ UNCHANGED file /\ IF HashFits(m) THEN Go("done", <<>>) ELSE Fail
  <2>1. toChip' \in Seq(Message)
    BY <1>4, SentTyped DEF Go, Fail
  <2>2. task = "dump" /\ file \in {flash, "damaged"}
    BY <1>4 DEF DumpInv
  <2>. QED  BY <1>4, <2>1, <2>2 DEF HashFits, Go, Fail
<1>. QED  BY <1>1, <1>2, <1>3, <1>4 DEF DumpRead

LEMMA SoundKept ==
    ASSUME flash' = flash
    PROVE  Sound' = Sound
  BY DEF Sound

\* A run of plain messages may be added to what the host is about to read.
LEMMA SaidSound ==
    ASSUME LineInv, NEW b \in Kind \ {"data"}, Say(<<Plain(b)>>)
    PROVE  /\ toHost' \in Seq(Message)
           /\ task = "dump" => toHost' \in Seq(Sound)
<1>1. <<Plain(b)>> \in Seq(Message) /\ <<Plain(b)>> \in Seq(Sound)
  BY PlainSound, SeqOne
<1>2. toHost' \in Seq(Message)
  BY <1>1, SeqJoin DEF Say, LineInv, LineTyped
<1>3. ASSUME task = "dump" PROVE toHost' \in Seq(Sound)
  BY <1>1, <1>3, SeqJoin DEF Say, LineInv, DumpInv
<1>. QED  BY <1>2, <1>3

-----------------------------------------------------------------------------
(* The bench: one step of a tool, the chip or the line *)

\* What a step may not do, apart from the invariant: change the tool in use, or the
\* flash under the dump tool.
Careful == task' = task /\ (task = "dump" => flash' = flash)

LEMMA ReadStep ==
    ASSUME LineInv, Read
    PROVE  LineInv' /\ Careful
<1>. DEFINE m == Head(toHost)
<1>0. toHost \in Seq(Message) /\ toHost # <<>> /\ toHost' = Tail(toHost)
  BY DEF Read, LineInv, LineTyped
<1>a. m \in Message /\ toHost' \in Seq(Message)
  BY <1>0, SeqParts
<1>1. m \in Message /\ toHost' \in Seq(Message) /\ m.kind \in Kind
  BY <1>a DEF Message
<1>2. task = "dump" => m \in Sound /\ toHost' \in Seq(Sound)
  BY <1>0, SeqParts DEF LineInv, DumpInv
<1>3. /\ task' = task /\ flash' = flash /\ chip' = chip /\ buffer' = buffer
  BY DEF Read, ram
<1>4. Sound' = Sound
  BY <1>3, SoundKept
<1>5. CASE RomRead(m.kind) /\ UNCHANGED file
  BY <1>1, <1>2, <1>3, <1>4, <1>5, RomReadStep DEF LineInv, LineTyped, TaskInv, DumpInv, Careful
<1>6. CASE ProgRead(m.kind) /\ UNCHANGED file
  BY <1>1, <1>2, <1>3, <1>4, <1>6, ProgReadStep DEF LineInv, LineTyped, TaskInv, DumpInv, Careful
<1>7. CASE DumpRead(m)
  <2>1. task = "dump"
    BY <1>7 DEF DumpRead, LineInv, TaskInv
  <2>. HIDE DEF m
  <2>2. /\ toChip' \in Seq(Message) /\ file' \in Load
        /\ host' \in {"magic", "data", "tail", "done", "failed"}
        /\ host' = "tail" => file' \in {flash, "damaged"}
        /\ host' = "done" => file' = flash
    BY <1>1, <1>2, <1>7, <2>1, DumpReadStep
  <2>. QED  BY <1>1, <1>2, <1>3, <1>4, <2>1, <2>2 DEF LineInv, LineTyped, TaskInv, DumpInv, Careful
<1>. QED  BY <1>5, <1>6, <1>7 DEF Read

LEMMA TimeoutStep ==
    ASSUME LineInv, Timeout
    PROVE  LineInv' /\ Careful
<1>1. /\ task' = task /\ flash' = flash /\ chip' = chip /\ buffer' = buffer
      /\ toHost' = toHost /\ toChip' = toChip /\ host' \in {"stx", "failed"}
      /\ file' \in {file, "damaged"}
  BY DEF Timeout, Fail, ram
<1>2. Sound' = Sound
  BY <1>1, SoundKept
<1>. QED  BY <1>1, <1>2 DEF LineInv, LineTyped, TaskInv, DumpInv, Careful, Load

LEMMA SendStxStep ==
    ASSUME LineInv, SendStx
    PROVE  LineInv' /\ Careful
<1>1. UNCHANGED <<task, tool, toChip, chip, ram, flash>> /\ Say(<<Plain(Heard("STX"))>>)
  BY DEF SendStx
<1>2. Heard("STX") \in Kind \ {"data"}
  BY BytesArePlain DEF Byte, Signal
<1>3. Sound' = Sound
  BY <1>1, SoundKept
<1>4. toHost' \in Seq(Message) /\ (task = "dump" => toHost' \in Seq(Sound))
  BY <1>1, <1>2, SaidSound
<1>. QED  BY <1>1, <1>3, <1>4 DEF LineInv, LineTyped, TaskInv, DumpInv, Careful, tool, ram

\* What the chip takes off the line is a message; what it answers is no dump.
LEMMA ReceiveStep ==
    ASSUME LineInv, Receive
    PROVE  LineInv' /\ Careful
<1>. DEFINE m == Head(toChip)
<1>1. toChip \in Seq(Message) /\ toChip # <<>> /\ toChip' = Tail(toChip)
  BY DEF Receive, LineInv, LineTyped
<1>2. m \in Message /\ toChip' \in Seq(Message)
  BY <1>1, SeqParts
<1>3. m.load \in Load
  BY <1>2 DEF Message
<1>4. task' = task /\ host' = host /\ file' = file
  BY DEF Receive, tool
<1>5. /\ "ACK" \in Byte /\ "NAK" \in Byte /\ "PACK" \in Byte /\ "PNAK" \in Byte
      /\ LoaderSum \in Byte /\ ImageSum \in Byte
  BY UartToolsAssumption DEF Byte, Signal
\* What is said is a byte, or nothing.
<1>6. \/ toHost' = toHost
      \/ \E b \in Kind \ {"data"} : Say(<<Plain(b)>>)
  <2>. HIDE DEF m
  <2>1. CASE RomReceive(m)
    <3>1. CASE chip = "rom"
      BY <2>1, <3>1, <1>5, BytesArePlain DEF RomReceive
    <3>2. CASE chip = "body"
      <4>1. Sums(m.load, LoaderSum) \subseteq Byte
        BY <1>3, <1>5, BytesArePlain
      <4>. QED  BY <2>1, <3>2, <4>1, BytesArePlain DEF RomReceive
    <3>3. CASE chip = "romack"
      BY <2>1, <3>3 DEF RomReceive
    <3>. QED  BY <2>1, <3>1, <3>2, <3>3 DEF RomReceive
  <2>2. CASE ProgReceive(m)
    <3>1. Sums(m.load, ImageSum) \subseteq Byte
      BY <1>3, <1>5, BytesArePlain
    <3>. QED  BY <2>2, <3>1, <1>5, BytesArePlain DEF ProgReceive
  <2>. QED  BY <2>1, <2>2 DEF Receive, m
\* A loader starts for the tool that sent it; only the programmer erases.
<1>7. /\ flash' \in Load /\ buffer' \in Load
      /\ chip' \in {"progstart", "progidle", "image", "confirm", "erase"} => task = "flash"
      /\ chip' = "dump" => task = "dump"
      /\ task = "dump" => flash' = flash
  <2>. HIDE DEF m
  <2>0. /\ flash \in Load /\ buffer \in Load /\ task \in {"flash", "dump"}
        /\ chip \in {"progidle", "image", "confirm"} => task = "flash"
    BY DEF LineInv, LineTyped, TaskInv
  <2>1. CASE RomReceive(m)
    <3>1. CASE chip = "rom"
      BY <2>0, <2>1, <3>1 DEF RomReceive, Become, ram
    <3>2. CASE chip = "body"
      BY <2>0, <2>1, <3>2 DEF RomReceive, Become, ram
    <3>3. CASE chip = "romack"
      BY <2>0, <2>1, <3>3 DEF RomReceive, Become, ram
    <3>. QED  BY <2>1, <3>1, <3>2, <3>3 DEF RomReceive
  <2>2. CASE ProgReceive(m)
    <3>1. CASE chip = "progidle"
      BY <2>0, <2>2, <3>1 DEF ProgReceive, Become, ram
    <3>2. CASE chip = "image"
      BY <1>3, <2>0, <2>2, <3>2 DEF ProgReceive, Become, ram
    <3>3. CASE chip = "confirm"
      BY <2>0, <2>2, <3>3 DEF ProgReceive, Become, ram, Load, FlashContent
    <3>4. CASE chip = "off"
      BY <2>0, <2>2, <3>4 DEF ProgReceive, Become, ram
    <3>. QED  BY <2>2, <3>1, <3>2, <3>3, <3>4 DEF ProgReceive
  <2>. QED  BY <2>1, <2>2 DEF Receive, m
<1>8. /\ toHost' \in Seq(Message)
      /\ task = "dump" => toHost' \in Seq(Sound)
  BY <1>6, SaidSound DEF LineInv, LineTyped, DumpInv
<1>9. task = "dump" => Sound' = Sound
  BY <1>7, SoundKept
<1>. QED  BY <1>2, <1>4, <1>7, <1>8, <1>9 DEF LineInv, LineTyped, TaskInv, DumpInv, Careful

LEMMA ProgStartStep ==
    ASSUME LineInv, ProgStart
    PROVE  LineInv' /\ Careful
<1>1. /\ UNCHANGED <<task, tool, toChip, ram, flash>> /\ Say(<<Plain("PSTX")>>)
      /\ chip = "progstart" /\ chip' = "progidle"
  BY DEF ProgStart
<1>2. "PSTX" \in Kind \ {"data"}
  BY DEF Kind, Byte, Signal
<1>3. Sound' = Sound
  BY <1>1, SoundKept
<1>4. toHost' \in Seq(Message) /\ (task = "dump" => toHost' \in Seq(Sound))
  BY <1>1, <1>2, SaidSound
<1>. QED  BY <1>1, <1>3, <1>4 DEF LineInv, LineTyped, TaskInv, DumpInv, Careful, tool, ram

LEMMA ProgramStep ==
    ASSUME LineInv, Program
    PROVE  LineInv' /\ Careful
<1>1. /\ UNCHANGED <<task, tool, toChip, ram>> /\ Say(<<Plain("COM")>>)
      /\ chip = "erase" /\ chip' = "off" /\ flash' \in {buffer, "faulty"}
  BY DEF Program
<1>0. "faulty" \in Load
  BY DEF Load, FlashContent
<1>2. "COM" \in Kind \ {"data"}
  BY DEF Kind, Byte, Signal
<1>3. toHost' \in Seq(Message)
  BY <1>1, <1>2, SaidSound
<1>4. task = "flash"
  BY <1>1 DEF LineInv, TaskInv
<1>. QED  BY <1>0, <1>1, <1>3, <1>4 DEF LineInv, LineTyped, TaskInv, DumpInv, Careful, tool, ram

LEMMA SendDumpStep ==
    ASSUME LineInv, SendDump
    PROVE  LineInv' /\ Careful
<1>1. /\ UNCHANGED <<task, tool, toChip, ram, flash>>
      /\ Say(<<Plain("magic"), Msg("data", flash), Plain("tail")>>)
      /\ chip = "dump" /\ chip' = "off"
  BY DEF SendDump
<1>2. task = "dump" /\ flash \in Load
  BY <1>1 DEF LineInv, LineTyped, TaskInv
<1>3. {"magic", "tail"} \subseteq Kind \ {"data"} /\ "data" \in Kind
  BY DEF Kind, Byte, Signal, Other
<1>4. Msg("data", flash) \in Message /\ Msg("data", flash) \in Sound
  BY <1>2, <1>3 DEF Msg, Message, Sound
<1>5. /\ <<Plain("magic"), Msg("data", flash), Plain("tail")>> \in Seq(Message)
      /\ <<Plain("magic"), Msg("data", flash), Plain("tail")>> \in Seq(Sound)
  BY <1>3, <1>4, PlainSound, SeqThree
<1>6. toHost \in Seq(Message) /\ toHost \in Seq(Sound)
  BY <1>2 DEF LineInv, LineTyped, DumpInv
<1>7. toHost' \in Seq(Message) /\ toHost' \in Seq(Sound)
  BY <1>1, <1>5, <1>6, SeqJoin DEF Say
<1>8. Sound' = Sound
  BY <1>1, SoundKept
<1>. QED  BY <1>1, <1>7, <1>8 DEF LineInv, LineTyped, TaskInv, DumpInv, Careful, tool, ram

LEMMA RomTimeoutStep ==
    ASSUME LineInv, RomTimeout
    PROVE  LineInv' /\ Careful
<1>1. UNCHANGED <<task, tool, toHost, toChip, ram, flash>> /\ chip' = "rom"
  BY DEF RomTimeout
<1>2. Sound' = Sound
  BY <1>1, SoundKept
<1>. QED  BY <1>1, <1>2 DEF LineInv, LineTyped, TaskInv, DumpInv, Careful, tool, ram

\* What is left of the line after a fault has the types it had; what was damaged on
\* the way to the host is no dump, or a damaged one.
LEMMA DamagedTyped ==
    ASSUME NEW m \in Message, NEW d \in Damaged(m)
    PROVE  d \in Message /\ d \in Sound
<1>. {"loader", "image", "header", "length", "data", "damaged", "x"} \subseteq Kind
  BY DEF Kind, Byte, Other
<1>. {"bad", "masked", "damaged", "none"} \subseteq Load
  BY DEF Load, Content
<1>1. CASE m.kind \in {"loader", "image"}
  BY <1>1 DEF Damaged, Msg, Message, Sound
<1>2. CASE m.kind \in {"header", "length"}
  BY <1>2, PlainSound DEF Damaged
<1>3. CASE m.kind = "data"
  BY <1>3 DEF Damaged, Msg, Message, Sound
<1>4. CASE m.kind \notin {"loader", "image", "header", "length", "data"}
  BY <1>4, PlainSound DEF Damaged
<1>. QED  BY <1>1, <1>2, <1>3, <1>4

LEMMA DisturbStep ==
    ASSUME LineInv, Disturb
    PROVE  LineInv' /\ Careful
<1>1. UNCHANGED <<task, tool, chip, ram, flash>>
  BY DEF Disturb
<1>2. Sound' = Sound
  BY <1>1, SoundKept
<1>3. toHost' \in Seq(Message) /\ (task = "dump" => toHost' \in Seq(Sound))
  <2>1. CASE toHost' = toHost
    BY <2>1 DEF LineInv, LineTyped, DumpInv
  <2>2. CASE toHost # <<>> /\ toHost' = Tail(toHost)
    BY <2>2, SeqParts DEF LineInv, LineTyped, DumpInv
  <2>3. CASE toHost # <<>> /\ \E d \in Damaged(Head(toHost)) : toHost' = <<d>> \o Tail(toHost)
    <3>1. PICK d \in Damaged(Head(toHost)) : toHost' = <<d>> \o Tail(toHost)
      BY <2>3
    <3>2. Head(toHost) \in Message /\ Tail(toHost) \in Seq(Message)
      BY <2>3, SeqParts DEF LineInv, LineTyped
    <3>3. d \in Message /\ d \in Sound
      BY <3>2, DamagedTyped
    <3>4. <<d>> \in Seq(Message) /\ <<d>> \in Seq(Sound)
      BY <3>3, SeqOne
    <3>5. task = "dump" => Tail(toHost) \in Seq(Sound)
      BY <2>3, SeqParts DEF LineInv, DumpInv
    <3>. QED  BY <3>1, <3>2, <3>4, <3>5, SeqJoin
  <2>. QED  BY <2>1, <2>2, <2>3 DEF Disturb
<1>4. toChip' \in Seq(Message)
  <2>1. CASE toChip' = toChip
    BY <2>1 DEF LineInv, LineTyped
  <2>2. CASE toChip # <<>> /\ toChip' = Tail(toChip)
    BY <2>2, SeqParts DEF LineInv, LineTyped
  <2>3. CASE toChip # <<>> /\ \E d \in Damaged(Head(toChip)) : toChip' = <<d>> \o Tail(toChip)
    <3>1. PICK d \in Damaged(Head(toChip)) : toChip' = <<d>> \o Tail(toChip)
      BY <2>3
    <3>2. Head(toChip) \in Message /\ Tail(toChip) \in Seq(Message)
      BY <2>3, SeqParts DEF LineInv, LineTyped
    <3>3. <<d>> \in Seq(Message)
      BY <3>2, DamagedTyped, SeqOne
    <3>. QED  BY <3>1, <3>2, <3>3, SeqJoin
  <2>. QED  BY <2>1, <2>2, <2>3 DEF Disturb
<1>. QED  BY <1>1, <1>2, <1>3, <1>4 DEF LineInv, LineTyped, TaskInv, DumpInv, Careful, tool, ram

LEMMA PowerLossStep ==
    ASSUME LineInv, PowerLoss
    PROVE  LineInv' /\ Careful
<1>1. UNCHANGED <<task, tool, toHost, ram, flash>> /\ chip' = "off" /\ toChip' = <<>>
  BY DEF PowerLoss
<1>2. Sound' = Sound
  BY <1>1, SoundKept
<1>. QED  BY <1>1, <1>2 DEF LineInv, LineTyped, TaskInv, DumpInv, Careful, tool, ram

\* Starting a tool leaves nothing on the line.
LEMMA BeginStep ==
    ASSUME LineInv, NEW t \in {"flash", "dump"}, Begin(t)
    PROVE  LineInv' /\ task' = t /\ flash' = flash
  BY DEF Begin, LineInv, LineTyped, TaskInv, DumpInv, Load, Content

\* Whatever happens on the bench, a dump on its way to the file stays what the flash
\* holds, and the dump tool leaves the flash alone.
LEMMA UartStep ==
    ASSUME LineInv, UartNext
    PROVE  LineInv' /\ Careful
<1>1. CASE Retry \/ Interrupt
  <2>1. Begin(task) /\ task \in {"flash", "dump"}
    BY <1>1 DEF Retry, Interrupt, LineInv, TaskInv
  <2>. QED  BY <2>1, BeginStep DEF Careful
<1>. QED
  BY <1>1, ReadStep, TimeoutStep, SendStxStep, ReceiveStep, ProgStartStep, ProgramStep,
     SendDumpStep, RomTimeoutStep, DisturbStep, PowerLossStep
  DEF UartNext, ToolNext, ChipNext

-----------------------------------------------------------------------------
(* Types *)

Received == {"good", "bad", "masked"}
\* A loader or an image on its way to the chip is the one sent, or damaged.
Sendable == {m \in Message : m.kind \in {"loader", "image"} => m.load \in Received}

ToolTyped ==
    /\ host \in Waiting \cup {"done", "failed"} /\ attempt \in 1..RomAttempts
    /\ fast \in BOOLEAN /\ (host \in RomPhase => ~fast)
    /\ faults \in 0..MaxFaults
ChipTyped ==
    /\ toChip \in Seq(Sendable)
    /\ chip \in Loaded \cup {"rom", "body", "romack", "off"}
    /\ loader \in Content /\ buffer \in Content /\ flash \in FlashContent
    /\ chip \in {"confirm", "erase"} => buffer \in Received

LEMMA SentSendable ==
    ASSUME ChipTyped, NEW m \in Sendable, toChip' = toChip \/ Send(<<m>>) \/ Send(<<>>)
    PROVE  toChip' \in Seq(Sendable)
<1>1. CASE Send(<<m>>)
  BY <1>1, SeqOne, SeqJoin DEF Send, ChipTyped
<1>2. CASE Send(<<>>)
  BY <1>2, SeqJoin DEF Send, ChipTyped
<1>. QED  BY <1>1, <1>2 DEF ChipTyped

LEMMA PlainSendable ==
    /\ \A k \in {"header", "ack", "length", "pack", "damaged", "x"} : Plain(k) \in Sendable
    /\ \A k \in {"loader", "image"}, c \in Received : Msg(k, c) \in Sendable
  BY DEF Plain, Msg, Sendable, Message, Kind, Load, Content, Received, Byte, Other

LEMMA ToolStep ==
    ASSUME ToolTyped, UartNext
    PROVE  ToolTyped'
<1>. USE DEF ToolTyped, Waiting, RomPhase
<1>0. /\ 1 \in 1..RomAttempts
      /\ \A a \in 1..RomAttempts : a < RomAttempts => a + 1 \in 1..RomAttempts
      /\ \A n \in 0..MaxFaults : n < MaxFaults => n + 1 \in 0..MaxFaults
  BY UartToolsAssumption
<1>1. CASE Read
  <2>. DEFINE b == Head(toHost).kind
  <2>0. faults' = faults
    BY <1>1 DEF Read
  <2>1. CASE RomRead(b)
    <3>1. CASE host = "stx"
      BY <2>0, <2>1, <3>1 DEF RomRead, Await, Go, Stay
    <3>2. CASE host = "header"
      BY <1>0, <2>0, <2>1, <3>2 DEF RomRead, Go, Stay, Fail
    <3>3. CASE host = "checksum"
      BY <1>0, <2>0, <2>1, <3>3 DEF RomRead, Fail
    <3>. QED  BY <2>1, <3>1, <3>2, <3>3 DEF RomRead
  <2>2. CASE ProgRead(b)
    BY <1>0, <2>0, <2>2 DEF ProgRead, ConfirmImage, Await, Go, Stay, Fail
  <2>3. CASE DumpRead(Head(toHost))
    BY <1>0, <2>0, <2>3 DEF DumpRead, Await, Go, Stay, Fail
  <2>. QED  BY <1>1, <2>1, <2>2, <2>3 DEF Read
<1>2. CASE Timeout
  <2>1. faults' \in 0..MaxFaults
    BY <1>0, <1>2 DEF Timeout, Fault
  <2>. QED  BY <1>0, <1>2, <2>1 DEF Timeout, Fail
<1>3. CASE SendStx \/ Receive \/ ProgStart \/ SendDump
  BY <1>3 DEF SendStx, Receive, ProgStart, SendDump, tool
<1>8. CASE Program
  <2>1. faults' \in 0..MaxFaults
    BY <1>0, <1>8 DEF Program, Fault
  <2>. QED  BY <1>8, <2>1 DEF Program, tool
<1>4. CASE RomTimeout
  <2>1. faults' \in 0..MaxFaults
    BY <1>0, <1>4 DEF RomTimeout, Fault
  <2>. QED  BY <1>4, <2>1 DEF RomTimeout, tool
<1>5. CASE Retry
  BY <1>0, <1>5 DEF Retry, Begin
<1>6. CASE Interrupt
  <2>1. faults' \in 0..MaxFaults
    BY <1>0, <1>6 DEF Interrupt, Fault
  <2>. QED  BY <1>0, <1>6, <2>1 DEF Interrupt, Begin
<1>7. CASE Disturb \/ PowerLoss
  <2>1. faults' \in 0..MaxFaults
    BY <1>0, <1>7 DEF Disturb, PowerLoss, Fault
  <2>. QED  BY <1>7, <2>1 DEF Disturb, PowerLoss, tool
<1>. QED
  BY <1>1, <1>2, <1>3, <1>4, <1>5, <1>6, <1>7, <1>8 DEF UartNext, ToolNext, ChipNext

LEMMA DamagedSendable ==
    ASSUME NEW m \in Sendable, NEW d \in Damaged(m), m.kind # "data"
    PROVE  d \in Sendable
<1>1. CASE m.kind \in {"loader", "image"}
  BY <1>1, PlainSendable DEF Damaged, Received
<1>2. CASE m.kind \in {"header", "length"}
  BY <1>2, PlainSendable DEF Damaged
<1>3. CASE m.kind \notin {"loader", "image", "header", "length", "data"}
  BY <1>3, PlainSendable DEF Damaged
<1>. QED  BY <1>1, <1>2, <1>3

LEMMA ChipStep ==
    ASSUME LineInv, ChipTyped, UartNext
    PROVE  ChipTyped'
<1>1. CASE Read
  <2>. DEFINE b == Head(toHost).kind
  <2>1. UNCHANGED <<chip, ram, flash>>
    BY <1>1 DEF Read
  <2>2. toChip' \in Seq(Sendable)
    <3>1. CASE RomRead(b)
      BY <3>1, PlainSendable, SentSendable DEF RomRead, Await, Go, Stay, Fail, Received
    <3>2. CASE ProgRead(b)
      BY <3>2, PlainSendable, SentSendable DEF ProgRead, ConfirmImage, Await, Go, Stay, Fail, Received
    <3>3. CASE DumpRead(Head(toHost))
      BY <3>3, PlainSendable, SentSendable DEF DumpRead, Await, Go, Stay, Fail
    <3>. QED  BY <1>1, <3>1, <3>2, <3>3 DEF Read
  <2>. QED  BY <2>1, <2>2 DEF ChipTyped, ram
<1>2. CASE Timeout
  BY <1>2 DEF Timeout, Fail, ChipTyped, ram
<1>3. CASE SendStx \/ ProgStart \/ SendDump \/ RomTimeout
  BY <1>3 DEF SendStx, ProgStart, SendDump, RomTimeout, ChipTyped, Loaded, ram
<1>4. CASE Receive
  <2>. DEFINE m == Head(toChip)
  <2>1. m \in Sendable /\ toChip' \in Seq(Sendable)
    BY <1>4, SeqParts DEF Receive, ChipTyped
  <2>. HIDE DEF m
  <2>2. m.kind \in {"loader", "image"} => m.load \in Received
    BY <2>1 DEF Sendable
  <2>3. Received \subseteq Content
    BY DEF Received, Content
  <2>4. CASE RomReceive(m)
    BY <2>1, <2>2, <2>3, <2>4 DEF RomReceive, Become, ChipTyped, Loaded, ram
  <2>5. CASE ProgReceive(m)
    <3>1. CASE chip = "progidle"
      BY <2>1, <2>5, <3>1 DEF ProgReceive, Become, ChipTyped, Loaded, ram
    <3>2. CASE chip = "image"
      BY <2>1, <2>2, <2>3, <2>5, <3>2 DEF ProgReceive, ChipTyped, Loaded, ram
    <3>3. CASE chip = "confirm"
      BY <2>1, <2>5, <3>3 DEF ProgReceive, ChipTyped, Loaded, FlashContent, ram
    <3>4. CASE chip = "off"
      BY <2>1, <2>5, <3>4 DEF ProgReceive, Become, ChipTyped, Loaded, ram
    <3>. QED  BY <2>5, <3>1, <3>2, <3>3, <3>4 DEF ProgReceive
  <2>. QED  BY <1>4, <2>4, <2>5 DEF Receive, m
<1>5. CASE Program
  BY <1>5 DEF Program, ChipTyped, ram, Received, FlashContent, Loaded
<1>6. CASE Retry \/ Interrupt
  <2>1. Begin(task)
    BY <1>6 DEF Retry, Interrupt
  <2>. QED  BY <2>1 DEF Begin, ChipTyped, Content, Loaded
<1>7. CASE Disturb
  <2>0. UNCHANGED <<chip, ram, flash>>
    BY <1>7 DEF Disturb
  <2>1. toChip' \in Seq(Sendable)
    <3>1. CASE toChip' = toChip
      BY <3>1 DEF ChipTyped
    <3>2. CASE toChip # <<>> /\ toChip' = Tail(toChip)
      BY <3>2, SeqParts DEF ChipTyped
    <3>3. CASE toChip # <<>> /\ \E d \in Damaged(Head(toChip)) : toChip' = <<d>> \o Tail(toChip)
      <4>1. PICK d \in Damaged(Head(toChip)) : toChip' = <<d>> \o Tail(toChip)
        BY <3>3
      <4>2. Head(toChip) \in Sendable /\ Tail(toChip) \in Seq(Sendable)
        BY <3>3, SeqParts DEF ChipTyped
      <4>3. d \in Sendable
        <5>1. CASE Head(toChip).kind = "data"
          BY <4>1, <5>1 DEF Damaged, Msg, Sendable, Message, Kind, Load
        <5>. QED  BY <4>1, <4>2, <5>1, DamagedSendable
      <4>. QED  BY <4>1, <4>2, <4>3, SeqOne, SeqJoin
    <3>. QED  BY <1>7, <3>1, <3>2, <3>3 DEF Disturb
  <2>. QED  BY <2>0, <2>1 DEF ChipTyped, ram
<1>8. CASE PowerLoss
  <2>1. <<>> \in Seq(Sendable)
    OBVIOUS
  <2>. QED  BY <1>8, <2>1 DEF PowerLoss, ChipTyped, ram
<1>. QED
  BY <1>1, <1>2, <1>3, <1>4, <1>5, <1>6, <1>7, <1>8 DEF UartNext, ToolNext, ChipNext

-----------------------------------------------------------------------------
(* Checksums *)

\* The loader's checksum is no byte the ROM says of itself, and neither checksum is
\* what a disturbed byte is read as.
SumsDistinct == LoaderSum \notin {"STX", "ACK", "NAK", "x"} /\ ImageSum # "x"

Fitting == {"good", "masked"}
IsHeader(m) == m.kind \in {"header", "damaged", "x"}

\* Whatever precedes the k-th message to the host, an STX is among the first n.
StxUpTo(k, n) == \A j \in 1..k-1 : toHost[j].kind = "STX" => j <= n

\* The k-th message to the host can be the ROM's answer to a loader: until it is read,
\* one header at most can be sent, and the chip does not take another loader.
Answered(k) ==
    \/ chip = "off"
    \/ chip = "romack" /\ toChip = <<>> /\ host = "checksum" /\ StxUpTo(k, 2)
    \/ chip = "romack" /\ toChip = <<>> /\ host = "stx" /\ StxUpTo(k, 1)
    \/ /\ chip \in {"rom", "romack"} /\ StxUpTo(k, 0)
       /\ \A i \in 1..Len(toChip) : IsHeader(toChip[i]) => i = 1 /\ chip = "romack"

\* The ROM is silent while a second message waits: a later STX is a wrong checksum.
IsAnswer(k) == toHost[k].kind = LoaderSum \/ (toHost[k].kind = "STX" /\ k > 2)

RomInv ==
    host \in RomPhase =>
        /\ ~fast /\ chip \in {"rom", "body", "romack", "off"}
        /\ \A i \in 1..Len(toChip) :
              \/ IsHeader(toChip[i])
              \/ host = "checksum" /\ i = Len(toChip) /\ toChip[i].kind = "loader"
        /\ \A k \in 1..Len(toHost) : IsAnswer(k) => Answered(k)
        /\ \A k \in 1..Len(toHost) : toHost[k].kind = LoaderSum =>
              /\ chip = "romack" => loader \in Fitting
              /\ \A j \in k+1..Len(toHost) : toHost[j].kind \in {"STX", "x"}

\* Once the ROM's checksum was right.
LoadedInv ==
    host \in {"progstx", "magic", "data", "tail"} =>
        /\ fast /\ chip \in {"rom", "romack", "progstart", "progidle", "dump", "off"}
        /\ chip = "romack" => loader \in Fitting
        /\ toChip # <<>> => /\ Len(toChip) = 1 /\ toChip[1].kind \in {"ack", "x"}
                            /\ chip \in {"rom", "romack", "off"}

\* send_image(): one message is on its way at a time, and it is the answer expected or
\* none that is taken for it.
Idle == toHost = <<>> /\ toChip = <<>>
Sent(kinds) == toHost = <<>> /\ Len(toChip) = 1 /\ toChip[1].kind \in kinds
Told == toChip = <<>> /\ Len(toHost) = 1

ImageInv ==
    /\ host = "progstx" =>
          \A j \in 1..Len(toHost) :
             \/ toHost[j].kind \in {"STX", "x"}
             \/ toHost[j].kind = "PSTX" /\ j = Len(toHost) /\ chip \in {"progidle", "off"}
    /\ host = "length" =>
          \/ Sent({"length", "damaged", "x"}) /\ chip \in {"progidle", "off"}
          \/ Idle /\ chip \in {"progidle", "image", "off"}
          \/ Told /\ chip \in {"progidle", "image", "off"}
                  /\ (toHost[1].kind = "PACK" => chip \in {"image", "off"})
    /\ host = "imagesum" =>
          \/ Sent({"image"}) /\ chip \in {"image", "off"}
          \/ Idle /\ chip \in {"image", "confirm", "off"}
          \/ Told /\ chip \in {"confirm", "off"}
                  /\ (toHost[1].kind = ImageSum => buffer \in Fitting)
    /\ host = "com" =>
          /\ buffer \in Fitting
          /\ \/ Sent({"pack", "x"}) /\ chip \in {"confirm", "off"}
             \/ Idle /\ chip \in {"progidle", "confirm", "erase", "off"}
             \/ Told /\ chip = "off" /\ (toHost[1].kind = "COM" => Written)

EndInv ==
    /\ host = "failed" => \A i \in 1..Len(toChip) : IsHeader(toChip[i])
    /\ host = "done" => toChip = <<>> /\ (task = "flash" => Written /\ chip = "off")

PlaceInv == RomInv /\ LoadedInv /\ ImageInv /\ EndInv

\* A message taken off a line, said on it, or damaged at its head.
LEMMA Taken ==
    ASSUME NEW S, NEW s \in Seq(S), s # <<>>
    PROVE  /\ Len(s) \in Nat /\ Len(s) >= 1 /\ Head(s) = s[1] /\ s[1] \in S
           /\ Tail(s) \in Seq(S) /\ Len(Tail(s)) = Len(s) - 1
           /\ \A i \in 1..Len(Tail(s)) : i + 1 \in 1..Len(s) /\ Tail(s)[i] = s[i + 1]
           /\ Len(s) = 1 => Tail(s) = <<>>
<1>1. /\ Len(s) \in Nat /\ Len(s) >= 1 /\ Head(s) = s[1] /\ s[1] \in S
      /\ Tail(s) \in Seq(S) /\ Len(Tail(s)) = Len(s) - 1
      /\ \A i \in 1..Len(Tail(s)) : Tail(s)[i] = s[i + 1]
  OBVIOUS
<1>2. \A t \in Seq(S) : Len(t) = 0 => t = <<>>
  OBVIOUS
<1>. QED  BY <1>1, <1>2

LEMMA Added ==
    ASSUME NEW S, NEW s \in Seq(S), NEW m \in S
    PROVE  /\ s \o <<m>> \in Seq(S) /\ Len(s \o <<m>>) = Len(s) + 1
           /\ Len(s) \in Nat
           /\ \A i \in 1..Len(s) : (s \o <<m>>)[i] = s[i]
           /\ (s \o <<m>>)[Len(s) + 1] = m
  OBVIOUS

LEMMA HeadDamaged ==
    ASSUME NEW S, NEW s \in Seq(S), s # <<>>, NEW m \in S
    PROVE  /\ <<m>> \o Tail(s) \in Seq(S) /\ Len(<<m>> \o Tail(s)) = Len(s)
           /\ Len(s) \in Nat /\ Len(s) >= 1
           /\ (<<m>> \o Tail(s))[1] = m
           /\ \A i \in 2..Len(s) : (<<m>> \o Tail(s))[i] = s[i]
<1>. DEFINE t == Tail(s)
<1>1. /\ t \in Seq(S) /\ Len(t) = Len(s) - 1 /\ Len(s) \in Nat /\ Len(s) >= 1
      /\ \A i \in 1..Len(t) : t[i] = s[i + 1]
  OBVIOUS
<1>. HIDE DEF t
<1>2. /\ <<m>> \o t \in Seq(S) /\ Len(<<m>> \o t) = 1 + Len(t) /\ (<<m>> \o t)[1] = m
      /\ \A i \in 2..1 + Len(t) : (<<m>> \o t)[i] = t[i - 1]
  BY <1>1
<1>3. ASSUME NEW i \in 2..Len(s) PROVE (<<m>> \o t)[i] = s[i]
  <2>1. i - 1 \in 1..Len(t) /\ i \in 2..1 + Len(t) /\ (i - 1) + 1 = i
    BY <1>1
  <2>. QED  BY <1>1, <1>2, <2>1
<1>. QED  BY <1>1, <1>2, <1>3 DEF t

LEMMA NoneLeft ==
    ASSUME NEW S, NEW s \in Seq(S)
    PROVE  /\ Len(s) \in Nat /\ (Len(s) = 0 <=> s = <<>>)
           /\ s \o <<>> = s
  OBVIOUS

\* The effect of a read on what follows in the buffer.
LEMMA StxShift ==
    ASSUME NEW k \in Nat, NEW n \in Nat, StxUpTo(k + 1, n + 1), toHost \in Seq(Message), toHost # <<>>,
           toHost' = Tail(toHost), k <= Len(toHost')
    PROVE  StxUpTo(k, n)'
<1>1. SUFFICES ASSUME NEW j \in 1..k-1, toHost'[j].kind = "STX" PROVE j <= n
  BY DEF StxUpTo
<1>2. j + 1 \in 1..(k + 1) - 1 /\ toHost'[j] = toHost[j + 1]
  BY Taken
<1>. QED  BY <1>1, <1>2 DEF StxUpTo

LEMMA StxShiftZero ==
    ASSUME NEW k \in Nat, StxUpTo(k + 1, 0), toHost \in Seq(Message), toHost # <<>>,
           toHost' = Tail(toHost), k <= Len(toHost')
    PROVE  StxUpTo(k, 0)'
<1>1. SUFFICES ASSUME NEW j \in 1..k-1, toHost'[j].kind = "STX" PROVE FALSE
  BY DEF StxUpTo
<1>2. j + 1 \in 1..(k + 1) - 1 /\ toHost'[j] = toHost[j + 1]
  BY Taken
<1>. QED  BY <1>1, <1>2 DEF StxUpTo

LEMMA ReadShift ==
    ASSUME LineInv, RomInv, host \in RomPhase, toHost # <<>>, toHost' = Tail(toHost),
           UNCHANGED <<chip, loader>>
    PROVE  /\ \A k \in 1..Len(toHost') :
                 /\ k + 1 \in 1..Len(toHost) /\ toHost'[k] = toHost[k + 1]
                 /\ IsAnswer(k)' => Answered(k + 1)
           /\ \A k \in 1..Len(toHost') : toHost'[k].kind = LoaderSum =>
                 /\ chip' = "romack" => loader' \in Fitting
                 /\ \A j \in k+1..Len(toHost') : toHost'[j].kind \in {"STX", "x"}
<1>1. /\ Len(toHost) \in Nat /\ Len(toHost') = Len(toHost) - 1
      /\ \A k \in 1..Len(toHost') : k + 1 \in 1..Len(toHost) /\ toHost'[k] = toHost[k + 1]
  BY Taken DEF LineInv, LineTyped
<1>2. ASSUME NEW k \in 1..Len(toHost'), IsAnswer(k)' PROVE Answered(k + 1)
  <2>1. IsAnswer(k + 1) /\ k + 1 \in 1..Len(toHost)
    BY <1>1, <1>2 DEF IsAnswer
  <2>. QED  BY <2>1 DEF RomInv
<1>3. ASSUME NEW k \in 1..Len(toHost'), toHost'[k].kind = LoaderSum
      PROVE  /\ chip' = "romack" => loader' \in Fitting
             /\ \A j \in k+1..Len(toHost') : toHost'[j].kind \in {"STX", "x"}
  <2>1. toHost[k + 1].kind = LoaderSum /\ k + 1 \in 1..Len(toHost)
    BY <1>1, <1>3
  <2>2. ASSUME NEW j \in k+1..Len(toHost') PROVE toHost'[j].kind \in {"STX", "x"}
    <3>1. j + 1 \in (k+1)+1..Len(toHost) /\ j \in 1..Len(toHost')
      BY <1>1
    <3>. QED  BY <1>1, <2>1, <3>1 DEF RomInv
  <2>. QED  BY <2>1, <2>2 DEF RomInv
<1>. QED  BY <1>1, <1>2, <1>3

\* Waiting for the ROM: nothing but an STX is answered.
LEMMA StxRead ==
    ASSUME SumsDistinct, LineInv, PlaceInv, host = "stx", toHost # <<>>, toHost' = Tail(toHost),
           Await("STX", toHost[1].kind, "header", <<Plain("header")>>),
           UNCHANGED <<task, chip, ram, flash>>
    PROVE  PlaceInv'
<1>0. toHost \in Seq(Message) /\ toChip \in Seq(Message) /\ RomInv /\ host \in RomPhase
      /\ chip' = chip /\ loader' = loader
  BY DEF LineInv, LineTyped, PlaceInv, RomPhase, ram
<1>1. /\ ~fast /\ chip \in {"rom", "body", "romack", "off"}
      /\ \A i \in 1..Len(toChip) : IsHeader(toChip[i])
  BY <1>0 DEF RomInv
<1>2. \A k \in 1..Len(toHost') :
            /\ k + 1 \in 1..Len(toHost) /\ toHost'[k] = toHost[k + 1]
            /\ IsAnswer(k)' => Answered(k + 1)
  BY <1>0, ReadShift
<1>3. \A k \in 1..Len(toHost') : toHost'[k].kind = LoaderSum =>
            /\ chip' = "romack" => loader' \in Fitting
            /\ \A j \in k+1..Len(toHost') : toHost'[j].kind \in {"STX", "x"}
  BY <1>0, ReadShift
<1>4. CASE toHost[1].kind = "STX"
  <2>1. host' = "header" /\ fast' = fast /\ toChip' = toChip \o <<Plain("header")>>
    BY <1>4 DEF Await, Go, Send
  <2>2. Plain("header") \in Message /\ IsHeader(Plain("header"))
    BY PlainTyped DEF Kind, IsHeader, Plain, Msg
  <2>3. /\ Len(toChip) \in Nat /\ Len(toChip') = Len(toChip) + 1
        /\ toChip'[Len(toChip) + 1] = Plain("header")
        /\ \A i \in 1..Len(toChip) : toChip'[i] = toChip[i]
    BY <1>0, <2>1, <2>2, Added
  <2>4. ASSUME NEW k \in 1..Len(toHost'), IsAnswer(k)' PROVE Answered(k)'
    <3>1. Answered(k + 1) /\ k \in Nat /\ k + 1 >= 2 /\ k <= Len(toHost')
      BY <1>2, <2>4
    <3>2. CASE chip = "off"
      BY <1>0, <3>2 DEF Answered
    <3>3. CASE chip = "romack" /\ toChip = <<>> /\ StxUpTo(k + 1, 1)
      <4>1. StxUpTo(k, 0)'
        BY <1>0, <3>1, <3>3, StxShift
      <4>2. Len(toChip) = 0
        BY <3>3
      <4>. QED  BY <1>0, <2>3, <3>3, <4>1, <4>2 DEF Answered
    <3>4. CASE StxUpTo(k + 1, 0)
      <4>1. 1 \in 1..(k + 1) - 1
        BY <3>1
      <4>. QED  BY <1>4, <3>4, <4>1 DEF StxUpTo
    <3>. QED  BY <3>1, <3>2, <3>3, <3>4 DEF Answered
  <2>5. \A i \in 1..Len(toChip') : IsHeader(toChip'[i])
    BY <1>1, <2>2, <2>3
  <2>6. RomInv'
    BY <1>0, <1>1, <1>3, <2>1, <2>4, <2>5 DEF RomInv, IsHeader
  <2>. QED  BY <2>1, <2>6 DEF PlaceInv, LoadedInv, ImageInv, EndInv
<1>5. CASE toHost[1].kind # "STX"
  <2>1. host' = "stx" /\ fast' = fast /\ toChip' = toChip
    BY <1>5 DEF Await, Stay
  <2>2. ASSUME NEW k \in 1..Len(toHost'), IsAnswer(k)' PROVE Answered(k)'
    <3>1. Answered(k + 1) /\ k \in Nat /\ k + 1 >= 2 /\ k <= Len(toHost')
      BY <1>2, <2>2
    <3>2. CASE chip = "off"
      BY <1>0, <3>2 DEF Answered
    <3>3. CASE chip = "romack" /\ toChip = <<>> /\ StxUpTo(k + 1, 1)
      <4>1. StxUpTo(k, 0)'
        BY <1>0, <3>1, <3>3, StxShift
      <4>2. Len(toChip) = 0
        BY <3>3
      <4>. QED  BY <1>0, <2>1, <3>3, <4>1, <4>2 DEF Answered
    <3>4. CASE StxUpTo(k + 1, 0) /\ chip \in {"rom", "romack"}
               /\ \A i \in 1..Len(toChip) : IsHeader(toChip[i]) => i = 1 /\ chip = "romack"
      <4>1. StxUpTo(k, 0)'
        BY <1>0, <3>1, <3>4, StxShiftZero
      <4>. QED  BY <1>0, <2>1, <3>4, <4>1 DEF Answered, IsHeader
    <3>. QED  BY <1>0, <3>1, <3>2, <3>3, <3>4 DEF Answered
  <2>3. RomInv'
    BY <1>0, <1>1, <1>3, <2>1, <2>2 DEF RomInv, IsHeader
  <2>. QED  BY <2>1, <2>3 DEF PlaceInv, LoadedInv, ImageInv, EndInv
<1>. QED  BY <1>4, <1>5

\* Waiting for the answer to a header: in any event what precedes an answer to a loader
\* has no STX that could bring the ROM another header.
LEMMA HeaderRead ==
    ASSUME SumsDistinct, LineInv, PlaceInv, host = "header", toHost # <<>>, toHost' = Tail(toHost),
           RomRead(toHost[1].kind), UNCHANGED <<task, chip, ram, flash>>
    PROVE  PlaceInv'
<1>0. toHost \in Seq(Message) /\ toChip \in Seq(Message) /\ RomInv /\ host \in RomPhase
      /\ chip' = chip /\ loader' = loader
  BY DEF LineInv, LineTyped, PlaceInv, RomPhase, ram
<1>1. /\ ~fast /\ chip \in {"rom", "body", "romack", "off"}
      /\ \A i \in 1..Len(toChip) : IsHeader(toChip[i])
  BY <1>0 DEF RomInv
<1>2. \A k \in 1..Len(toHost') :
            /\ k + 1 \in 1..Len(toHost) /\ toHost'[k] = toHost[k + 1]
            /\ IsAnswer(k)' => Answered(k + 1)
  BY <1>0, ReadShift
<1>3. \A k \in 1..Len(toHost') : toHost'[k].kind = LoaderSum =>
            /\ chip' = "romack" => loader' \in Fitting
            /\ \A j \in k+1..Len(toHost') : toHost'[j].kind \in {"STX", "x"}
  BY <1>0, ReadShift
<1>4. ASSUME NEW k \in 1..Len(toHost'), IsAnswer(k)'
      PROVE  \/ chip = "off"
             \/ /\ chip \in {"rom", "romack"} /\ StxUpTo(k, 0)'
                /\ \A i \in 1..Len(toChip) : IsHeader(toChip[i]) => i = 1 /\ chip = "romack"
  <2>1. Answered(k + 1) /\ k \in Nat /\ k <= Len(toHost')
    BY <1>2, <1>4
  <2>2. CASE chip = "off"
    BY <2>2
  <2>3. CASE StxUpTo(k + 1, 0) /\ chip \in {"rom", "romack"}
             /\ \A i \in 1..Len(toChip) : IsHeader(toChip[i]) => i = 1 /\ chip = "romack"
    <3>1. StxUpTo(k, 0)'
      BY <1>0, <2>1, <2>3, StxShiftZero
    <3>. QED  BY <2>3, <3>1
  <2>. QED  BY <2>1, <2>2, <2>3 DEF Answered
<1>5. CASE toHost[1].kind = "STX"
  <2>1. host' = "header" /\ fast' = fast /\ toChip' = toChip
    BY <1>5 DEF RomRead, Stay
  <2>2. \A k \in 1..Len(toHost') : IsAnswer(k)' => Answered(k)'
    BY <1>0, <1>4, <2>1 DEF Answered, IsHeader
  <2>3. RomInv'
    BY <1>0, <1>1, <1>3, <2>1, <2>2 DEF RomInv, IsHeader
  <2>. QED  BY <2>1, <2>3 DEF PlaceInv, LoadedInv, ImageInv, EndInv
<1>6. CASE toHost[1].kind = "ACK"
  <2>1. host' = "checksum" /\ fast' = fast /\ toChip' = toChip \o <<Msg("loader", "good")>>
    BY <1>6 DEF RomRead, Go, Send
  <2>2. Msg("loader", "good") \in Message /\ Msg("loader", "good").kind = "loader"
    BY PlainTyped DEF Kind, Load, Content, Msg
  <2>3. /\ Len(toChip) \in Nat /\ Len(toChip') = Len(toChip) + 1
        /\ toChip'[Len(toChip) + 1].kind = "loader"
        /\ \A i \in 1..Len(toChip) : toChip'[i] = toChip[i]
    BY <1>0, <2>1, <2>2, Added
  <2>4. \A i \in 1..Len(toChip') : \/ i = Len(toChip') /\ toChip'[i].kind = "loader"
                                   \/ i \in 1..Len(toChip) /\ toChip'[i] = toChip[i]
    BY <2>3
  <2>5. \A k \in 1..Len(toHost') : IsAnswer(k)' => Answered(k)'
    BY <1>0, <1>4, <2>1, <2>4 DEF Answered, IsHeader
  <2>6. \A i \in 1..Len(toChip') : IsHeader(toChip'[i]) \/ (i = Len(toChip') /\ toChip'[i].kind = "loader")
    BY <1>1, <2>4
  <2>7. RomInv'
    BY <1>0, <1>1, <1>3, <2>1, <2>5, <2>6 DEF RomInv, IsHeader
  <2>. QED  BY <2>1, <2>7 DEF PlaceInv, LoadedInv, ImageInv, EndInv
<1>7. CASE toHost[1].kind \notin {"STX", "ACK"}
  <2>1. host' \in {"stx", "failed"} /\ fast' = fast /\ toChip' = toChip
    BY <1>0, <1>7 DEF RomRead, Fail
  <2>2. \A k \in 1..Len(toHost') : IsAnswer(k)' => Answered(k)'
    BY <1>0, <1>4, <2>1 DEF Answered, IsHeader
  <2>3. RomInv'
    BY <1>0, <1>1, <1>3, <2>1, <2>2 DEF RomInv, IsHeader
  <2>. QED  BY <1>1, <2>1, <2>3 DEF PlaceInv, LoadedInv, ImageInv, EndInv, IsHeader
<1>. QED  BY <1>5, <1>6, <1>7

\* The checksum of the loader: right, it is the ROM's answer to the loader it has.
LEMMA ChecksumRead ==
    ASSUME SumsDistinct, LineInv, PlaceInv, host = "checksum", toHost # <<>>, toHost' = Tail(toHost),
           toChip = <<>>, RomRead(toHost[1].kind), UNCHANGED <<task, chip, ram, flash>>
    PROVE  PlaceInv'
<1>0. toHost \in Seq(Message) /\ toChip \in Seq(Message) /\ RomInv /\ host \in RomPhase
      /\ chip' = chip /\ loader' = loader /\ Len(toChip) = 0 /\ Len(toHost) \in Nat /\ Len(toHost) >= 1
      /\ task \in {"flash", "dump"}
  BY Taken DEF LineInv, LineTyped, TaskInv, PlaceInv, RomPhase, ram
<1>1. ~fast /\ chip \in {"rom", "body", "romack", "off"}
  BY <1>0 DEF RomInv
<1>2. \A k \in 1..Len(toHost') :
            /\ k + 1 \in 1..Len(toHost) /\ toHost'[k] = toHost[k + 1]
            /\ IsAnswer(k)' => Answered(k + 1)
  BY <1>0, ReadShift
<1>3. \A k \in 1..Len(toHost') : toHost'[k].kind = LoaderSum =>
            /\ chip' = "romack" => loader' \in Fitting
            /\ \A j \in k+1..Len(toHost') : toHost'[j].kind \in {"STX", "x"}
  BY <1>0, ReadShift
<1>4. CASE toHost[1].kind = LoaderSum
  <2>1. /\ host' = IF task = "flash" THEN "progstx" ELSE "magic"
        /\ toChip' = toChip \o <<Plain("ack")>> /\ fast' = TRUE
    BY <1>4 DEF RomRead, Verified, Send
  <2>2. Plain("ack") \in Message /\ Plain("ack").kind = "ack"
    BY PlainTyped DEF Kind, Plain, Msg
  <2>3. Len(toChip') = 1 /\ toChip'[1].kind = "ack"
    BY <1>0, <2>1, <2>2, Added
  <2>4. 1 \in 1..Len(toHost) /\ IsAnswer(1)
    BY <1>0, <1>4 DEF IsAnswer
  <2>5. /\ Answered(1) /\ (chip = "romack" => loader \in Fitting)
        /\ \A j \in 1+1..Len(toHost) : toHost[j].kind \in {"STX", "x"}
    BY <1>0, <1>4, <2>4 DEF RomInv
  <2>6. chip \in {"rom", "romack", "off"}
    BY <2>5 DEF Answered
  <2>7. \A j \in 1..Len(toHost') : toHost'[j].kind \in {"STX", "x"}
    BY <1>0, <1>2, <2>5
  <2>8. RomInv' /\ EndInv'
    BY <1>0, <2>1 DEF RomInv, EndInv, RomPhase
  <2>9. LoadedInv'
    BY <1>0, <2>1, <2>3, <2>5, <2>6 DEF LoadedInv
  <2>. QED  BY <1>0, <2>1, <2>7, <2>8, <2>9 DEF PlaceInv, ImageInv
<1>5. CASE toHost[1].kind # LoaderSum
  <2>1. host' \in {"stx", "failed"} /\ fast' = fast /\ toChip' = toChip
    BY <1>0, <1>5 DEF RomRead, Verified, Fail
  <2>2. ASSUME NEW k \in 1..Len(toHost'), IsAnswer(k)', host' = "stx" PROVE Answered(k)'
    <3>1. Answered(k + 1) /\ k \in Nat /\ k + 1 >= 2 /\ k <= Len(toHost')
      BY <1>2, <2>2
    <3>2. CASE chip = "off"
      BY <1>0, <3>2 DEF Answered
    <3>3. CASE chip = "romack" /\ StxUpTo(k + 1, 2)
      <4>1. 1 + 1 = 2 /\ 1 \in Nat
        OBVIOUS
      <4>2. StxUpTo(k, 1)'
        BY <1>0, <3>1, <3>3, <4>1, StxShift
      <4>. QED  BY <1>0, <2>1, <2>2, <3>3, <4>2 DEF Answered
    <3>4. CASE StxUpTo(k + 1, 0) /\ chip \in {"rom", "romack"}
      <4>1. StxUpTo(k, 0)'
        BY <1>0, <3>1, <3>4, StxShiftZero
      <4>. QED  BY <1>0, <2>1, <3>4, <4>1 DEF Answered
    <3>. QED  BY <1>0, <3>1, <3>2, <3>3, <3>4 DEF Answered
  <2>3. RomInv'
    BY <1>0, <1>1, <1>3, <2>1, <2>2 DEF RomInv, RomPhase
  <2>. QED  BY <1>0, <2>1, <2>3 DEF PlaceInv, LoadedInv, ImageInv, EndInv
<1>. QED  BY <1>4, <1>5

\* send_image(): each answer is the one to what was sent last.
LEMMA ImageRead ==
    ASSUME SumsDistinct, LineInv, PlaceInv, toHost # <<>>, toHost' = Tail(toHost), toChip = <<>>,
           ProgRead(toHost[1].kind), UNCHANGED <<task, chip, ram, flash>>
    PROVE  PlaceInv'
<1>0. /\ toHost \in Seq(Message) /\ toChip \in Seq(Message) /\ Len(toHost) \in Nat /\ Len(toHost) >= 1
      /\ Len(toHost') = Len(toHost) - 1 /\ Len(toChip) = 0
      /\ Len(toHost) = 1 => toHost' = <<>>
      /\ \A i \in 1..Len(toHost') : i + 1 \in 1..Len(toHost) /\ toHost'[i] = toHost[i + 1]
      /\ chip' = chip /\ loader' = loader /\ buffer' = buffer /\ flash' = flash /\ task' = task
  BY Taken DEF LineInv, LineTyped, ram
<1>a. /\ \A k \in {"length", "pack"} : Plain(k) \in Message /\ Plain(k).kind = k
      /\ Msg("image", "good") \in Message /\ Msg("image", "good").kind = "image"
  BY PlainTyped DEF Kind, Plain, Msg, Load, Content
<1>b. \A m \in Message : toChip' = toChip \o <<m>> => Len(toChip') = 1 /\ toChip'[1] = m
  BY <1>0, Added
<1>1. CASE host = "progstx" /\ Await("PSTX", toHost[1].kind, "length", <<Plain("length")>>)
  <2>1. /\ fast /\ chip \in {"rom", "romack", "progstart", "progidle", "dump", "off"}
        /\ chip = "romack" => loader \in Fitting
    BY <1>1 DEF PlaceInv, LoadedInv
  <2>2. \A j \in 1..Len(toHost) :
           \/ toHost[j].kind \in {"STX", "x"}
           \/ toHost[j].kind = "PSTX" /\ j = Len(toHost) /\ chip \in {"progidle", "off"}
    BY <1>1 DEF PlaceInv, ImageInv
  <2>3. CASE toHost[1].kind = "PSTX"
    <3>0. 1 \in 1..Len(toHost)
      BY <1>0
    <3>1. 1 \in 1..Len(toHost) /\ Len(toHost) = 1 /\ chip \in {"progidle", "off"}
      BY <2>2, <2>3, <3>0
    <3>2. host' = "length" /\ toChip' = toChip \o <<Plain("length")>>
      BY <1>1, <2>3 DEF Await, Go, Send
    <3>3. toHost' = <<>> /\ Len(toChip') = 1 /\ toChip'[1].kind = "length"
      BY <1>0, <1>a, <1>b, <3>1, <3>2
    <3>. QED
      BY <1>0, <3>1, <3>2, <3>3
      DEF PlaceInv, RomInv, RomPhase, LoadedInv, ImageInv, EndInv, Sent
  <2>4. CASE toHost[1].kind # "PSTX"
    <3>1. host' = "progstx" /\ toChip' = toChip /\ fast' = fast
      BY <1>1, <2>4 DEF Await, Stay
    <3>2. ASSUME NEW j \in 1..Len(toHost')
          PROVE  \/ toHost'[j].kind \in {"STX", "x"}
                 \/ toHost'[j].kind = "PSTX" /\ j = Len(toHost') /\ chip' \in {"progidle", "off"}
      <4>0. /\ j \in Int /\ Len(toHost) \in Int /\ Len(toHost') \in Int
            /\ Len(toHost') = Len(toHost) - 1
        BY <1>0
      <4>1. j + 1 \in 1..Len(toHost) /\ toHost'[j] = toHost[j + 1]
        BY <1>0
      <4>2. \A p, q \in Int : p = q - 1 => (j + 1 = q => j = p)
        BY <4>0
      <4>. QED  BY <1>0, <2>2, <4>0, <4>1, <4>2
    <3>. QED
      BY <1>0, <2>1, <3>1, <3>2 DEF PlaceInv, RomInv, RomPhase, LoadedInv, ImageInv, EndInv
  <2>. QED  BY <2>3, <2>4
<1>2. CASE host = "length" /\ IF toHost[1].kind = "PACK" THEN Go("imagesum", <<Msg("image", "good")>>) ELSE Fail
  <2>1. Len(toHost) = 1 /\ (toHost[1].kind = "PACK" => chip \in {"image", "off"})
    BY <1>0, <1>2 DEF PlaceInv, ImageInv, Sent, Idle, Told
  <2>2. CASE toHost[1].kind = "PACK"
    <3>1. host' = "imagesum" /\ toChip' = toChip \o <<Msg("image", "good")>>
      BY <1>2, <2>2 DEF Go, Send
    <3>2. toHost' = <<>> /\ Len(toChip') = 1 /\ toChip'[1].kind = "image"
      BY <1>0, <1>a, <1>b, <2>1, <3>1
    <3>. QED
      BY <1>0, <2>1, <2>2, <3>1, <3>2
      DEF PlaceInv, RomInv, RomPhase, LoadedInv, ImageInv, EndInv, Sent
  <2>3. CASE toHost[1].kind # "PACK"
    BY <1>0, <1>2, <2>3 DEF Fail, PlaceInv, RomInv, RomPhase, LoadedInv, ImageInv, EndInv
  <2>. QED  BY <2>2, <2>3
<1>3. CASE host = "imagesum" /\ ConfirmImage(toHost[1].kind)
  <2>1. /\ Len(toHost) = 1 /\ chip \in {"confirm", "off"}
        /\ toHost[1].kind = ImageSum => buffer \in Fitting
    BY <1>0, <1>3 DEF PlaceInv, ImageInv, Sent, Idle, Told
  <2>2. CASE toHost[1].kind = ImageSum
    <3>1. host' = "com" /\ toChip' = toChip \o <<Plain("pack")>>
      BY <1>3, <2>2 DEF ConfirmImage, Verified, Go, Send
    <3>2. toHost' = <<>> /\ Len(toChip') = 1 /\ toChip'[1].kind = "pack"
      BY <1>0, <1>a, <1>b, <2>1, <3>1
    <3>. QED
      BY <1>0, <2>1, <2>2, <3>1, <3>2
      DEF PlaceInv, RomInv, RomPhase, LoadedInv, ImageInv, EndInv, Sent
  <2>3. CASE toHost[1].kind # ImageSum
    BY <1>0, <1>3, <2>3
    DEF ConfirmImage, Verified, Fail, PlaceInv, RomInv, RomPhase, LoadedInv, ImageInv, EndInv
  <2>. QED  BY <2>2, <2>3
<1>4. CASE host = "com" /\ IF toHost[1].kind = "COM" THEN Go("done", <<>>) ELSE Fail
  <2>1. chip = "off" /\ (toHost[1].kind = "COM" => Written)
    BY <1>0, <1>4 DEF PlaceInv, ImageInv, Sent, Idle, Told
  <2>2. CASE toHost[1].kind = "COM"
    <3>1. host' = "done" /\ toChip' = <<>>
      BY <1>0, <1>4, <2>2, NoneLeft DEF Go, Send
    <3>. QED
      BY <1>0, <2>1, <2>2, <3>1 DEF PlaceInv, RomInv, RomPhase, LoadedInv, ImageInv, EndInv, Written
  <2>3. CASE toHost[1].kind # "COM"
    BY <1>0, <1>4, <2>3 DEF Fail, PlaceInv, RomInv, RomPhase, LoadedInv, ImageInv, EndInv
  <2>. QED  BY <2>2, <2>3
<1>. QED  BY <1>1, <1>2, <1>3, <1>4 DEF ProgRead

LEMMA ReadPlaces ==
    ASSUME SumsDistinct, LineInv, PlaceInv, Read
    PROVE  PlaceInv'
<1>0. /\ toHost # <<>> /\ toHost' = Tail(toHost) /\ Flushed
      /\ UNCHANGED <<task, chip, ram, flash>>
  BY DEF Read
<1>1. toHost \in Seq(Message) /\ toChip \in Seq(Message) /\ Head(toHost) = toHost[1] /\ toHost[1] \in Message
  BY <1>0, Taken DEF LineInv, LineTyped
<1>2. CASE RomRead(toHost[1].kind)
  <2>1. CASE host = "stx"
    <3>1. Await("STX", toHost[1].kind, "header", <<Plain("header")>>)
      BY <1>2, <2>1 DEF RomRead
    <3>. QED  BY <1>0, <2>1, <3>1, StxRead
  <2>2. CASE host = "header"
    BY <1>0, <1>2, <2>2, HeaderRead
  <2>3. CASE host = "checksum"
    <3>1. toChip = <<>>
      BY <1>0, <2>3 DEF Flushed
    <3>. QED  BY <1>0, <1>2, <2>3, <3>1, ChecksumRead
  <2>. QED  BY <1>2, <2>1, <2>2, <2>3 DEF RomRead
<1>3. CASE ProgRead(toHost[1].kind)
  <2>1. toChip = <<>>
    BY <1>0, <1>3 DEF ProgRead, Flushed
  <2>. QED  BY <1>0, <1>3, <2>1, ImageRead
<1>4. CASE DumpRead(toHost[1])
  <2>0. host \in {"magic", "data", "tail"}
    BY <1>4 DEF DumpRead
  <2>1. toChip = <<>> /\ task = "dump" /\ Len(toChip) = 0
    BY <1>0, <2>0 DEF Flushed, LineInv, TaskInv
  <2>2. toChip' = toChip /\ host' \in {"magic", "data", "tail", "done", "failed"} /\ fast' = fast
    BY <1>4, <2>1, NoneLeft DEF DumpRead, Await, Go, Stay, Fail, Send
  <2>3. LoadedInv'
    BY <1>0, <2>0, <2>1, <2>2 DEF PlaceInv, LoadedInv, ram
  <2>. QED
    BY <1>0, <2>1, <2>2, <2>3 DEF PlaceInv, RomInv, RomPhase, ImageInv, EndInv
<1>. QED  BY <1>0, <1>1, <1>2, <1>3, <1>4 DEF Read

LEMMA TimeoutPlaces ==
    ASSUME LineInv, PlaceInv, Timeout
    PROVE  PlaceInv'
<1>0. /\ UNCHANGED <<toHost, toChip, fast, task, chip, loader, buffer, flash>> /\ toChip = <<>>
      /\ toHost \in Seq(Message) /\ Len(toHost) \in Nat /\ Len(toChip) = 0
      /\ host' \in {"stx", "failed"} /\ (host' = "stx" => host \in {"header", "checksum"})
      /\ toHost = <<>> \/ (chip = "rom" /\ host \in {"header", "magic"}) \/ Len(toHost) <= 1
  BY NoneLeft DEF Timeout, Fail, Silent, LineInv, LineTyped, ram
<1>1. CASE host' = "failed"
  BY <1>0, <1>1 DEF PlaceInv, RomInv, RomPhase, LoadedInv, ImageInv, EndInv
<1>2. CASE host' = "stx"
  <2>1. host \in RomPhase /\ RomInv
    BY <1>0, <1>2 DEF RomPhase, PlaceInv
  <2>2. ASSUME NEW k \in 1..Len(toHost), Answered(k) PROVE Answered(k)'
    <3>1. StxUpTo(k, 0)' = StxUpTo(k, 0)
      BY <1>0 DEF StxUpTo
    <3>2. CASE host = "checksum" /\ chip = "romack"
      <4>1. Len(toHost) <= 1 /\ k = 1
        BY <1>0, <3>2
      <4>2. StxUpTo(k, 1)'
        BY <4>1 DEF StxUpTo
      <4>. QED  BY <1>0, <1>2, <3>2, <4>2 DEF Answered
    <3>3. CASE chip = "off"
      BY <1>0, <3>3 DEF Answered
    <3>4. CASE StxUpTo(k, 0) /\ chip \in {"rom", "romack"}
      BY <1>0, <3>1, <3>4 DEF Answered
    <3>. QED  BY <1>0, <1>2, <2>2, <3>2, <3>3, <3>4 DEF Answered
  <2>3. RomInv'
    BY <1>0, <1>2, <2>1, <2>2 DEF RomInv, IsAnswer
  <2>. QED  BY <1>2, <2>3 DEF PlaceInv, LoadedInv, ImageInv, EndInv
<1>. QED  BY <1>0, <1>1, <1>2

\* What is said comes after what has been.
LEMMA SaidAfter ==
    ASSUME toHost \in Seq(Message), NEW m \in Message, toHost' = toHost \o <<m>>
    PROVE  /\ Len(toHost) \in Nat /\ Len(toHost') = Len(toHost) + 1
           /\ toHost'[Len(toHost) + 1] = m
           /\ \A k \in 1..Len(toHost) : /\ toHost'[k] = toHost[k]
                                        /\ \A n \in Nat : StxUpTo(k, n)' <=> StxUpTo(k, n)
<1>1. /\ Len(toHost) \in Nat /\ Len(toHost') = Len(toHost) + 1
      /\ toHost'[Len(toHost) + 1] = m
      /\ \A k \in 1..Len(toHost) : toHost'[k] = toHost[k]
  BY Added
<1>2. ASSUME NEW k \in 1..Len(toHost), NEW n \in Nat PROVE StxUpTo(k, n)' <=> StxUpTo(k, n)
  <2>1. \A j \in 1..k-1 : j \in 1..Len(toHost) /\ toHost'[j] = toHost[j]
    BY <1>1
  <2>. QED  BY <2>1 DEF StxUpTo
<1>. QED  BY <1>1, <1>2

LEMMA SendStxPlaces ==
    ASSUME SumsDistinct, LineInv, PlaceInv, SendStx
    PROVE  PlaceInv'
<1>0. /\ UNCHANGED <<task, host, fast, toChip, chip, loader, buffer, flash>> /\ chip = "rom"
      /\ toHost \in Seq(Message) /\ Len(toHost) < 2 /\ toHost' = toHost \o <<Plain(Heard("STX"))>>
  BY DEF SendStx, Say, LineInv, LineTyped, tool, ram
<1>1. Plain(Heard("STX")) \in Message /\ Plain(Heard("STX")).kind = IF fast THEN "x" ELSE "STX"
  BY <1>0, PlainTyped DEF Heard, Plain, Msg, Kind, Byte, Signal, Other, Loaded
<1>2. /\ Len(toHost) \in Nat /\ Len(toHost') = Len(toHost) + 1
      /\ toHost'[Len(toHost) + 1] = Plain(Heard("STX"))
      /\ \A k \in 1..Len(toHost) : /\ toHost'[k] = toHost[k]
                                   /\ \A n \in Nat : StxUpTo(k, n)' <=> StxUpTo(k, n)
  BY <1>0, <1>1, SaidAfter
<1>3. \A k \in 1..Len(toHost') : k \in 1..Len(toHost) \/ (k = Len(toHost) + 1 /\ k <= 2)
  BY <1>0, <1>2
<1>4. RomInv'
  <2>1. SUFFICES ASSUME host \in RomPhase PROVE RomInv'
    BY <1>0 DEF RomInv
  <2>2. RomInv /\ ~fast
    BY <2>1 DEF PlaceInv, RomInv
  <2>3. ASSUME NEW k \in 1..Len(toHost'), IsAnswer(k)' PROVE k \in 1..Len(toHost) /\ IsAnswer(k)
    <3>1. k \in 1..Len(toHost)
      BY <1>1, <1>2, <1>3, <2>2, <2>3 DEF IsAnswer, SumsDistinct
    <3>. QED  BY <1>2, <2>3, <3>1 DEF IsAnswer
  <2>4. ASSUME NEW k \in 1..Len(toHost'), IsAnswer(k)' PROVE Answered(k)'
    <3>1. k \in 1..Len(toHost) /\ Answered(k)
      BY <2>1, <2>2, <2>3, <2>4 DEF RomInv
    <3>2. \A n \in {0, 1, 2} : StxUpTo(k, n)' <=> StxUpTo(k, n)
      BY <1>2, <3>1
    <3>. QED  BY <1>0, <3>1, <3>2 DEF Answered, IsHeader
  <2>5. ASSUME NEW k \in 1..Len(toHost'), toHost'[k].kind = LoaderSum
        PROVE  /\ chip' = "romack" => loader' \in Fitting
               /\ \A j \in k+1..Len(toHost') : toHost'[j].kind \in {"STX", "x"}
    <3>1. k \in 1..Len(toHost) /\ toHost[k].kind = LoaderSum
      BY <1>1, <1>2, <1>3, <2>2, <2>5 DEF SumsDistinct
    <3>2. \A j \in k+1..Len(toHost) : toHost[j].kind \in {"STX", "x"}
      BY <2>1, <2>2, <3>1 DEF RomInv
    <3>3. ASSUME NEW j \in k+1..Len(toHost') PROVE toHost'[j].kind \in {"STX", "x"}
      <4>1. j \in k+1..Len(toHost) \/ j = Len(toHost) + 1
        BY <1>2, <3>1
      <4>2. j \in k+1..Len(toHost) => j \in 1..Len(toHost)
        BY <1>2, <3>1
      <4>. QED  BY <1>1, <1>2, <3>2, <4>1, <4>2
    <3>. QED  BY <1>0, <3>3
  <2>. QED  BY <1>0, <2>1, <2>2, <2>4, <2>5 DEF RomInv, IsHeader
<1>5. LoadedInv'
  BY <1>0 DEF PlaceInv, LoadedInv
<1>6. ImageInv'
  <2>1. host \notin {"length", "imagesum", "com"}
    BY <1>0 DEF PlaceInv, ImageInv
  <2>2. ASSUME host = "progstx", NEW j \in 1..Len(toHost') PROVE toHost'[j].kind \in {"STX", "x"}
    <3>1. fast
      BY <2>2 DEF PlaceInv, LoadedInv
    <3>2. \A i \in 1..Len(toHost) : toHost[i].kind \in {"STX", "x"}
      BY <1>0, <2>2 DEF PlaceInv, ImageInv
    <3>. QED  BY <1>1, <1>2, <1>3, <3>1, <3>2
  <2>. QED  BY <1>0, <2>1, <2>2 DEF ImageInv
<1>7. EndInv'
  BY <1>0 DEF PlaceInv, EndInv, IsHeader
<1>. QED  BY <1>4, <1>5, <1>6, <1>7 DEF PlaceInv

LEMMA RestShift ==
    ASSUME toChip \in Seq(Sendable), toChip # <<>>, toChip' = Tail(toChip)
    PROVE  /\ toChip[1] = Head(toChip) /\ toChip[1] \in Sendable
           /\ Len(toChip) \in Nat /\ Len(toChip) >= 1 /\ Len(toChip') = Len(toChip) - 1
           /\ \A i \in 1..Len(toChip') : /\ i + 1 \in 1..Len(toChip) /\ i + 1 # 1
                                         /\ toChip'[i] = toChip[i + 1]
                                         /\ i + 1 = Len(toChip) => i = Len(toChip')
           /\ Len(toChip) = 1 => toChip' = <<>>
<1>1. /\ toChip[1] = Head(toChip) /\ toChip[1] \in Sendable
      /\ Len(toChip) \in Nat /\ Len(toChip) >= 1 /\ Len(toChip') = Len(toChip) - 1
      /\ \A i \in 1..Len(toChip') : i + 1 \in 1..Len(toChip) /\ toChip'[i] = toChip[i + 1]
      /\ Len(toChip) = 1 => toChip' = <<>>
  BY Taken
<1>2. \A n, p \in Int : p = n - 1 => \A i \in 1..p : i + 1 # 1 /\ (i + 1 = n => i = p)
  OBVIOUS
<1>3. Len(toChip) \in Int /\ Len(toChip') \in Int
  BY <1>1
<1>. QED  BY <1>1, <1>2, <1>3

\* An answer to a loader that is still to be read stays one while the chip is silent.
LEMMA StillAnswered ==
    ASSUME toHost' = toHost, host' = host, toChip \in Seq(Sendable), toChip # <<>>,
           toChip' = Tail(toChip), NEW k \in Nat, Answered(k), chip = "off" \/ chip' = "rom",
           chip = "off" => chip' = "off"
    PROVE  Answered(k)'
<1>1. \A n \in Nat : StxUpTo(k, n)' <=> StxUpTo(k, n)
  BY DEF StxUpTo
<1>2. \A i \in 1..Len(toChip') : /\ i + 1 \in 1..Len(toChip) /\ i + 1 # 1
                                 /\ toChip'[i] = toChip[i + 1]
  BY RestShift
<1>3. CASE chip = "off"
  BY <1>3 DEF Answered
<1>4. CASE chip # "off"
  <2>1. /\ StxUpTo(k, 0) /\ \A i \in 1..Len(toChip) : IsHeader(toChip[i]) => i = 1
    BY <1>4 DEF Answered
  <2>2. \A i \in 1..Len(toChip') : ~IsHeader(toChip'[i])
    BY <1>2, <2>1 DEF IsHeader
  <2>3. StxUpTo(k, 0)' /\ chip' = "rom"
    BY <1>1, <1>4, <2>1
  <2>. QED  BY <2>2, <2>3 DEF Answered, IsHeader
<1>. QED  BY <1>3, <1>4

\* The ROM, while the tool is in the ROM's part of the dialogue.
LEMMA RomReceivePlaces ==
    ASSUME SumsDistinct, LineInv, ChipTyped, PlaceInv, ChecksumFits, Receive, host \in RomPhase
    PROVE  PlaceInv' /\ ChecksumFits'
<1>. DEFINE m == Head(toChip)
<1>0. /\ toChip # <<>> /\ toChip' = Tail(toChip) /\ UNCHANGED <<task, host, fast>>
      /\ toChip \in Seq(Sendable) /\ toHost \in Seq(Message) /\ RomInv
      /\ ~fast /\ chip \in {"rom", "body", "romack", "off"}
      /\ RomReceive(m) \/ ProgReceive(m)
  BY DEF Receive, tool, ChipTyped, LineInv, LineTyped, PlaceInv, RomInv
<1>1. /\ toChip[1] = m /\ m \in Sendable /\ 1 \in 1..Len(toChip)
      /\ Len(toChip) \in Nat /\ Len(toChip) >= 1 /\ Len(toChip') = Len(toChip) - 1
      /\ \A i \in 1..Len(toChip') : /\ i + 1 \in 1..Len(toChip) /\ i + 1 # 1
                                    /\ toChip'[i] = toChip[i + 1]
                                    /\ i + 1 = Len(toChip) => i = Len(toChip')
      /\ Len(toChip) = 1 => toChip' = <<>>
  <2>1. /\ toChip[1] = m /\ m \in Sendable
        /\ Len(toChip) \in Nat /\ Len(toChip) >= 1 /\ Len(toChip') = Len(toChip) - 1
        /\ \A i \in 1..Len(toChip') : /\ i + 1 \in 1..Len(toChip) /\ i + 1 # 1
                                      /\ toChip'[i] = toChip[i + 1]
                                      /\ i + 1 = Len(toChip) => i = Len(toChip')
        /\ Len(toChip) = 1 => toChip' = <<>>
    BY <1>0, RestShift
  <2>2. 1 \in 1..Len(toChip)
    BY <2>1
  <2>. QED  BY <2>1, <2>2
<1>. HIDE DEF m
<1>2. \A i \in 1..Len(toChip) : \/ IsHeader(toChip[i])
                                \/ host = "checksum" /\ i = Len(toChip) /\ toChip[i].kind = "loader"
  BY <1>0 DEF RomInv
<1>3. \A i \in 1..Len(toChip') : \/ IsHeader(toChip'[i])
                                 \/ host = "checksum" /\ i = Len(toChip') /\ toChip'[i].kind = "loader"
  BY <1>1, <1>2 DEF IsHeader
<1>4. IsHeader(m) \/ (m.kind = "loader" /\ host = "checksum" /\ Len(toChip) = 1)
  BY <1>1, <1>2
<1>5. m.kind # "ack" /\ m.kind # "image"
  BY <1>4 DEF IsHeader
<1>6. \A b \in Byte : Heard(b) = b
  BY <1>0 DEF Heard
<1>7. /\ chip' \in {"rom", "body", "romack", "off"} /\ flash' = flash /\ buffer' = buffer
      /\ chip' = "off" <=> chip = "off"
      /\ chip = "off" => toHost' = toHost
      /\ chip # "off" => RomReceive(m)
  <2>1. CASE chip = "rom"
    BY <1>0, <2>1 DEF RomReceive, ProgReceive, Become, ram
  <2>2. CASE chip = "body"
    BY <1>0, <2>2 DEF RomReceive, ProgReceive, Become, ram
  <2>3. CASE chip = "romack"
    <3>1. RomReceive(m)
      BY <1>0, <2>3 DEF ProgReceive
    <3>. QED  BY <1>5, <2>3, <3>1 DEF RomReceive, Become, ram
  <2>4. CASE chip = "off"
    BY <1>0, <2>4 DEF RomReceive, ProgReceive, Become, ram
  <2>. QED  BY <1>0, <2>1, <2>2, <2>3, <2>4
<1>8. ChecksumFits'
  BY <1>7 DEF ChecksumFits, Loaded
\* Enough for the rest: what is said is nothing, or no answer to a loader, or the answer
\* to the loader just taken.
<1>9. SUFFICES /\ \A k \in 1..Len(toHost') : IsAnswer(k)' => Answered(k)'
               /\ \A k \in 1..Len(toHost') : toHost'[k].kind = LoaderSum =>
                     /\ chip' = "romack" => loader' \in Fitting
                     /\ \A j \in k+1..Len(toHost') : toHost'[j].kind \in {"STX", "x"}
  <2>1. RomInv'
    BY <1>0, <1>3, <1>7, <1>9 DEF RomInv, IsHeader
  <2>. QED
    BY <1>0, <1>8, <2>1 DEF PlaceInv, LoadedInv, ImageInv, EndInv, RomPhase
<1>10. CASE toHost' = toHost /\ (chip = "off" \/ chip' = "rom")
  <2>1. \A k \in 1..Len(toHost) : IsAnswer(k)' <=> IsAnswer(k)
    BY <1>10 DEF IsAnswer
  <2>2. \A k \in 1..Len(toHost') : IsAnswer(k)' => Answered(k)'
    BY <1>0, <1>7, <1>10, <2>1, StillAnswered DEF RomInv
  <2>. QED  BY <1>0, <1>7, <1>10, <2>2 DEF RomInv
<1>11. CASE chip \in {"rom", "body"} /\ toHost' # toHost
  <2>1. \/ chip = "rom" /\ IsHeader(m) /\ \E b \in {"ACK", "NAK"} : Say(<<Plain(Heard(b))>>)
        \/ /\ chip = "body" /\ m.kind = "loader" /\ loader' = m.load /\ chip' = "romack"
           /\ \E b \in Sums(m.load, LoaderSum) : Say(<<Plain(Heard(b))>>)
    BY <1>7, <1>11 DEF RomReceive, IsHeader
\* Nothing that is still in the buffer answers a loader.
  <2>2. ASSUME NEW k \in 1..Len(toHost), IsAnswer(k) PROVE FALSE
    <3>1. Answered(k)
      BY <1>0, <2>2 DEF RomInv
    <3>. QED  BY <1>1, <1>11, <2>1, <3>1 DEF Answered
  <2>3. LoaderSum \in Byte /\ "ACK" \in Byte /\ "NAK" \in Byte
    BY UartToolsAssumption DEF Byte, Signal
  <2>4. CASE chip = "rom"
    <3>1. PICK b \in {"ACK", "NAK"} : toHost' = toHost \o <<Plain(b)>>
      BY <1>6, <2>1, <2>3, <2>4 DEF Say
    <3>2. Plain(b) \in Message /\ Plain(b).kind = b
      BY PlainTyped, <2>3 DEF Plain, Msg, Kind
    <3>3. /\ Len(toHost) \in Nat /\ Len(toHost') = Len(toHost) + 1
          /\ toHost'[Len(toHost) + 1] = Plain(b)
          /\ \A k \in 1..Len(toHost) : toHost'[k] = toHost[k]
      BY <1>0, <3>1, <3>2, SaidAfter
    <3>4. ASSUME NEW k \in 1..Len(toHost'), IsAnswer(k)' PROVE FALSE
      <4>1. CASE k \in 1..Len(toHost)
        BY <2>2, <3>3, <3>4, <4>1 DEF IsAnswer
      <4>2. CASE k = Len(toHost) + 1
        BY <3>2, <3>3, <3>4, <4>2 DEF IsAnswer, SumsDistinct
      <4>. QED  BY <3>3, <4>1, <4>2
    <3>. QED  BY <3>4 DEF IsAnswer
  <2>5. CASE chip = "body"
    <3>0. /\ m.kind = "loader" /\ loader' = m.load /\ chip' = "romack"
          /\ host = "checksum" /\ toChip' = <<>>
      BY <1>1, <1>4, <2>1, <2>5 DEF IsHeader
    <3>a. m.load \in Received /\ m.load \in Load
      BY <1>1, <3>0 DEF Sendable, Message
    <3>b. Sums(m.load, LoaderSum) \subseteq Byte
      BY <2>3, <3>a, BytesArePlain
    <3>1. PICK b \in Sums(m.load, LoaderSum) : toHost' = toHost \o <<Plain(b)>>
      BY <1>6, <2>1, <2>5, <3>b DEF Say
    <3>2. Plain(b) \in Message /\ Plain(b).kind = b
      BY <3>b, PlainTyped DEF Plain, Msg, Kind
    <3>3. /\ Len(toHost) \in Nat /\ Len(toHost') = Len(toHost) + 1
          /\ toHost'[Len(toHost) + 1] = Plain(b)
          /\ \A k \in 1..Len(toHost) : toHost'[k] = toHost[k]
      BY <1>0, <3>1, <3>2, SaidAfter
    <3>4. ASSUME NEW k \in 1..Len(toHost'), IsAnswer(k)' PROVE k = Len(toHost) + 1
      <4>1. CASE k \in 1..Len(toHost)
        BY <2>2, <3>3, <3>4, <4>1 DEF IsAnswer
      <4>. QED  BY <3>3, <4>1
    <3>5. ASSUME NEW k \in Nat, k = Len(toHost) + 1 PROVE StxUpTo(k, 2)'
      <4>1. SUFFICES ASSUME NEW j \in 1..k-1, toHost'[j].kind = "STX" PROVE j <= 2
        BY DEF StxUpTo
      <4>2. j \in 1..Len(toHost)
        BY <3>3, <3>5
      <4>. QED  BY <2>2, <3>3, <4>1, <4>2 DEF IsAnswer
    <3>6. ASSUME NEW k \in 1..Len(toHost'), IsAnswer(k)' PROVE Answered(k)'
      <4>1. k = Len(toHost) + 1 /\ k \in Nat
        BY <3>3, <3>4, <3>6
      <4>2. StxUpTo(k, 2)'
        BY <3>5, <4>1
      <4>. QED  BY <1>0, <3>0, <4>2 DEF Answered
    <3>7. b = LoaderSum => loader' \in Fitting
      BY <3>0, <3>a, <3>1 DEF Sums, Received, Fitting
    <3>8. ASSUME NEW k \in 1..Len(toHost'), toHost'[k].kind = LoaderSum
          PROVE  loader' \in Fitting /\ \A j \in k+1..Len(toHost') : FALSE
      <4>1. k = Len(toHost) + 1
        BY <3>4, <3>8 DEF IsAnswer
      <4>. QED  BY <3>2, <3>3, <3>7, <3>8, <4>1
    <3>. QED  BY <3>6, <3>8
  <2>. QED  BY <1>11, <2>4, <2>5
<1>12. toHost' = toHost => chip = "off" \/ chip' = "rom"
  <2>1. ASSUME Say(<<Plain(Heard("ACK"))>>) \/ \E b \in Sums(m.load, LoaderSum) : Say(<<Plain(Heard(b))>>)
        PROVE  toHost' # toHost
    <3>1. \A t \in Message : Len(toHost \o <<t>>) = Len(toHost) + 1 /\ Len(toHost) \in Nat
      BY <1>0, Added
    <3>2. m.kind \in Kind /\ m.load \in Load /\ LoaderSum \in Byte /\ "ACK" \in Byte
      BY <1>1, UartToolsAssumption DEF Sendable, Message, Byte, Signal
    <3>3. \E t \in Message : toHost' = toHost \o <<t>>
      BY <2>1, <3>2, <1>6, BytesArePlain, PlainTyped DEF Say
    <3>. QED  BY <3>1, <3>3
  <2>. QED  BY <1>0, <1>5, <1>7, <2>1 DEF RomReceive, Become
<1>13. chip = "romack" => toHost' = toHost
  BY <1>7 DEF RomReceive
<1>. QED  BY <1>0, <1>7, <1>10, <1>11, <1>12, <1>13

\* The chip, while the tool is past the ROM's part of the dialogue.
LEMMA LaterReceivePlaces ==
    ASSUME LineInv, ToolTyped, ChipTyped, PlaceInv, ChecksumFits, Receive, host \notin RomPhase
    PROVE  PlaceInv' /\ ChecksumFits'
<1>. DEFINE m == Head(toChip)
<1>0. /\ toChip # <<>> /\ toChip' = Tail(toChip) /\ UNCHANGED <<task, host, fast>>
      /\ toChip \in Seq(Sendable) /\ toHost \in Seq(Message)
      /\ RomReceive(m) \/ ProgReceive(m)
  BY DEF Receive, tool, ChipTyped, LineInv, LineTyped
<1>1. /\ toChip[1] = m /\ m \in Sendable
      /\ Len(toChip) \in Nat /\ Len(toChip) >= 1 /\ Len(toChip') = Len(toChip) - 1
      /\ \A i \in 1..Len(toChip') : i + 1 \in 1..Len(toChip) /\ toChip'[i] = toChip[i + 1]
      /\ Len(toChip) = 1 => toChip' = <<>> /\ Len(toChip') = 0
  BY <1>0, RestShift
<1>. HIDE DEF m
<1>2. RomInv'
  BY <1>0 DEF RomInv
<1>3. CASE host \in {"progstx", "magic", "data", "tail"}
  <2>1. /\ Len(toChip) = 1 /\ m.kind \in {"ack", "x"} /\ chip \in {"rom", "romack", "off"}
        /\ fast /\ (chip = "romack" => loader \in Fitting)
    BY <1>0, <1>1, <1>3 DEF PlaceInv, LoadedInv
  <2>2. /\ chip' \in {"rom", "progstart", "dump", "off"} /\ (chip = "off" => chip' = "off")
        /\ chip' \in {"progstart", "dump"} => chip = "romack"
        /\ toHost' = toHost /\ loader' = loader /\ flash' = flash
    BY <1>0, <2>1 DEF RomReceive, ProgReceive, Become, ram
  <2>3. LoadedInv'
    BY <1>0, <1>1, <2>1, <2>2 DEF LoadedInv
  <2>4. ImageInv'
    BY <1>0, <1>3, <2>1, <2>2 DEF PlaceInv, ImageInv
  <2>5. ChecksumFits'
    BY <2>1, <2>2 DEF ChecksumFits, Loaded, Fitting
  <2>. QED  BY <1>0, <1>2, <1>3, <2>3, <2>4, <2>5 DEF PlaceInv, EndInv
<1>4. ASSUME host \in {"length", "imagesum", "com"}
      PROVE  toHost = <<>> /\ Len(toChip) = 1 /\ toChip' = <<>> /\ Len(toHost) = 0
  BY <1>0, <1>1, <1>4, NoneLeft DEF PlaceInv, ImageInv, Sent, Idle, Told
<1>5. \A t \in Message : toHost = <<>> /\ toHost' = toHost \o <<t>> => Len(toHost') = 1 /\ toHost'[1] = t
  BY <1>0, Added
<1>6. \A b \in Byte : Plain(b) \in Message /\ Plain(b).kind = b
  BY PlainTyped DEF Plain, Msg, Kind
<1>7. CASE host = "length"
  <2>1. /\ m.kind \in {"length", "damaged", "x"} /\ chip \in {"progidle", "off"}
    BY <1>0, <1>1, <1>4, <1>7 DEF PlaceInv, ImageInv, Sent, Idle, Told
  <2>2. /\ flash' = flash /\ buffer' = buffer /\ loader' = loader
        /\ \/ chip' = "image" /\ chip = "progidle" /\ Say(<<Plain("PACK")>>)
           \/ chip' = "progidle" /\ chip = "progidle" /\ (Say(<<Plain("PNAK")>>) \/ toHost' = toHost)
           \/ chip' = "off" /\ toHost' = toHost
    <3>1. CASE chip = "progidle"
      BY <1>0, <2>1, <3>1 DEF RomReceive, ProgReceive, Become, ram
    <3>2. CASE chip = "off"
      BY <1>0, <3>2 DEF RomReceive, ProgReceive, Become, ram
    <3>. QED  BY <2>1, <3>1, <3>2
  <2>3. {"PACK", "PNAK"} \subseteq Byte
    BY DEF Byte, Signal
  <2>4. ImageInv'
    <3>1. CASE Say(<<Plain("PACK")>>) /\ chip' = "image"
      BY <1>0, <1>4, <1>5, <1>6, <1>7, <2>3, <3>1 DEF Say, ImageInv, Told
    <3>2. CASE Say(<<Plain("PNAK")>>) /\ chip' = "progidle"
      BY <1>0, <1>4, <1>5, <1>6, <1>7, <2>3, <3>2 DEF Say, ImageInv, Told
    <3>3. CASE toHost' = toHost /\ chip' \in {"progidle", "off"}
      BY <1>0, <1>4, <1>7, <3>3 DEF ImageInv, Idle
    <3>. QED  BY <2>2, <3>1, <3>2, <3>3
  <2>5. ChecksumFits'
    BY <2>1, <2>2 DEF ChecksumFits, Loaded
  <2>. QED  BY <1>0, <1>2, <1>7, <2>4, <2>5 DEF PlaceInv, LoadedInv, EndInv
<1>8. CASE host = "imagesum"
  <2>1. m.kind = "image" /\ chip \in {"image", "off"}
    BY <1>0, <1>1, <1>4, <1>8 DEF PlaceInv, ImageInv, Sent, Idle, Told
  <2>2. m.load \in Received /\ m.load \in Load /\ ImageSum \in Byte
    BY <1>1, <2>1, UartToolsAssumption DEF Sendable, Message
  <2>3. CASE chip = "image"
    <3>1. /\ buffer' = m.load /\ chip' = "confirm" /\ loader' = loader /\ flash' = flash
          /\ \E b \in Sums(m.load, ImageSum) : Say(<<Plain(b)>>)
      BY <1>0, <2>3 DEF RomReceive, ProgReceive
    <3>2. PICK b \in Sums(m.load, ImageSum) : toHost' = toHost \o <<Plain(b)>>
      BY <3>1 DEF Say
    <3>3. b \in Byte /\ (b = ImageSum => m.load \in Fitting)
      BY <2>2, <3>2, BytesArePlain DEF Sums, Received, Fitting
    <3>4. Len(toHost') = 1 /\ toHost'[1].kind = b
      BY <1>4, <1>5, <1>6, <1>8, <3>2, <3>3
    <3>5. ImageInv'
      BY <1>0, <1>4, <1>8, <3>1, <3>3, <3>4 DEF ImageInv, Told
    <3>6. ChecksumFits'
      BY <2>3, <3>1 DEF ChecksumFits, Loaded
    <3>. QED  BY <1>0, <1>2, <1>8, <3>5, <3>6 DEF PlaceInv, LoadedInv, EndInv
  <2>4. CASE chip = "off"
    <3>1. chip' = "off" /\ toHost' = toHost /\ flash' = flash
      BY <1>0, <2>4 DEF RomReceive, ProgReceive, Become
    <3>2. ImageInv'
      BY <1>0, <1>4, <1>8, <3>1 DEF ImageInv, Idle
    <3>. QED
      BY <1>0, <1>2, <1>8, <3>1, <3>2 DEF PlaceInv, LoadedInv, EndInv, ChecksumFits, Loaded
  <2>. QED  BY <2>1, <2>3, <2>4
<1>9. CASE host = "com"
  <2>1. m.kind \in {"pack", "x"} /\ chip \in {"confirm", "off"} /\ buffer \in Fitting
    BY <1>0, <1>1, <1>4, <1>9 DEF PlaceInv, ImageInv, Sent, Idle, Told
  <2>2. /\ chip' \in {"erase", "progidle", "off"} /\ toHost' = toHost
        /\ loader' = loader /\ buffer' = buffer /\ (chip = "off" => chip' = "off")
        /\ flash' = flash \/ flash' = "erased"
    BY <1>0, <2>1 DEF RomReceive, ProgReceive, Become, ram
  <2>3. ImageInv'
    BY <1>0, <1>4, <1>9, <2>1, <2>2 DEF ImageInv, Idle
  <2>4. ChecksumFits'
    BY <2>1, <2>2 DEF ChecksumFits, Loaded, Fitting
  <2>. QED  BY <1>0, <1>2, <1>9, <2>3, <2>4 DEF PlaceInv, LoadedInv, EndInv
<1>10. CASE host = "failed"
  <2>1. IsHeader(m) /\ \A i \in 1..Len(toChip') : IsHeader(toChip'[i])
    <3>1. \A i \in 1..Len(toChip) : IsHeader(toChip[i])
      BY <1>10 DEF PlaceInv, EndInv
    <3>2. 1 \in 1..Len(toChip)
      BY <1>1
    <3>. QED  BY <1>1, <3>1, <3>2 DEF IsHeader
  <2>2. /\ chip' \in Loaded => chip \in Loaded /\ chip # "erase"
        /\ chip' # "erase" /\ flash' = flash /\ loader' = loader
    <3>1. m.kind \in {"header", "damaged", "x"}
      BY <2>1 DEF IsHeader
    <3>2. CASE RomReceive(m)
      BY <3>1, <3>2 DEF RomReceive, Become, Loaded, ram
    <3>3. CASE ProgReceive(m)
      BY <3>1, <3>3 DEF ProgReceive, Become, Loaded, ram
    <3>. QED  BY <1>0, <3>2, <3>3
  <2>3. ChecksumFits'
    BY <2>2 DEF ChecksumFits
  <2>. QED
    BY <1>0, <1>2, <1>10, <2>1, <2>3 DEF PlaceInv, LoadedInv, ImageInv, EndInv, IsHeader
<1>11. CASE host = "done"
  BY <1>0, <1>11 DEF PlaceInv, EndInv
<1>12. host \in {"progstx", "magic", "data", "tail", "length", "imagesum", "com", "failed", "done"}
  BY DEF ToolTyped, Waiting, RomPhase
<1>. QED  BY <1>3, <1>7, <1>8, <1>9, <1>10, <1>11, <1>12

LEMMA ProgStartPlaces ==
    ASSUME LineInv, PlaceInv, ProgStart
    PROVE  PlaceInv'
<1>0. /\ UNCHANGED <<task, host, fast, toChip, loader, buffer, flash>>
      /\ chip = "progstart" /\ chip' = "progidle" /\ task = "flash"
      /\ toHost \in Seq(Message) /\ toHost' = toHost \o <<Plain("PSTX")>>
  BY DEF ProgStart, Say, LineInv, LineTyped, TaskInv, tool, ram
<1>1. Plain("PSTX") \in Message /\ Plain("PSTX").kind = "PSTX"
  BY PlainTyped DEF Plain, Msg, Kind, Byte, Signal
<1>2. /\ Len(toHost) \in Nat /\ Len(toHost') = Len(toHost) + 1
      /\ toHost'[Len(toHost) + 1] = Plain("PSTX")
      /\ \A k \in 1..Len(toHost) : toHost'[k] = toHost[k]
  BY <1>0, <1>1, SaidAfter
<1>3. host \notin RomPhase \cup {"length", "imagesum", "com", "done"}
  BY <1>0 DEF PlaceInv, RomInv, ImageInv, EndInv
<1>4. ASSUME host = "progstx", NEW j \in 1..Len(toHost')
      PROVE  toHost'[j].kind \in {"STX", "x"} \/ (toHost'[j].kind = "PSTX" /\ j = Len(toHost'))
  <2>1. \A i \in 1..Len(toHost) : toHost[i].kind \in {"STX", "x"}
    BY <1>0, <1>4 DEF PlaceInv, ImageInv
  <2>2. j \in 1..Len(toHost) \/ j = Len(toHost) + 1
    BY <1>2
  <2>. QED  BY <1>1, <1>2, <2>1, <2>2
<1>5. LoadedInv'
  BY <1>0 DEF PlaceInv, LoadedInv
<1>6. ImageInv'
  BY <1>0, <1>3, <1>4 DEF ImageInv
<1>. QED  BY <1>0, <1>3, <1>5, <1>6 DEF PlaceInv, RomInv, EndInv, IsHeader

LEMMA ProgramPlaces ==
    ASSUME LineInv, PlaceInv, ChecksumFits, Program
    PROVE  PlaceInv' /\ ChecksumFits'
<1>0. /\ UNCHANGED <<task, host, fast, toChip, loader, buffer>>
      /\ chip = "erase" /\ chip' = "off" /\ task = "flash" /\ flash' \in {buffer, "faulty"}
      /\ buffer \in Fitting
      /\ toHost \in Seq(Message) /\ toHost' = toHost \o <<Plain("COM")>>
  BY DEF Program, Say, LineInv, LineTyped, TaskInv, ChecksumFits, Fitting, tool, ram
<1>1. Plain("COM") \in Message
  BY PlainTyped DEF Kind, Byte, Signal
<1>2. host \notin RomPhase \cup {"progstx", "magic", "data", "tail", "length", "imagesum", "done"}
  BY <1>0 DEF PlaceInv, RomInv, LoadedInv, ImageInv, EndInv
<1>3. ASSUME host = "com" PROVE toChip = <<>> /\ Len(toHost') = 1
  <2>1. toHost = <<>> /\ toChip = <<>>
    BY <1>0, <1>3 DEF PlaceInv, ImageInv, Sent, Idle, Told
  <2>2. Len(toHost) = 0 /\ Len(toHost') = Len(toHost) + 1
    BY <1>0, <1>1, <2>1, Added
  <2>. QED  BY <2>1, <2>2
<1>5. Written'
  BY <1>0 DEF Written, Fitting
<1>4. ImageInv'
  BY <1>0, <1>2, <1>3, <1>5 DEF ImageInv, Told
<1>. QED
  BY <1>0, <1>2, <1>4 DEF PlaceInv, RomInv, LoadedInv, EndInv, IsHeader, ChecksumFits, Loaded, Fitting

LEMMA SendDumpPlaces ==
    ASSUME LineInv, PlaceInv, SendDump
    PROVE  PlaceInv'
<1>0. /\ UNCHANGED <<task, host, fast, toChip, loader, buffer, flash>>
      /\ chip = "dump" /\ chip' = "off" /\ task = "dump"
      /\ host \notin {"progstx", "length", "imagesum", "com"}
  BY DEF SendDump, LineInv, TaskInv, tool, ram
<1>1. host \notin RomPhase
  BY <1>0 DEF PlaceInv, RomInv
<1>. QED  BY <1>0, <1>1 DEF PlaceInv, RomInv, LoadedInv, ImageInv, EndInv, IsHeader

LEMMA RomTimeoutPlaces ==
    ASSUME LineInv, PlaceInv, RomTimeout
    PROVE  PlaceInv'
<1>0. /\ UNCHANGED <<task, host, fast, toHost, toChip, loader, buffer, flash>>
      /\ chip \in {"body", "romack"} /\ chip' = "rom" /\ toChip = <<>>
      /\ toHost = <<>> \/ (host = "failed" /\ Len(toChip) = 0)
      /\ toHost = <<>> => Len(toHost) = 0
  BY DEF RomTimeout, tool, ram
<1>1. host \notin {"length", "imagesum", "com"}
  BY <1>0 DEF PlaceInv, ImageInv
<1>2. RomInv'
  BY <1>0 DEF PlaceInv, RomInv, RomPhase, IsHeader
<1>. QED  BY <1>0, <1>1, <1>2 DEF PlaceInv, LoadedInv, ImageInv, EndInv, IsHeader

LEMMA PowerLossPlaces ==
    ASSUME LineInv, PlaceInv, PowerLoss
    PROVE  PlaceInv'
<1>0. /\ UNCHANGED <<task, host, fast, toHost, loader, buffer, flash>>
      /\ chip # "off" /\ chip' = "off" /\ toChip' = <<>> /\ Len(toChip') = 0
  BY DEF PowerLoss, tool, ram
<1>1. RomInv'
  BY <1>0 DEF PlaceInv, RomInv, Answered
<1>2. ImageInv'
  BY <1>0 DEF PlaceInv, ImageInv, Sent, Idle, Told
<1>. QED  BY <1>0, <1>1, <1>2 DEF PlaceInv, LoadedInv, EndInv

LEMMA BeginPlaces ==
    ASSUME NEW t \in {"flash", "dump"}, Begin(t)
    PROVE  PlaceInv'
<1>1. /\ host' = "stx" /\ ~fast' /\ toHost' = <<>> /\ toChip' = <<>> /\ chip' = "rom"
      /\ Len(toHost') = 0 /\ Len(toChip') = 0
  BY DEF Begin
<1>. QED  BY <1>1 DEF PlaceInv, RomInv, LoadedInv, ImageInv, EndInv

\* A message to the host is lost: what comes after it can only be nearer.
LEMMA HostLossPlaces ==
    ASSUME LineInv, PlaceInv, toHost # <<>>, toHost' = Tail(toHost),
           UNCHANGED <<task, tool, toChip, chip, ram, flash>>
    PROVE  PlaceInv'
<1>0. /\ toHost \in Seq(Message)
      /\ UNCHANGED <<task, host, fast, toChip, chip, loader, buffer, flash>>
      /\ Len(toHost) \in Int /\ Len(toHost') = Len(toHost) - 1 /\ Len(toHost') \in Int
      /\ Len(toHost) = 1 => toHost' = <<>>
      /\ \A i \in 1..Len(toHost') : i + 1 \in 1..Len(toHost) /\ toHost'[i] = toHost[i + 1]
  BY Taken DEF LineInv, LineTyped, tool, ram
<1>1. RomInv'
  <2>1. SUFFICES ASSUME host \in RomPhase PROVE RomInv'
    BY <1>0 DEF RomInv
  <2>2. RomInv
    BY DEF PlaceInv
  <2>3. \A k \in 1..Len(toHost') :
              /\ k + 1 \in 1..Len(toHost) /\ toHost'[k] = toHost[k + 1]
              /\ IsAnswer(k)' => Answered(k + 1)
    BY <1>0, <2>1, <2>2, ReadShift
  <2>4. \A k \in 1..Len(toHost') : toHost'[k].kind = LoaderSum =>
              /\ chip' = "romack" => loader' \in Fitting
              /\ \A j \in k+1..Len(toHost') : toHost'[j].kind \in {"STX", "x"}
    BY <1>0, <2>1, <2>2, ReadShift
  <2>5. ASSUME NEW k \in 1..Len(toHost'), IsAnswer(k)' PROVE Answered(k)'
    <3>1. Answered(k + 1) /\ k \in Nat /\ k <= Len(toHost')
      BY <2>3, <2>5
    <3>2. CASE chip = "off"
      BY <1>0, <3>2 DEF Answered
    <3>3. CASE chip = "romack" /\ toChip = <<>> /\ host = "checksum" /\ StxUpTo(k + 1, 2)
      <4>1. 1 + 1 = 2 /\ 1 \in Nat /\ \A j \in Int : j <= 1 => j <= 2
        OBVIOUS
      <4>2. StxUpTo(k, 1)'
        BY <1>0, <3>1, <3>3, <4>1, StxShift
      <4>3. StxUpTo(k, 2)'
        BY <4>1, <4>2 DEF StxUpTo
      <4>. QED  BY <1>0, <3>3, <4>3 DEF Answered
    <3>4. CASE chip = "romack" /\ toChip = <<>> /\ host = "stx" /\ StxUpTo(k + 1, 1)
      <4>1. 0 + 1 = 1 /\ 0 \in Nat /\ \A j \in Int : j <= 0 => j <= 1
        OBVIOUS
      <4>2. StxUpTo(k, 0)'
        BY <1>0, <3>1, <3>4, <4>1, StxShift
      <4>3. StxUpTo(k, 1)'
        BY <4>1, <4>2 DEF StxUpTo
      <4>. QED  BY <1>0, <3>4, <4>3 DEF Answered
    <3>5. CASE StxUpTo(k + 1, 0) /\ chip \in {"rom", "romack"}
               /\ \A i \in 1..Len(toChip) : IsHeader(toChip[i]) => i = 1 /\ chip = "romack"
      <4>1. StxUpTo(k, 0)'
        BY <1>0, <3>1, <3>5, StxShiftZero
      <4>. QED  BY <1>0, <3>5, <4>1 DEF Answered, IsHeader
    <3>. QED  BY <3>1, <3>2, <3>3, <3>4, <3>5 DEF Answered
  <2>. QED  BY <1>0, <2>1, <2>2, <2>4, <2>5 DEF RomInv, IsHeader
<1>2. LoadedInv' /\ EndInv'
  BY <1>0 DEF PlaceInv, LoadedInv, EndInv, IsHeader, Written
<1>3. ASSUME host = "progstx", NEW j \in 1..Len(toHost')
      PROVE  \/ toHost'[j].kind \in {"STX", "x"}
             \/ toHost'[j].kind = "PSTX" /\ j = Len(toHost') /\ chip \in {"progidle", "off"}
  <2>1. j + 1 \in 1..Len(toHost) /\ toHost'[j] = toHost[j + 1]
    BY <1>0
  <2>2. \A p, q \in Int : p = q - 1 => (j + 1 = q => j = p)
    OBVIOUS
  <2>. QED  BY <1>0, <1>3, <2>1, <2>2 DEF PlaceInv, ImageInv
<1>4. ASSUME host \in {"length", "imagesum", "com"}
      PROVE  toHost' = <<>> /\ Told
  BY <1>0, <1>4 DEF PlaceInv, ImageInv, Sent, Idle, Told
<1>5. ImageInv'
  BY <1>0, <1>3, <1>4 DEF PlaceInv, ImageInv, Sent, Idle, Told
<1>. QED  BY <1>1, <1>2, <1>5 DEF PlaceInv

\* A message to the host is damaged: it is read as nothing that would be believed.
LEMMA HostDamagePlaces ==
    ASSUME SumsDistinct, LineInv, PlaceInv, toHost # <<>>,
           NEW d \in Damaged(Head(toHost)), toHost' = <<d>> \o Tail(toHost),
           UNCHANGED <<task, tool, toChip, chip, ram, flash>>
    PROVE  PlaceInv'
<1>0. /\ toHost \in Seq(Message)
      /\ UNCHANGED <<task, host, fast, toChip, chip, loader, buffer, flash>>
      /\ Head(toHost) = toHost[1] /\ toHost[1] \in Message
  BY Taken DEF LineInv, LineTyped, tool, ram
<1>1. d \in Message
  BY <1>0, DamagedTyped
<1>2. /\ Len(toHost') = Len(toHost) /\ Len(toHost) \in Nat /\ Len(toHost) >= 1 /\ toHost'[1] = d
      /\ \A i \in 2..Len(toHost) : toHost'[i] = toHost[i]
  BY <1>0, <1>1, HeadDamaged
<1>3. /\ d.kind \in {"loader", "image", "damaged", "data", "x"}
      /\ toHost[1].kind \in {"STX", "x", "PSTX"} => d.kind = "x"
  BY <1>0 DEF Damaged, Plain, Msg
<1>4. d.kind \notin {"STX", LoaderSum, ImageSum, "PACK", "COM"}
  BY <1>3, UartToolsAssumption DEF SumsDistinct, Byte, Signal, Other
<1>5. RomInv'
  <2>1. SUFFICES ASSUME host \in RomPhase PROVE RomInv'
    BY <1>0 DEF RomInv
  <2>2. RomInv
    BY DEF PlaceInv
  <2>3. ASSUME NEW k \in 1..Len(toHost'), IsAnswer(k)' PROVE k \in 2..Len(toHost) /\ IsAnswer(k)
    <3>1. k # 1
      BY <1>2, <1>4, <2>3 DEF IsAnswer
    <3>2. k \in 2..Len(toHost)
      BY <1>2, <3>1
    <3>. QED  BY <1>2, <2>3, <3>2 DEF IsAnswer
  <2>4. ASSUME NEW k \in 1..Len(toHost'), NEW n \in Nat, StxUpTo(k, n) PROVE StxUpTo(k, n)'
    <3>1. SUFFICES ASSUME NEW j \in 1..k-1, toHost'[j].kind = "STX" PROVE j <= n
      BY DEF StxUpTo
    <3>2. j # 1
      BY <1>2, <1>4, <3>1
    <3>3. j \in 2..Len(toHost)
      BY <1>2, <3>2
    <3>. QED  BY <1>2, <2>4, <3>1, <3>3 DEF StxUpTo
  <2>5. ASSUME NEW k \in 1..Len(toHost'), IsAnswer(k)' PROVE Answered(k)'
    <3>1. Answered(k)
      BY <1>2, <2>1, <2>2, <2>3, <2>5 DEF RomInv
    <3>2. \A n \in {0, 1, 2} : StxUpTo(k, n) => StxUpTo(k, n)'
      BY <2>4
    <3>. QED  BY <1>0, <3>1, <3>2 DEF Answered, IsHeader
  <2>6. ASSUME NEW k \in 1..Len(toHost'), toHost'[k].kind = LoaderSum
        PROVE  /\ chip' = "romack" => loader' \in Fitting
               /\ \A j \in k+1..Len(toHost') : toHost'[j].kind \in {"STX", "x"}
    <3>1. k \in 2..Len(toHost) /\ k \in 1..Len(toHost) /\ toHost[k].kind = LoaderSum
      BY <1>2, <2>3, <2>6 DEF IsAnswer
    <3>2. ASSUME NEW j \in k+1..Len(toHost') PROVE toHost'[j].kind \in {"STX", "x"}
      <4>1. j \in 2..Len(toHost) /\ j \in k+1..Len(toHost)
        BY <1>2, <3>1
      <4>. QED  BY <1>2, <2>1, <2>2, <3>1, <4>1 DEF RomInv
    <3>. QED  BY <1>0, <2>1, <2>2, <3>1, <3>2 DEF RomInv
  <2>. QED  BY <1>0, <2>1, <2>2, <2>5, <2>6 DEF RomInv, IsHeader
<1>6. LoadedInv' /\ EndInv'
  BY <1>0 DEF PlaceInv, LoadedInv, EndInv, IsHeader, Written
<1>7. ASSUME host = "progstx", NEW j \in 1..Len(toHost')
      PROVE  \/ toHost'[j].kind \in {"STX", "x"}
             \/ toHost'[j].kind = "PSTX" /\ j = Len(toHost') /\ chip \in {"progidle", "off"}
  <2>1. j \in 1..Len(toHost) /\ 1 \in 1..Len(toHost)
    BY <1>2
  <2>2. CASE j = 1
    <3>1. toHost[1].kind \in {"STX", "x", "PSTX"}
      BY <1>7, <2>1 DEF PlaceInv, ImageInv
    <3>. QED  BY <1>2, <1>3, <2>2, <3>1
  <2>3. CASE j # 1
    <3>1. j \in 2..Len(toHost)
      BY <2>1, <2>3
    <3>. QED  BY <1>2, <1>7, <2>1, <3>1 DEF PlaceInv, ImageInv
  <2>. QED  BY <2>2, <2>3
<1>8. ASSUME host \in {"length", "imagesum", "com"}
      PROVE  Told /\ Told' /\ toHost'[1].kind \notin {"PACK", "COM", ImageSum}
  <2>1. Told
    BY <1>2, <1>8 DEF PlaceInv, ImageInv, Sent, Idle, Told
  <2>. QED  BY <1>0, <1>2, <1>4, <2>1 DEF Told
<1>9. ImageInv'
  <2>1. CASE host = "progstx"
    BY <1>0, <1>7, <2>1 DEF ImageInv
  <2>2. CASE host \in {"length", "imagesum", "com"}
    <3>1. /\ host = "length" => chip \in {"progidle", "image", "off"}
          /\ host = "imagesum" => chip \in {"confirm", "off"}
          /\ host = "com" => chip = "off" /\ buffer \in Fitting
      BY <1>2, <1>8, <2>2 DEF PlaceInv, ImageInv, Sent, Idle, Told
    <3>. QED  BY <1>0, <1>8, <2>2, <3>1 DEF ImageInv
  <2>. QED  BY <1>0, <2>1, <2>2 DEF ImageInv
<1>. QED  BY <1>5, <1>6, <1>9 DEF PlaceInv

\* A message to the chip is lost or damaged.
LEMMA ChipFaultPlaces ==
    ASSUME LineInv, ChipTyped, PlaceInv, toChip # <<>>,
           toChip' = Tail(toChip) \/ \E d \in Damaged(Head(toChip)) : toChip' = <<d>> \o Tail(toChip),
           UNCHANGED <<task, tool, toHost, chip, ram, flash>>
    PROVE  PlaceInv'
<1>0. /\ toChip \in Seq(Sendable) /\ toChip \in Seq(Message)
      /\ UNCHANGED <<task, host, fast, toHost, chip, loader, buffer, flash>>
      /\ Head(toChip) = toChip[1] /\ toChip[1] \in Message
      /\ Len(toChip) \in Nat /\ Len(toChip) >= 1 /\ 1 \in 1..Len(toChip)
  BY Taken DEF ChipTyped, LineInv, LineTyped, tool, ram
\* A header that is left was one, and is where it was or nearer.
<1>1. \/ /\ Len(toChip') = Len(toChip) - 1
         /\ \A i \in 1..Len(toChip') : /\ i + 1 \in 1..Len(toChip) /\ i + 1 # 1
                                       /\ toChip'[i] = toChip[i + 1]
                                       /\ i + 1 = Len(toChip) => i = Len(toChip')
         /\ Len(toChip) = 1 => toChip' = <<>>
      \/ /\ Len(toChip') = Len(toChip)
         /\ \E d \in Damaged(toChip[1]) : toChip'[1] = d
         /\ \A i \in 2..Len(toChip) : toChip'[i] = toChip[i]
  <2>1. CASE toChip' = Tail(toChip)
    BY <1>0, <2>1, RestShift
  <2>2. CASE \E d \in Damaged(Head(toChip)) : toChip' = <<d>> \o Tail(toChip)
    <3>1. PICK d \in Damaged(toChip[1]) : toChip' = <<d>> \o Tail(toChip)
      BY <1>0, <2>2
    <3>2. d \in Message
      BY <1>0, <3>1, DamagedTyped
    <3>. QED  BY <1>0, <3>1, <3>2, HeadDamaged
  <2>. QED  BY <2>1, <2>2
<1>2. \A m \in Message : \A d \in Damaged(m) :
         /\ IsHeader(m) => IsHeader(d)
         /\ m.kind \in {"loader", "image"} => d.kind = m.kind
         /\ m.kind \in {"ack", "pack"} => d.kind = "x"
         /\ m.kind \in {"length", "damaged", "x"} => d.kind \in {"damaged", "x"}
         /\ m.kind = "loader" => ~IsHeader(d)
  BY DEF Damaged, Plain, Msg, IsHeader
<1>3. RomInv'
  <2>1. SUFFICES ASSUME host \in RomPhase PROVE RomInv'
    BY <1>0 DEF RomInv
  <2>2. RomInv
    BY DEF PlaceInv
  <2>3. \A i \in 1..Len(toChip) : \/ IsHeader(toChip[i])
                                  \/ host = "checksum" /\ i = Len(toChip) /\ toChip[i].kind = "loader"
    BY <2>1, <2>2 DEF RomInv
  <2>4. ASSUME NEW i \in 1..Len(toChip')
        PROVE  \/ IsHeader(toChip'[i])
               \/ host = "checksum" /\ i = Len(toChip') /\ toChip'[i].kind = "loader"
    <3>1. CASE Len(toChip') = Len(toChip) - 1
      BY <1>0, <1>1, <2>3, <3>1 DEF IsHeader
    <3>2. CASE Len(toChip') = Len(toChip) /\ i = 1
      BY <1>0, <1>1, <1>2, <2>3, <3>2
    <3>3. CASE Len(toChip') = Len(toChip) /\ i # 1
      <4>1. i \in 2..Len(toChip) /\ i \in 1..Len(toChip) /\ toChip'[i] = toChip[i]
        BY <1>0, <1>1, <3>3
      <4>. QED  BY <2>3, <3>3, <4>1 DEF IsHeader
    <3>. QED  BY <1>1, <3>1, <3>2, <3>3
  <2>5. ASSUME \A i \in 1..Len(toChip) : IsHeader(toChip[i]) => i = 1 /\ chip = "romack",
               NEW i \in 1..Len(toChip'), IsHeader(toChip'[i])
        PROVE  i = 1 /\ chip = "romack"
    <3>1. CASE Len(toChip') = Len(toChip) - 1
      BY <1>0, <1>1, <2>5, <3>1 DEF IsHeader
    <3>2. CASE Len(toChip') = Len(toChip) /\ i = 1
      <4>1. IsHeader(toChip[1]) \/ toChip[1].kind = "loader"
        BY <1>0, <2>3
      <4>. QED  BY <1>0, <1>1, <1>2, <2>5, <3>2, <4>1
    <3>3. CASE Len(toChip') = Len(toChip) /\ i # 1
      <4>1. i \in 2..Len(toChip) /\ i \in 1..Len(toChip) /\ toChip'[i] = toChip[i]
        BY <1>0, <1>1, <3>3
      <4>. QED  BY <2>5, <4>1 DEF IsHeader
    <3>. QED  BY <1>1, <3>1, <3>2, <3>3
  <2>6. ASSUME NEW k \in 1..Len(toHost'), IsAnswer(k)' PROVE Answered(k)'
    <3>1. Answered(k)
      BY <1>0, <2>1, <2>2, <2>6 DEF RomInv, IsAnswer
    <3>2. StxUpTo(k, 0)' <=> StxUpTo(k, 0)
      BY <1>0 DEF StxUpTo
    <3>3. CASE chip = "off"
      BY <1>0, <3>3 DEF Answered
    <3>4. CASE /\ chip \in {"rom", "romack"} /\ StxUpTo(k, 0)
               /\ \A i \in 1..Len(toChip) : IsHeader(toChip[i]) => i = 1 /\ chip = "romack"
      <4>1. \A i \in 1..Len(toChip') : IsHeader(toChip'[i]) => i = 1 /\ chip = "romack"
        BY <2>5, <3>4
      <4>. QED  BY <1>0, <3>2, <3>4, <4>1 DEF Answered, IsHeader
    <3>. QED  BY <3>1, <3>3, <3>4 DEF Answered
  <2>7. \A i \in 1..Len(toChip') : \/ IsHeader(toChip'[i])
                                   \/ host = "checksum" /\ i = Len(toChip') /\ toChip'[i].kind = "loader"
    BY <2>4
  <2>. QED  BY <1>0, <2>1, <2>2, <2>6, <2>7 DEF RomInv, IsHeader
<1>4. ASSUME Len(toChip) = 1
      PROVE  toChip' = <<>> \/ (Len(toChip') = 1 /\ \E d \in Damaged(toChip[1]) : toChip'[1] = d)
  BY <1>0, <1>1, <1>4
<1>5. LoadedInv'
  <2>1. SUFFICES ASSUME host \in {"progstx", "magic", "data", "tail"} PROVE LoadedInv'
    BY <1>0 DEF LoadedInv
  <2>2. /\ Len(toChip) = 1 /\ toChip[1].kind \in {"ack", "x"} /\ chip \in {"rom", "romack", "off"}
        /\ fast /\ (chip = "romack" => loader \in Fitting)
    BY <2>1 DEF PlaceInv, LoadedInv
  <2>3. \A d \in Damaged(toChip[1]) : d.kind = "x"
    BY <2>2 DEF Damaged, Plain, Msg
  <2>. QED  BY <1>0, <1>4, <2>1, <2>2, <2>3 DEF LoadedInv
<1>6. ImageInv'
  <2>1. CASE host = "progstx"
    BY <1>0, <2>1 DEF PlaceInv, ImageInv
  <2>2. CASE host = "length"
    <3>1. Sent({"length", "damaged", "x"}) /\ chip \in {"progidle", "off"}
      BY <1>0, <2>2 DEF PlaceInv, ImageInv, Idle, Told
    <3>. QED  BY <1>0, <1>2, <1>4, <2>2, <3>1 DEF ImageInv, Sent, Idle
  <2>3. CASE host = "imagesum"
    <3>1. Sent({"image"}) /\ chip \in {"image", "off"}
      BY <1>0, <2>3 DEF PlaceInv, ImageInv, Idle, Told
    <3>. QED  BY <1>0, <1>2, <1>4, <2>3, <3>1 DEF ImageInv, Sent, Idle
  <2>4. CASE host = "com"
    <3>1. Sent({"pack", "x"}) /\ chip \in {"confirm", "off"} /\ buffer \in Fitting
      BY <1>0, <2>4 DEF PlaceInv, ImageInv, Idle, Told
    <3>2. \A d \in Damaged(toChip[1]) : d.kind = "x"
      BY <3>1 DEF Sent, Damaged, Plain, Msg
    <3>. QED  BY <1>0, <1>4, <2>4, <3>1, <3>2 DEF ImageInv, Sent, Idle
  <2>. QED  BY <1>0, <2>1, <2>2, <2>3, <2>4 DEF ImageInv
<1>7. EndInv'
  <2>1. host # "done"
    BY <1>0 DEF PlaceInv, EndInv
  <2>2. ASSUME host = "failed", NEW i \in 1..Len(toChip') PROVE IsHeader(toChip'[i])
    <3>0. \A j \in 1..Len(toChip) : IsHeader(toChip[j])
      BY <2>2 DEF PlaceInv, EndInv
    <3>1. CASE Len(toChip') = Len(toChip) - 1
      BY <1>0, <1>1, <3>0, <3>1 DEF IsHeader
    <3>2. CASE Len(toChip') = Len(toChip) /\ i = 1
      BY <1>0, <1>1, <1>2, <3>0, <3>2
    <3>3. CASE Len(toChip') = Len(toChip) /\ i # 1
      <4>1. i \in 2..Len(toChip) /\ i \in 1..Len(toChip) /\ toChip'[i] = toChip[i]
        BY <1>0, <1>1, <3>3
      <4>. QED  BY <3>0, <4>1 DEF IsHeader
    <3>. QED  BY <1>1, <3>1, <3>2, <3>3
  <2>. QED  BY <1>0, <2>1, <2>2 DEF EndInv, IsHeader
<1>. QED  BY <1>3, <1>5, <1>6, <1>7 DEF PlaceInv

\* One step of a tool, the chip or the line.
BenchInv == LineInv /\ ToolTyped /\ ChipTyped /\ PlaceInv /\ ChecksumFits

LEMMA DisturbPlaces ==
    ASSUME SumsDistinct, LineInv, ChipTyped, PlaceInv, Disturb
    PROVE  PlaceInv'
<1>0. UNCHANGED <<task, tool, chip, ram, flash>>
  BY DEF Disturb
<1>1. CASE toHost # <<>> /\ UNCHANGED toChip /\ toHost' = Tail(toHost)
  BY <1>0, <1>1, HostLossPlaces
<1>2. CASE /\ toHost # <<>> /\ UNCHANGED toChip
           /\ \E m \in Damaged(Head(toHost)) : toHost' = <<m>> \o Tail(toHost)
  BY <1>0, <1>2, HostDamagePlaces
<1>3. CASE /\ toChip # <<>> /\ UNCHANGED toHost
           /\ \/ toChip' = Tail(toChip)
              \/ \E m \in Damaged(Head(toChip)) : toChip' = <<m>> \o Tail(toChip)
  BY <1>0, <1>3, ChipFaultPlaces
<1>. QED  BY <1>1, <1>2, <1>3 DEF Disturb

\* No step but those of the chip itself bring the chip to run a loader or to erase, or
\* change what its memories hold.
LEMMA SumsKept ==
    ASSUME ChecksumFits, UNCHANGED <<ram, flash>>, chip' = chip \/ chip' \in {"off", "rom"}
    PROVE  ChecksumFits'
  BY DEF ChecksumFits, ram, Loaded

LEMMA PlaceStep ==
    ASSUME SumsDistinct, BenchInv, UartNext
    PROVE  PlaceInv' /\ ChecksumFits'
<1>. USE DEF BenchInv
<1>1. CASE Read
  <2>1. ChecksumFits'
    BY <1>1, SumsKept DEF Read
  <2>. QED  BY <1>1, <2>1, ReadPlaces
<1>2. CASE Timeout
  <2>1. ChecksumFits'
    BY <1>2, SumsKept DEF Timeout
  <2>. QED  BY <1>2, <2>1, TimeoutPlaces
<1>3. CASE SendStx
  <2>1. ChecksumFits'
    BY <1>3, SumsKept DEF SendStx
  <2>. QED  BY <1>3, <2>1, SendStxPlaces
<1>4. CASE Receive
  BY <1>4, RomReceivePlaces, LaterReceivePlaces
<1>5. CASE ProgStart
  <2>1. ChecksumFits'
    BY <1>5 DEF ProgStart, ChecksumFits, ram, Loaded
  <2>. QED  BY <1>5, <2>1, ProgStartPlaces
<1>6. CASE Program
  BY <1>6, ProgramPlaces
<1>7. CASE SendDump
  <2>1. ChecksumFits'
    BY <1>7, SumsKept DEF SendDump
  <2>. QED  BY <1>7, <2>1, SendDumpPlaces
<1>8. CASE RomTimeout
  <2>1. ChecksumFits'
    BY <1>8, SumsKept DEF RomTimeout
  <2>. QED  BY <1>8, <2>1, RomTimeoutPlaces
<1>9. CASE Retry \/ Interrupt
  <2>1. Begin(task) /\ task \in {"flash", "dump"}
    BY <1>9 DEF Retry, Interrupt, LineInv, TaskInv
  <2>2. ChecksumFits'
    BY <2>1 DEF Begin, ChecksumFits, Loaded
  <2>. QED  BY <2>1, <2>2, BeginPlaces
<1>10. CASE Disturb
  <2>1. ChecksumFits'
    BY <1>10, SumsKept DEF Disturb
  <2>. QED  BY <1>10, <2>1, DisturbPlaces
<1>11. CASE PowerLoss
  <2>1. ChecksumFits'
    BY <1>11, SumsKept DEF PowerLoss
  <2>. QED  BY <1>11, <2>1, PowerLossPlaces
<1>. QED
  BY <1>1, <1>2, <1>3, <1>4, <1>5, <1>6, <1>7, <1>8, <1>9, <1>10, <1>11
  DEF UartNext, ToolNext, ChipNext

-----------------------------------------------------------------------------
(* The recovery: one step of the operator *)

LEMMA InitIdentity == RecoveryInit => IdentityInv
  BY DEF RecoveryInit, Init, IdentityInv, LineInv, LineTyped, TaskInv, DumpInv, StageInv,
         Load, Content, FlashContent

\* Steps at which neither tool is at work.
LEMMA DeskStep ==
    ASSUME IdentityInv, UNCHANGED <<line, stage, kept, built>>
    PROVE  IdentityInv'
  BY DEF IdentityInv, LineInv, LineTyped, TaskInv, DumpInv, StageInv, line, tool, ram, Sound

LEMMA OperateStep ==
    ASSUME IdentityInv, Operate
    PROVE  IdentityInv'
<1>1. CASE Keep
  <2>1. UNCHANGED line
    BY <1>1 DEF Keep
  <2>2. LineInv'
    BY <2>1 DEF IdentityInv, LineInv, LineTyped, TaskInv, DumpInv, line, tool, ram, Sound
  <2>3. kept' = "old"
    BY <1>1 DEF Keep, IdentityInv, StageInv, LineInv, DumpInv
  <2>. QED  BY <1>1, <2>1, <2>2, <2>3 DEF Keep, IdentityInv, StageInv, line
<1>2. CASE MakeTree \/ Discard \/ \E s \in Sizes : Repack(s)
  BY <1>2, DeskStep DEF MakeTree, Discard, Repack
<1>3. ASSUME NEW rebuilt \in BOOLEAN, Build(rebuilt) PROVE IdentityInv'
  <2>1. LineInv' /\ task' = "flash" /\ flash' = flash
    BY <1>3, BeginStep DEF Build, IdentityInv
  <2>2. kept = "old" /\ kept' = kept /\ stage' = "write" /\ slot.size = Region
    BY <1>3 DEF Build, Fits, IdentityInv, StageInv
  <2>3. built'.identity = "own" /\ built'.fs1 \in {"own", "tree"} /\ built'.fs2 = "tree"
    BY <1>3, <2>2 DEF Build, Compose, Own
  <2>. QED  BY <2>1, <2>2, <2>3 DEF IdentityInv, StageInv
<1>4. CASE Dump
  <2>1. LineInv' /\ task' = "dump" /\ flash' = flash
    BY <1>4, BeginStep DEF Dump, IdentityInv
  <2>. QED  BY <1>4, <2>1 DEF Dump, files, IdentityInv, StageInv
<1>5. CASE Compare /\ file = "good"
  <2>1. LineInv'
    BY <1>5 DEF Compare, IdentityInv, LineInv, LineTyped, TaskInv, DumpInv, line, tool, ram, Sound
  <2>2. task = "dump" /\ flash = "good"
    BY <1>5 DEF Compare, IdentityInv, StageInv, LineInv, DumpInv
  <2>. QED  BY <1>5, <2>1, <2>2 DEF Compare, files, line, IdentityInv, StageInv
<1>6. CASE Compare /\ file # "good"
  <2>1. LineInv' /\ task' = "flash" /\ flash' = flash
    BY <1>6, BeginStep DEF Compare, IdentityInv
  <2>. QED  BY <1>6, <2>1 DEF Compare, files, IdentityInv, StageInv
<1>. QED  BY <1>1, <1>2, <1>3, <1>4, <1>5, <1>6 DEF Operate

LEMMA NextIdentity == IdentityInv /\ [Next]_vars => IdentityInv'
<1>. SUFFICES ASSUME IdentityInv, [Next]_vars PROVE IdentityInv'
  OBVIOUS
<1>1. CASE UartNext /\ UNCHANGED <<stage, files>>
  <2>1. LineInv' /\ Careful
    BY <1>1, UartStep DEF IdentityInv
  <2>. QED  BY <1>1, <2>1 DEF IdentityInv, StageInv, Careful, files
<1>2. CASE Operate
  BY <1>2, OperateStep
<1>3. CASE UNCHANGED vars
  BY <1>3, DeskStep DEF vars, files
<1>. QED  BY <1>1, <1>2, <1>3 DEF Next

-----------------------------------------------------------------------------
(* The recovery: types and checksums *)

DeskTyped ==
    /\ stage = "dump" => kept = "none"
    /\ size \in Sizes \cup {0} /\ (stage # "build" => source = <<>> /\ slot = NoSlot)
    /\ built = NoImage \/ built.firmware = "donor"

\* What each step needs of the types, and where tools and chip are.
TypeInv == IdentityInv /\ ToolTyped /\ ChipTyped /\ DeskTyped
SumInv  == PlaceInv /\ ChecksumFits

\* Either nothing on the bench changes, or a tool is started.
LEMMA OperatorsBench ==
    ASSUME Operate
    PROVE  /\ UNCHANGED line \/ \E t \in {"flash", "dump"} : Begin(t) /\ UNCHANGED faults
           /\ DeskTyped /\ StageInv => DeskTyped'
<1>1. CASE Keep
  BY <1>1 DEF Keep, DeskTyped, StageInv
<1>2. CASE MakeTree
  BY <1>2 DEF MakeTree, DeskTyped
<1>3. CASE Discard
  BY <1>3 DEF Discard, DeskTyped
<1>4. ASSUME NEW s \in Sizes, Repack(s)
      PROVE  UNCHANGED line /\ (DeskTyped => DeskTyped')
  BY <1>4 DEF Repack, DeskTyped
<1>5. ASSUME NEW rebuilt \in BOOLEAN, Build(rebuilt)
      PROVE  Begin("flash") /\ UNCHANGED faults /\ (DeskTyped => DeskTyped')
  BY <1>5 DEF Build, DeskTyped, Compose
<1>6. CASE Dump
  BY <1>6 DEF Dump, DeskTyped, files
<1>7. CASE Compare
  BY <1>7 DEF Compare, DeskTyped, files
<1>. QED  BY <1>1, <1>2, <1>3, <1>4, <1>5, <1>6, <1>7 DEF Operate

LEMMA BenchTypes ==
    ASSUME ToolTyped, ChipTyped,
           UNCHANGED line \/ \E t \in {"flash", "dump"} : Begin(t) /\ UNCHANGED faults
    PROVE  ToolTyped' /\ ChipTyped'
<1>1. CASE UNCHANGED line
  BY <1>1 DEF ToolTyped, ChipTyped, line, tool, ram
<1>2. CASE \E t \in {"flash", "dump"} : Begin(t) /\ UNCHANGED faults
  <2>1. 1 \in 1..RomAttempts /\ <<>> \in Seq(Sendable)
    BY UartToolsAssumption
  <2>2. PICK t \in {"flash", "dump"} : Begin(t) /\ UNCHANGED faults
    BY <1>2
  <2>3. ToolTyped'
    BY <2>1, <2>2 DEF Begin, ToolTyped, Waiting, RomPhase
  <2>4. ChipTyped'
    BY <2>1, <2>2 DEF Begin, ChipTyped, Content
  <2>. QED  BY <2>3, <2>4
<1>. QED  BY <1>1, <1>2

LEMMA InitTypes == RecoveryInit => TypeInv
<1>1. 1 \in 1..RomAttempts /\ 0 \in 0..MaxFaults
  BY UartToolsAssumption
<1>2. RecoveryInit => ToolTyped
  BY <1>1 DEF RecoveryInit, Init, ToolTyped, Waiting, RomPhase
<1>3. RecoveryInit => ChipTyped
  BY DEF RecoveryInit, Init, ChipTyped, Content, FlashContent, Loaded
<1>4. RecoveryInit => DeskTyped
  BY DEF RecoveryInit, DeskTyped
<1>. QED  BY <1>2, <1>3, <1>4, InitIdentity DEF TypeInv

LEMMA NextTypes == TypeInv /\ [Next]_vars => TypeInv'
<1>. SUFFICES ASSUME TypeInv, [Next]_vars PROVE TypeInv'
  OBVIOUS
<1>0. IdentityInv'
  BY NextIdentity DEF TypeInv
<1>1. CASE UartNext /\ UNCHANGED <<stage, files>>
  <2>1. ToolTyped' /\ ChipTyped'
    BY <1>1, ToolStep, ChipStep DEF TypeInv, IdentityInv
  <2>2. DeskTyped'
    BY <1>1 DEF TypeInv, DeskTyped, files
  <2>. QED  BY <1>0, <2>1, <2>2 DEF TypeInv
<1>2. CASE Operate
  BY <1>0, <1>2, OperatorsBench, BenchTypes DEF TypeInv, IdentityInv
<1>3. CASE UNCHANGED vars
  <2>1. ToolTyped' /\ ChipTyped'
    BY <1>3, BenchTypes DEF TypeInv, vars
  <2>2. DeskTyped'
    BY <1>3 DEF TypeInv, DeskTyped, vars, files
  <2>. QED  BY <1>0, <2>1, <2>2 DEF TypeInv
<1>. QED  BY <1>1, <1>2, <1>3 DEF Next

LEMMA InitSums == RecoveryInit => SumInv
<1>1. <<>> \in Seq(Message) /\ Len(<<>>) = 0
  OBVIOUS
<1>2. RecoveryInit => PlaceInv
  BY <1>1 DEF RecoveryInit, Init, PlaceInv, RomInv, LoadedInv, ImageInv, EndInv
<1>3. RecoveryInit => ChecksumFits
  BY DEF RecoveryInit, Init, ChecksumFits, Loaded
<1>. QED  BY <1>2, <1>3 DEF SumInv

LEMMA NextSums == SumsDistinct /\ TypeInv /\ SumInv /\ [Next]_vars => SumInv'
<1>. SUFFICES ASSUME SumsDistinct, TypeInv, SumInv, [Next]_vars PROVE SumInv'
  OBVIOUS
<1>1. CASE UartNext
  BY <1>1, PlaceStep DEF TypeInv, IdentityInv, SumInv, BenchInv
<1>2. CASE UNCHANGED line
  <2>1. /\ UNCHANGED <<task, host, fast, toHost, toChip, chip, loader, buffer, flash>>
    BY <1>2 DEF line, tool, ram
  <2>2. RomInv'
    BY <2>1 DEF SumInv, PlaceInv, RomInv, Answered, IsAnswer, StxUpTo
  <2>3. LoadedInv' /\ EndInv'
    BY <2>1 DEF SumInv, PlaceInv, LoadedInv, EndInv, Written
  <2>4. ImageInv'
    BY <2>1 DEF SumInv, PlaceInv, ImageInv, Sent, Idle, Told, Written
  <2>5. ChecksumFits'
    BY <2>1, SumsKept DEF SumInv, ram
  <2>. QED  BY <2>2, <2>3, <2>4, <2>5 DEF SumInv, PlaceInv
<1>3. CASE \E t \in {"flash", "dump"} : Begin(t) /\ UNCHANGED faults
  <2>1. PlaceInv'
    BY <1>3, BeginPlaces
  <2>2. ChecksumFits'
    BY <1>3 DEF SumInv, Begin, ChecksumFits, Loaded
  <2>. QED  BY <2>1, <2>2 DEF SumInv
<1>4. Next => UartNext \/ Operate
  BY DEF Next
<1>. QED  BY <1>1, <1>2, <1>3, <1>4, OperatorsBench DEF vars
-----------------------------------------------------------------------------
(* What the recursive functions of Jffs2 compute *)

\* Sequences of sequences, and how one is flattened, from one to the next.
Lists(S)  == Seq(S)
Parts(S)  == Seq(Lists(S))
Cat(r, s) == r \o s
Flattened(f, ss) == f[0] = <<>> /\ \A n \in 1..Len(ss) : f[n] = Cat(f[n - 1], ss[n])

LEMMA CatOf ==
    ASSUME NEW S, NEW r \in Lists(S), NEW s \in Lists(S)
    PROVE  /\ Cat(r, s) \in Lists(S) /\ Cat(<<>>, s) = s /\ Cat(s, <<>>) = s
           /\ \A t \in Lists(S) : Cat(r, Cat(s, t)) = Cat(Cat(r, s), t)
<1>1. \A t \in Lists(S) : r \o (s \o t) = (r \o s) \o t
  BY DEF Lists
<1>. QED  BY <1>1 DEF Cat, Lists

LEMMA FlattenOf ==
    ASSUME NEW S, NEW ss \in Parts(S)
    PROVE  \E f \in [0..Len(ss) -> Lists(S)] : Flattened(f, ss) /\ FlattenSeq(ss) = f[Len(ss)]
<1>. DEFINE m == Len(ss)
            V == Lists(S)
            step == [n \in 1..m |-> [r \in V |-> Cat(r, ss[n])]]
            Flat(g) == g = [i \in 1..m |-> IF i = 1 THEN ss[i] ELSE Cat(g[i - 1], ss[i])]
            flat == CHOOSE g : Flat(g)
<1>0. \A n \in 1..m : ss[n] \in V
  BY DEF Parts
<1>1. m \in Nat /\ <<>> \in V
  BY DEF Parts, Lists
<1>2. \A n \in 1..m, r \in V : Cat(r, ss[n]) \in V
  BY <1>0, CatOf
<1>3. \A r \in V : Cat(<<>>, r) = r
  BY CatOf
<1>4. FlattenSeq(ss) = IF m = 0 THEN ss ELSE flat[m]
  BY DEF FlattenSeq, Cat
<1>5. m = 0 => ss = <<>>
  BY DEF Parts
<1>. HIDE DEF m, V
<1>6. step \in [1..m -> [V -> V]]
  BY <1>2
<1>12. \A n \in 1..m, r \in V : step[n][r] = Cat(r, ss[n])
  BY <1>2
<1>. HIDE DEF step
<1>7. PICK f \in [0..m -> V] : f[0] = <<>> /\ \A n \in 1..m : f[n] = step[n][f[n - 1]]
  BY <1>1, <1>6, Recursion
<1>8. \A n \in 1..m : n - 1 \in 0..m /\ f[n] = Cat(f[n - 1], ss[n])
  BY <1>1, <1>12, <1>7
<1>9. Flattened(f, ss)
  BY <1>7, <1>8 DEF Flattened, m
<1>10. CASE m = 0
  BY <1>4, <1>5, <1>7, <1>9, <1>10 DEF m, V
<1>11. CASE m # 0
  <2>. DEFINE g == [i \in 1..m |-> f[i]]
              Good == {n \in 1..m : flat[n] = f[n]}
  <2>1. \A i \in 1..m : g[i] = IF i = 1 THEN ss[i] ELSE Cat(g[i - 1], ss[i])
    <3>. SUFFICES ASSUME NEW i \in 1..m PROVE g[i] = IF i = 1 THEN ss[i] ELSE Cat(g[i - 1], ss[i])
      OBVIOUS
    <3>1. CASE i = 1
      BY <1>0, <1>1, <1>3, <1>7, <1>8, <3>1
    <3>2. CASE i # 1
      <4>1. i - 1 \in 1..m /\ g[i - 1] = f[i - 1]
        BY <1>1, <3>2
      <4>. QED  BY <1>8, <3>2, <4>1
    <3>. QED  BY <3>1, <3>2
  <2>2. Flat(g)
    BY <2>1
  <2>. HIDE DEF g
  <2>3. Flat(flat)
    BY <2>2
  <2>. HIDE DEF flat
  <2>4. \A i \in 1..m : flat[i] = IF i = 1 THEN ss[i] ELSE Cat(flat[i - 1], ss[i])
    BY <2>3
  <2>5. \A n \in 0..m : n \in {0} \cup Good
    <3>1. 1 \in Good
      BY <1>0, <1>1, <1>3, <1>7, <1>8, <1>11, <2>4
    <3>2. \A n \in 1..m : n - 1 \in {0} \cup Good => n \in {0} \cup Good
      BY <1>1, <1>8, <2>4, <3>1
    <3>. HIDE DEF Good
    <3>. QED  BY <1>1, <3>2, UpTo
  <2>6. flat[m] = f[m]
    BY <1>1, <1>11, <2>5
  <2>. QED  BY <1>4, <1>9, <1>11, <2>6 DEF m, V
<1>. QED  BY <1>10, <1>11

\* Two of them agree as far as what they flatten does.
LEMMA FlattenSame ==
    ASSUME NEW ss, NEW tt, NEW f, NEW g, Flattened(f, ss), Flattened(g, tt), Len(ss) \in Nat,
           Len(tt) \in Nat, NEW k \in 0..Len(ss), k <= Len(tt), \A n \in 1..k : ss[n] = tt[n]
    PROVE  f[k] = g[k]
<1>. DEFINE Good == {n \in 0..k : f[n] = g[n]}
<1>1. 0 \in Good
  BY DEF Flattened
<1>2. \A n \in 1..k : n - 1 \in Good => n \in Good
  BY DEF Flattened
<1>3. k \in Nat
  OBVIOUS
<1>. HIDE DEF Good
<1>4. \A n \in 0..k : n \in Good
  BY <1>1, <1>2, <1>3, UpTo
<1>. QED  BY <1>3, <1>4 DEF Good

LEMMA FlattenEmpty == FlattenSeq(<<>>) = <<>>
  BY DEF FlattenSeq

\* A last part is appended.
LEMMA FlattenMore ==
    ASSUME NEW S, NEW ss \in Parts(S), NEW s \in Lists(S), NEW tt \in Parts(S),
           Len(tt) = Len(ss) + 1, tt[Len(tt)] = s, \A n \in 1..Len(ss) : tt[n] = ss[n]
    PROVE  FlattenSeq(tt) = Cat(FlattenSeq(ss), s)
<1>1. PICK f \in [0..Len(ss) -> Lists(S)] : Flattened(f, ss) /\ FlattenSeq(ss) = f[Len(ss)]
  BY FlattenOf
<1>2. PICK g \in [0..Len(tt) -> Lists(S)] : Flattened(g, tt) /\ FlattenSeq(tt) = g[Len(tt)]
  BY FlattenOf
<1>3. Len(ss) \in Nat /\ Len(tt) \in Nat /\ Len(ss) \in 0..Len(ss) /\ Len(ss) <= Len(tt)
  BY DEF Parts
<1>4. f[Len(ss)] = g[Len(ss)]
  BY <1>1, <1>2, <1>3, FlattenSame
<1>5. g[Len(tt)] = Cat(g[Len(tt) - 1], s)
  BY <1>2, <1>3 DEF Flattened
<1>. QED  BY <1>1, <1>2, <1>3, <1>4, <1>5

\* Something is appended to the last part.
LEMMA FlattenLast ==
    ASSUME NEW S, NEW ss \in Parts(S), ss # <<>>, NEW s \in Lists(S), NEW tt \in Parts(S),
           Len(tt) = Len(ss), tt[Len(ss)] = Cat(ss[Len(ss)], s), \A n \in 1..Len(ss) - 1 : tt[n] = ss[n]
    PROVE  FlattenSeq(tt) = Cat(FlattenSeq(ss), s)
<1>1. PICK f \in [0..Len(ss) -> Lists(S)] : Flattened(f, ss) /\ FlattenSeq(ss) = f[Len(ss)]
  BY FlattenOf
<1>2. PICK g \in [0..Len(tt) -> Lists(S)] : Flattened(g, tt) /\ FlattenSeq(tt) = g[Len(tt)]
  BY FlattenOf
<1>. DEFINE k == Len(ss) - 1
<1>3. Len(ss) \in Nat /\ Len(tt) \in Nat /\ k \in 0..Len(ss) /\ k <= Len(tt) /\ Len(ss) \in 1..Len(ss)
      /\ ss[Len(ss)] \in Lists(S)
  BY DEF Parts
<1>4. f[k] = g[k] /\ f[k] \in Lists(S)
  <2>1. \A n \in 1..k : ss[n] = tt[n]
    OBVIOUS
  <2>. HIDE DEF k
  <2>2. f[k] = g[k]
    BY <1>1, <1>2, <1>3, <2>1, FlattenSame
  <2>. QED  BY <1>1, <1>3, <2>2
<1>5. f[Len(ss)] = Cat(f[k], ss[Len(ss)]) /\ g[Len(ss)] = Cat(g[k], Cat(ss[Len(ss)], s))
  BY <1>1, <1>2, <1>3 DEF Flattened
<1>6. Cat(f[k], Cat(ss[Len(ss)], s)) = Cat(Cat(f[k], ss[Len(ss)]), s)
  BY <1>3, <1>4, CatOf
<1>. QED  BY <1>1, <1>2, <1>3, <1>4, <1>5, <1>6

\* Parts that hold nothing add nothing.
LEMMA FlattenNothing ==
    ASSUME NEW S, NEW ss \in Parts(S), NEW tt \in Parts(S), Len(tt) >= Len(ss),
           \A n \in 1..Len(ss) : tt[n] = ss[n], \A n \in Len(ss) + 1..Len(tt) : tt[n] = <<>>
    PROVE  FlattenSeq(tt) = FlattenSeq(ss)
<1>1. PICK f \in [0..Len(ss) -> Lists(S)] : Flattened(f, ss) /\ FlattenSeq(ss) = f[Len(ss)]
  BY FlattenOf
<1>2. PICK g \in [0..Len(tt) -> Lists(S)] : Flattened(g, tt) /\ FlattenSeq(tt) = g[Len(tt)]
  BY FlattenOf
<1>3. Len(ss) \in Nat /\ Len(tt) \in Nat /\ Len(ss) \in 0..Len(ss)
  BY DEF Parts
<1>4. f[Len(ss)] = g[Len(ss)] /\ f[Len(ss)] \in Lists(S)
  BY <1>1, <1>2, <1>3, FlattenSame
<1>. DEFINE Good == {n \in 0..Len(tt) : n >= Len(ss) => g[n] = f[Len(ss)]}
<1>5. 0 \in Good
  BY <1>3, <1>4
<1>6. \A n \in 1..Len(tt) : n - 1 \in Good => n \in Good
  <2>. SUFFICES ASSUME NEW n \in 1..Len(tt), n - 1 \in Good, n >= Len(ss) PROVE g[n] = f[Len(ss)]
    BY <1>3
  <2>1. CASE n = Len(ss)
    BY <1>4, <2>1
  <2>2. CASE n # Len(ss)
    <3>1. n - 1 >= Len(ss) /\ tt[n] = <<>> /\ g[n - 1] = f[Len(ss)]
      BY <1>3, <2>2
    <3>2. g[n] = Cat(g[n - 1], tt[n])
      BY <1>2 DEF Flattened
    <3>. QED  BY <1>4, <3>1, <3>2, CatOf
  <2>. QED  BY <2>1, <2>2
<1>. HIDE DEF Good
<1>7. \A n \in 0..Len(tt) : n \in Good
  BY <1>3, <1>5, <1>6, UpTo
<1>8. Len(tt) \in Good
  BY <1>3, <1>7
<1>. QED  BY <1>1, <1>2, <1>3, <1>8 DEF Good

\* Summed of the first numbers.
Numbers == Seq(Nat)

LEMMA TotalsOf ==
    ASSUME NEW s \in Numbers
    PROVE  /\ Totals(s) \in [0..Len(s) -> Nat] /\ Totals(s)[0] = 0
           /\ \A n \in 1..Len(s) : Totals(s)[n] = Totals(s)[n - 1] + s[n]
<1>. DEFINE m == Len(s)
            V == Nat
            none == 0
            Summed(g) == g = [n \in 0..m |-> IF n = 0 THEN 0 ELSE g[n - 1] + s[n]]
            sum == CHOOSE g : Summed(g)
            step == [n \in 1..m |-> [r \in V |-> r + s[n]]]
<1>0. \A n \in 1..m : s[n] \in Nat
  BY DEF Numbers
<1>1. m \in Nat /\ 0 \in Nat
  BY DEF Numbers
<1>2. Totals(s) = sum
  BY DEF Totals
<1>. HIDE DEF m
<1>3. step \in [1..m -> [V -> V]] /\ none \in V
  BY <1>0
<1>4. \A n \in 1..m, r \in V : step[n][r] = r + s[n]
  BY <1>0
<1>. HIDE DEF step, V, none
<1>5. PICK f \in [0..m -> V] : f[0] = none /\ \A n \in 1..m : f[n] = step[n][f[n - 1]]
  BY <1>1, <1>3, Recursion
<1>6. \A n \in 1..m : n - 1 \in 0..m /\ f[n] = f[n - 1] + s[n]
  BY <1>1, <1>4, <1>5
<1>7. Summed(f)
  BY <1>1, <1>5, <1>6 DEF none
<1>8. Summed(sum)
  BY <1>7
<1>. HIDE DEF sum
<1>. DEFINE Good == {n \in 0..m : sum[n] = f[n]}
<1>9. sum[0] = 0 /\ (\A n \in 1..m : sum[n] = sum[n - 1] + s[n]) /\ sum = [n \in 0..m |-> sum[n]]
  BY <1>1, <1>8
<1>10. 0 \in Good
  BY <1>1, <1>5, <1>9 DEF none
<1>11. ASSUME NEW n \in 1..m, n - 1 \in Good PROVE n \in Good
  <2>1. sum[n - 1] = f[n - 1]
    BY <1>11
  <2>2. sum[n] = f[n]
    BY <1>6, <1>9, <2>1
  <2>. QED  BY <1>1, <2>2
<1>. HIDE DEF Good
<1>12. \A n \in 0..m : n \in Good
  BY <1>1, <1>10, <1>11, UpTo
<1>13. \A n \in 0..m : sum[n] = f[n]
  BY <1>12 DEF Good
<1>14. sum \in [0..m -> Nat]
  BY <1>5, <1>9, <1>13 DEF V
<1>. QED  BY <1>2, <1>9, <1>14 DEF m

\* Greater numbers have greater sums, as far as both go; the same have the same.
LEMMA TotalsLess ==
    ASSUME NEW s \in Numbers, NEW t \in Numbers, NEW k \in Nat, k <= Len(s), k <= Len(t),
           \A n \in 1..k : s[n] <= t[n]
    PROVE  Totals(s)[k] <= Totals(t)[k]
<1>. DEFINE Good == {n \in 0..k : Totals(s)[n] <= Totals(t)[n]}
<1>0. /\ Len(s) \in Nat /\ Len(t) \in Nat
      /\ \A n \in 1..k : s[n] \in Nat /\ t[n] \in Nat
  BY DEF Numbers
<1>1. /\ Totals(s)[0] = 0 /\ Totals(t)[0] = 0
      /\ \A n \in 0..k : Totals(s)[n] \in Nat /\ Totals(t)[n] \in Nat
      /\ \A n \in 1..k : /\ Totals(s)[n] = Totals(s)[n - 1] + s[n] /\ s[n] \in Nat
                         /\ Totals(t)[n] = Totals(t)[n - 1] + t[n] /\ t[n] \in Nat
  <2>1. \A n \in 0..k : n \in 0..Len(s) /\ n \in 0..Len(t)
    BY <1>0
  <2>2. \A n \in 1..k : n \in 1..Len(s) /\ n \in 1..Len(t)
    BY <1>0
  <2>. QED  BY <1>0, <2>1, <2>2, TotalsOf
<1>2. 0 \in Good
  BY <1>1
<1>3. ASSUME NEW n \in 1..k, n - 1 \in Good PROVE n \in Good
  <2>1. Totals(s)[n - 1] <= Totals(t)[n - 1] /\ s[n] <= t[n] /\ n - 1 \in 0..k
    BY <1>3
  <2>2. Totals(s)[n] <= Totals(t)[n]
    BY <1>0, <1>1, <2>1
  <2>. QED  BY <2>2
<1>. HIDE DEF Good
<1>4. \A n \in 0..k : n \in Good
  BY <1>2, <1>3, UpTo
<1>. QED  BY <1>4 DEF Good

LEMMA TotalsSame ==
    ASSUME NEW s \in Numbers, NEW t \in Numbers, NEW k \in Nat, k <= Len(s), k <= Len(t),
           \A n \in 1..k : s[n] = t[n]
    PROVE  Totals(s)[k] = Totals(t)[k]
<1>0. Len(s) \in Nat /\ Len(t) \in Nat /\ \A n \in 1..k : s[n] \in Nat /\ t[n] \in Nat
  BY DEF Numbers
<1>1. \A n \in 1..k : s[n] <= t[n] /\ t[n] <= s[n]
  BY <1>0
<1>2. Totals(s)[k] <= Totals(t)[k] /\ Totals(t)[k] <= Totals(s)[k]
  BY <1>1, TotalsLess
<1>3. Totals(s)[k] \in Nat /\ Totals(t)[k] \in Nat
  <2>1. k \in 0..Len(s) /\ k \in 0..Len(t)
    BY <1>0
  <2>. QED  BY <2>1, TotalsOf
<1>. QED  BY <1>2, <1>3

LEMMA TotalsMore ==
    ASSUME NEW s \in Numbers, NEW t \in Numbers, Len(t) = Len(s) + 1,
           \A n \in 1..Len(s) : s[n] = t[n]
    PROVE  Totals(t)[Len(t)] = Totals(s)[Len(s)] + t[Len(t)]
<1>1. Len(s) \in Nat /\ Len(t) - 1 = Len(s) /\ Len(t) \in 1..Len(t)
  BY DEF Numbers
<1>2. Totals(s)[Len(s)] = Totals(t)[Len(s)]
  BY <1>1, TotalsSame
<1>. QED  BY <1>1, <1>2, TotalsOf

-----------------------------------------------------------------------------
(* Nodes and blocks *)

\* Nodes of files, as mkfs.jffs2 pads them, and cleanmarkers.
FileNode == {n \in [id : Nat \ {0}, length : Nat, copied : Nat] :
                n.length >= Marker /\ n.copied \in {n.length, Align4(n.length)}}
AnyNode  == FileNode \cup {Clean}
\* Nodes read and blocks written.
Files  == Lists(FileNode)
Blocks == Lists(AnyNode)

LEMMA Align4Of ==
    ASSUME NEW n \in Nat
    PROVE  Align4(n) \in Nat /\ Align4(n) >= n /\ Align4(n) % 4 = 0
           /\ \A m \in Nat : m % 4 = 0 /\ n <= m => Align4(n) <= m
  BY DEF Align4

LEMMA NodeOf ==
    ASSUME NEW n \in FileNode
    PROVE  /\ n.id \in Nat /\ n.length \in Nat /\ n.copied \in Nat /\ n # Clean
           /\ Marker <= n.copied /\ n.copied <= Align4(n.length) /\ n.length <= n.copied
           /\ Align4(n.length) \in Nat
  BY Align4Of DEF FileNode, Clean, Node, Marker

LEMMA CleanOf ==
    /\ Clean \in AnyNode /\ Clean.copied = Marker /\ Clean.length = Marker /\ Align4(Clean.length) = Marker
    /\ \A n \in AnyNode : n.copied \in Nat /\ n.length \in Nat /\ Align4(n.length) \in Nat
                          /\ n.copied <= Align4(n.length)
  BY NodeOf DEF AnyNode, Clean, Node, Marker, Align4

\* Products with Block, which is all that is known of where blocks begin.
LEMMA BlockOf == Block \in Nat /\ Block % 4 = 0 /\ Block > 2 * Marker /\ Marker = 12 /\ Room = Block - Marker
  BY Jffs2Assumption DEF Marker, Room

LEMMA Products ==
    ASSUME NEW k \in Nat, NEW q \in Nat
    PROVE  /\ k * Block \in Nat /\ q * Block \in Nat
           /\ (k + 1) * Block = k * Block + Block
           /\ k <= q => k * Block <= q * Block
           /\ k < q <=> k * Block < q * Block
           /\ k < q => k * Block + Block <= q * Block
<1>1. Block \in Nat /\ Block > 0
  BY BlockOf
<1>2. k * Block \in Nat /\ q * Block \in Nat
  BY <1>1
<1>3. (k + 1) * Block = k * Block + Block
  BY <1>1
<1>4. ASSUME k <= q PROVE k * Block <= q * Block
  <2>1. PICK d \in Nat : q = k + d
    BY <1>4
  <2>2. q * Block = k * Block + d * Block /\ d * Block \in Nat
    BY <1>1, <2>1
  <2>. QED  BY <1>2, <2>2
<1>5. ASSUME k < q PROVE k * Block + Block <= q * Block
  <2>1. PICK d \in Nat : q = k + 1 + d
    <3>1. q - k - 1 \in Nat /\ q = k + 1 + (q - k - 1)
      BY <1>5
    <3>. QED  BY <3>1
  <2>2. q * Block = k * Block + Block + d * Block /\ d * Block \in Nat
    BY <1>1, <2>1
  <2>. QED  BY <1>1, <1>2, <2>2
<1>6. ASSUME k >= q PROVE k * Block >= q * Block
  <2>1. PICK d \in Nat : k = q + d
    <3>1. k - q \in Nat /\ k = q + (k - q)
      BY <1>6
    <3>. QED  BY <3>1
  <2>2. k * Block = q * Block + d * Block /\ d * Block \in Nat
    BY <1>1, <2>1
  <2>. QED  BY <1>2, <2>2
<1>7. k < q <=> k * Block < q * Block
  BY <1>1, <1>2, <1>5, <1>6
<1>. QED  BY <1>2, <1>3, <1>4, <1>5, <1>7

\* Multiples of Block.
LEMMA Quotient ==
    ASSUME NEW n \in Nat, n % Block = 0
    PROVE  \E q \in Nat : n = q * Block
<1>1. Block \in Nat /\ Block > 0
  BY BlockOf
<1>2. n = Block * (n \div Block) + (n % Block) /\ n \div Block \in Nat
  BY <1>1
<1>. QED  BY <1>1, <1>2

\* What is read from an image that has one more node.
Longer(s, x, t) == Len(t) = Len(s) + 1 /\ t[Len(t)] = x /\ \A i \in 1..Len(s) : t[i] = s[i]
Pieces(image) == [i \in DOMAIN image |-> IF image[i] = Clean THEN <<>> ELSE <<image[i]>>]

LEMMA PiecesOf ==
    ASSUME NEW image \in Blocks
    PROVE  /\ Pieces(image) \in Parts(FileNode) /\ Len(Pieces(image)) = Len(image) /\ Len(image) \in Nat
           /\ \A i \in 1..Len(image) :
                 /\ image[i] \in AnyNode
                 /\ Pieces(image)[i] = IF image[i] = Clean THEN <<>> ELSE <<image[i]>>
<1>1. DOMAIN image = 1..Len(image) /\ Len(image) \in Nat /\ \A i \in 1..Len(image) : image[i] \in AnyNode
  BY DEF Blocks, Lists
<1>. DEFINE p == Pieces(image)
<1>2. p = [i \in 1..Len(image) |-> IF image[i] = Clean THEN <<>> ELSE <<image[i]>>]
  BY <1>1 DEF Pieces
<1>3. \A n \in FileNode : <<n>> \in Lists(FileNode)
  BY DEF Lists
<1>4. <<>> \in Lists(FileNode)
  BY DEF Lists
<1>5. \A i \in 1..Len(image) : p[i] \in Lists(FileNode)
  BY <1>1, <1>2, <1>3, <1>4 DEF AnyNode
<1>6. p \in [1..Len(image) -> Lists(FileNode)]
  BY <1>2, <1>5
<1>7. p \in Seq(Lists(FileNode)) /\ Len(p) = Len(image)
  BY <1>1, <1>6
<1>. QED  BY <1>1, <1>2, <1>7 DEF Parts

LEMMA ReadTyped ==
    ASSUME NEW image \in Blocks
    PROVE  ReadNodes(image) \in Files
<1>1. Pieces(image) \in Parts(FileNode) /\ ReadNodes(image) = FlattenSeq(Pieces(image))
  BY PiecesOf DEF ReadNodes, Pieces
<1>2. PICK f \in [0..Len(Pieces(image)) -> Lists(FileNode)] : FlattenSeq(Pieces(image)) = f[Len(Pieces(image))]
  BY <1>1, FlattenOf
<1>3. Len(Pieces(image)) \in 0..Len(Pieces(image))
  BY PiecesOf
<1>. QED  BY <1>1, <1>2, <1>3 DEF Files

LEMMA ReadMore ==
    ASSUME NEW image \in Blocks, NEW n \in AnyNode, NEW next \in Blocks, Longer(image, n, next)
    PROVE  ReadNodes(next) = IF n = Clean THEN ReadNodes(image) ELSE Cat(ReadNodes(image), <<n>>)
<1>. DEFINE s == Pieces(image)
            t == Pieces(next)
            x == IF n = Clean THEN <<>> ELSE <<n>>
<1>1. /\ s \in Parts(FileNode) /\ Len(s) = Len(image) /\ Len(image) \in Nat
      /\ \A i \in 1..Len(image) : s[i] = IF image[i] = Clean THEN <<>> ELSE <<image[i]>>
  BY PiecesOf
<1>2. /\ t \in Parts(FileNode) /\ Len(t) = Len(next) /\ Len(next) \in Nat
      /\ \A i \in 1..Len(next) : t[i] = IF next[i] = Clean THEN <<>> ELSE <<next[i]>>
  BY PiecesOf
<1>3. ReadNodes(image) = FlattenSeq(s) /\ ReadNodes(next) = FlattenSeq(t)
  BY DEF ReadNodes, Pieces
<1>4. x \in Lists(FileNode)
  BY DEF Lists, AnyNode
<1>. HIDE DEF s, t
<1>5. Len(t) = Len(s) + 1 /\ t[Len(t)] = x /\ \A i \in 1..Len(s) : t[i] = s[i]
  <2>1. Len(t) = Len(s) + 1 /\ Len(t) \in 1..Len(next) /\ next[Len(t)] = n
    BY <1>1, <1>2 DEF Longer
  <2>2. \A i \in 1..Len(s) : i \in 1..Len(next) /\ i \in 1..Len(image) /\ next[i] = image[i]
    BY <1>1, <1>2 DEF Longer
  <2>. QED  BY <1>1, <1>2, <2>1, <2>2
<1>. HIDE DEF x
<1>6. FlattenSeq(t) = Cat(FlattenSeq(s), x)
  BY <1>1, <1>2, <1>4, <1>5, FlattenMore
<1>7. ReadNodes(image) \in Lists(FileNode)
  BY ReadTyped DEF Files
<1>8. Cat(ReadNodes(image), <<>>) = ReadNodes(image)
  BY <1>7, CatOf
<1>. QED  BY <1>3, <1>6, <1>8 DEF x

LEMMA ReadEmpty == ReadNodes(<<>>) = <<>>
  BY DEF ReadNodes, FlattenSeq

LEMMA LongerOf ==
    ASSUME NEW S, NEW s \in Lists(S), NEW x \in S
    PROVE  Append(s, x) \in Lists(S) /\ Longer(s, x, Append(s, x)) /\ Append(s, x) = Cat(s, <<x>>)
<1>1. Append(s, x) \in Seq(S) /\ Len(Append(s, x)) = Len(s) + 1 /\ Append(s, x)[Len(s) + 1] = x
      /\ \A i \in 1..Len(s) : Append(s, x)[i] = s[i]
  BY DEF Lists
<1>2. Append(s, x) = s \o <<x>>
  BY DEF Lists
<1>. QED  BY <1>1, <1>2 DEF Lists, Longer, Cat

\* A block that begins with a cleanmarker.
LEMMA ReadClean == <<>> \in Blocks /\ <<Clean>> \in Blocks /\ ReadNodes(<<Clean>>) = <<>>
<1>1. <<>> \in Blocks /\ <<Clean>> \in Blocks /\ Longer(<<>>, Clean, <<Clean>>)
  BY CleanOf DEF Blocks, Lists, Longer
<1>. QED  BY <1>1, CleanOf, ReadMore, ReadEmpty

LEMMA ReadOne ==
    ASSUME NEW n \in FileNode
    PROVE  /\ <<n>> \in Blocks /\ ReadNodes(<<n>>) = <<n>>
           /\ <<Clean, n>> \in Blocks /\ ReadNodes(<<Clean, n>>) = <<n>>
<1>1. n \in AnyNode /\ n # Clean /\ Clean \in AnyNode
  BY NodeOf, CleanOf DEF AnyNode
<1>2. <<n>> \in Blocks /\ Longer(<<>>, n, <<n>>)
  BY <1>1 DEF Blocks, Lists, Longer
<1>3. <<Clean, n>> \in Blocks /\ Longer(<<Clean>>, n, <<Clean, n>>)
  BY <1>1 DEF Blocks, Lists, Longer
<1>4. <<n>> \in Lists(FileNode) /\ Cat(<<>>, <<n>>) = <<n>>
  <2>1. <<n>> \in Lists(FileNode)
    BY DEF Lists
  <2>. QED  BY <2>1, CatOf
<1>5. ReadNodes(<<n>>) = <<n>>
  BY <1>1, <1>2, <1>4, ReadClean, ReadMore, ReadEmpty
<1>6. ReadNodes(<<Clean, n>>) = <<n>>
  BY <1>1, <1>3, <1>4, ReadClean, ReadMore
<1>. QED  BY <1>2, <1>3, <1>5, <1>6

\* The nodes up to the k-th.
First(nodes, k) == [i \in 1..k |-> nodes[i]]

LEMMA FirstOf ==
    ASSUME NEW S, NEW nodes \in Lists(S)
    PROVE  /\ Len(nodes) \in Nat /\ First(nodes, Len(nodes)) = nodes /\ First(nodes, 0) = <<>>
           /\ \A k \in 0..Len(nodes) : First(nodes, k) \in Lists(S)
           /\ \A k \in 1..Len(nodes) : /\ nodes[k] \in S
                                       /\ First(nodes, k) = Append(First(nodes, k - 1), nodes[k])
<1>1. /\ Len(nodes) \in Nat /\ nodes = [i \in 1..Len(nodes) |-> nodes[i]]
      /\ \A k \in 1..Len(nodes) : nodes[k] \in S
  BY DEF Lists
<1>2. ASSUME NEW k \in 0..Len(nodes)
      PROVE  First(nodes, k) \in Lists(S) /\ Len(First(nodes, k)) = k
  <2>1. First(nodes, k) \in [1..k -> S] /\ k \in Nat
    BY <1>1 DEF First
  <2>. QED  BY <2>1 DEF Lists
<1>3. ASSUME NEW k \in 1..Len(nodes)
      PROVE  First(nodes, k) = Append(First(nodes, k - 1), nodes[k])
  <2>1. k - 1 \in 0..Len(nodes) /\ k \in 0..Len(nodes)
    BY <1>1
  <2>2. /\ First(nodes, k - 1) \in Seq(S) /\ Len(First(nodes, k - 1)) = k - 1
        /\ First(nodes, k) \in Seq(S) /\ Len(First(nodes, k)) = k
    BY <1>2, <2>1 DEF Lists
  <2>3. \A i \in 1..k : First(nodes, k)[i] = nodes[i]
    BY DEF First
  <2>4. \A i \in 1..k - 1 : First(nodes, k - 1)[i] = nodes[i]
    BY DEF First
  <2>. HIDE DEF First
  <2>. DEFINE a == Append(First(nodes, k - 1), nodes[k])
  <2>5. a \in Seq(S) /\ Len(a) = k /\ a[k] = nodes[k] /\ \A i \in 1..k - 1 : a[i] = nodes[i]
    BY <1>1, <2>1, <2>2, <2>4
  <2>. HIDE DEF a
  <2>6. \A i \in 1..k : a[i] = First(nodes, k)[i]
    BY <2>1, <2>3, <2>5
  <2>7. a = First(nodes, k)
    BY <2>2, <2>5, <2>6
  <2>. QED  BY <2>7 DEF a
<1>4. First(nodes, 0) = <<>>
  BY <1>1, <1>2
<1>5. First(nodes, Len(nodes)) = nodes
  <2>1. First(nodes, Len(nodes)) = [i \in 1..Len(nodes) |-> nodes[i]]
    BY DEF First
  <2>. HIDE DEF First
  <2>. QED  BY <1>1, <2>1
<1>. QED  BY <1>1, <1>2, <1>3, <1>4, <1>5

\* What mkfs.jffs2 made is read again.
LEMMA ReadAll ==
    ASSUME NEW nodes \in Files
    PROVE  <<Clean>> \o nodes \in Blocks /\ ReadNodes(<<Clean>> \o nodes) = nodes
<1>. DEFINE m == Len(nodes)
            Until(k) == <<Clean>> \o First(nodes, k)
            Good == {k \in 0..m : Until(k) \in Blocks /\ ReadNodes(Until(k)) = First(nodes, k)}
<1>1. /\ m \in Nat /\ First(nodes, m) = nodes /\ First(nodes, 0) = <<>>
      /\ \A k \in 0..m : First(nodes, k) \in Lists(FileNode)
      /\ \A k \in 1..m : nodes[k] \in FileNode /\ First(nodes, k) = Append(First(nodes, k - 1), nodes[k])
  BY FirstOf DEF Files
<1>2. 0 \in Good
  <2>1. <<Clean>> \o <<>> = <<Clean>>
    OBVIOUS
  <2>2. Until(0) = <<Clean>>
    BY <1>1, <2>1
  <2>. HIDE DEF Until
  <2>3. 0 \in 0..m /\ ReadNodes(Until(0)) = First(nodes, 0) /\ Until(0) \in Blocks
    BY <1>1, <2>2, ReadClean
  <2>. QED  BY <2>3
<1>3. ASSUME NEW k \in 1..m, k - 1 \in Good PROVE k \in Good
  <2>. DEFINE a == First(nodes, k - 1)
              n == nodes[k]
  <2>1. a \in Lists(FileNode) /\ n \in FileNode /\ First(nodes, k) = Append(a, n) /\ n \in AnyNode /\ n # Clean
    <3>1. k - 1 \in 0..m
      BY <1>1
    <3>. QED  BY <1>1, <3>1, NodeOf DEF AnyNode
  <2>2. <<Clean>> \o Append(a, n) = Append(<<Clean>> \o a, n)
    BY <2>1 DEF Lists
  <2>3. Until(k) = Append(Until(k - 1), n) /\ Until(k - 1) \in Blocks /\ ReadNodes(Until(k - 1)) = a
    BY <1>3, <2>1, <2>2
  <2>. HIDE DEF Until, a, n
  <2>4. Until(k) \in Blocks /\ Longer(Until(k - 1), n, Until(k))
    BY <2>1, <2>3, LongerOf DEF Blocks
  <2>5. ReadNodes(Until(k)) = Cat(a, <<n>>)
    BY <2>1, <2>3, <2>4, ReadMore
  <2>6. ReadNodes(Until(k)) = First(nodes, k)
    BY <2>1, <2>5, LongerOf
  <2>. QED  BY <1>1, <2>4, <2>6
<1>. HIDE DEF Good
<1>4. \A k \in 0..m : k \in Good
  BY <1>1, <1>2, <1>3, UpTo
<1>5. m \in Good
  BY <1>1, <1>4
<1>. QED  BY <1>1, <1>5 DEF Good

\* The nodes of blocks, one after the other.
Images       == Lists(Blocks)
ReadBlocks(bs)     == [b \in DOMAIN bs |-> ReadNodes(bs[b])]
Gathered(bs) == FlattenSeq(ReadBlocks(bs))

LEMMA ImagesOf ==
    ASSUME NEW bs \in Images
    PROVE  /\ Len(bs) \in Nat /\ DOMAIN bs = 1..Len(bs) /\ (bs # <<>> => Len(bs) \in 1..Len(bs))
           /\ \A b \in 1..Len(bs) : bs[b] \in Blocks
  BY DEF Images, Lists

LEMMA ReadOf ==
    ASSUME NEW bs \in Images
    PROVE  /\ ReadBlocks(bs) \in Parts(FileNode) /\ Len(ReadBlocks(bs)) = Len(bs)
           /\ \A b \in 1..Len(bs) : ReadBlocks(bs)[b] = ReadNodes(bs[b]) /\ ReadNodes(bs[b]) \in Lists(FileNode)
<1>1. /\ Len(bs) \in Nat /\ DOMAIN bs = 1..Len(bs)
      /\ \A b \in 1..Len(bs) : ReadNodes(bs[b]) \in Lists(FileNode)
  BY ImagesOf, ReadTyped DEF Files
<1>2. ReadBlocks(bs) = [b \in 1..Len(bs) |-> ReadNodes(bs[b])]
  BY <1>1 DEF ReadBlocks
<1>3. ReadBlocks(bs) \in [1..Len(bs) -> Lists(FileNode)]
  BY <1>1, <1>2
<1>4. ReadBlocks(bs) \in Seq(Lists(FileNode)) /\ Len(ReadBlocks(bs)) = Len(bs)
  BY <1>1, <1>3
<1>. QED  BY <1>1, <1>2, <1>4 DEF Parts

LEMMA GatherMore ==
    ASSUME NEW bs \in Images, NEW block \in Blocks, NEW next \in Images, Longer(bs, block, next)
    PROVE  Gathered(next) = Cat(Gathered(bs), ReadNodes(block))
<1>1. /\ Len(next) = Len(bs) + 1 /\ next[Len(next)] = block /\ Len(bs) \in Nat /\ Len(next) \in 1..Len(next)
      /\ \A b \in 1..Len(bs) : next[b] = bs[b] /\ b \in 1..Len(next)
  BY ImagesOf DEF Longer
<1>2. /\ ReadBlocks(bs) \in Parts(FileNode) /\ Len(ReadBlocks(bs)) = Len(bs)
      /\ \A b \in 1..Len(bs) : ReadBlocks(bs)[b] = ReadNodes(bs[b])
  BY ReadOf
<1>3. /\ ReadBlocks(next) \in Parts(FileNode) /\ Len(ReadBlocks(next)) = Len(next)
      /\ \A b \in 1..Len(next) : ReadBlocks(next)[b] = ReadNodes(next[b]) /\ ReadNodes(next[b]) \in Lists(FileNode)
  BY ReadOf
<1>4. /\ Len(ReadBlocks(next)) = Len(ReadBlocks(bs)) + 1 /\ ReadBlocks(next)[Len(ReadBlocks(next))] = ReadNodes(block)
      /\ ReadNodes(block) \in Lists(FileNode)
      /\ \A b \in 1..Len(ReadBlocks(bs)) : ReadBlocks(next)[b] = ReadBlocks(bs)[b]
  BY <1>1, <1>2, <1>3
<1>. QED  BY <1>2, <1>3, <1>4, FlattenMore DEF Gathered

LEMMA GatherLast ==
    ASSUME NEW bs \in Images, bs # <<>>, NEW n \in FileNode, NEW next \in Images,
           Len(next) = Len(bs), Longer(bs[Len(bs)], n, next[Len(bs)]),
           \A b \in 1..Len(bs) - 1 : next[b] = bs[b]
    PROVE  Gathered(next) = Cat(Gathered(bs), <<n>>)
<1>. DEFINE m == Len(bs)
<1>1. m \in 1..m /\ m \in Nat /\ bs[m] \in Blocks /\ next[m] \in Blocks
  BY ImagesOf
<1>2. /\ ReadBlocks(bs) \in Parts(FileNode) /\ Len(ReadBlocks(bs)) = m
      /\ \A b \in 1..m : ReadBlocks(bs)[b] = ReadNodes(bs[b])
  BY ReadOf
<1>3. /\ ReadBlocks(next) \in Parts(FileNode) /\ Len(ReadBlocks(next)) = m
      /\ \A b \in 1..m : ReadBlocks(next)[b] = ReadNodes(next[b])
  BY ReadOf
<1>4. ReadNodes(next[m]) = Cat(ReadNodes(bs[m]), <<n>>) /\ <<n>> \in Lists(FileNode)
  <2>1. n \in AnyNode /\ n # Clean
    BY NodeOf DEF AnyNode
  <2>2. <<n>> \in Lists(FileNode)
    BY DEF Lists
  <2>. QED  BY <1>1, <2>1, <2>2, ReadMore
<1>5. ReadBlocks(bs) # <<>>
  <2>1. Len(ReadBlocks(bs)) # 0
    BY <1>1, <1>2
  <2>. QED  BY <2>1
<1>6. /\ Len(ReadBlocks(next)) = Len(ReadBlocks(bs)) /\ ReadBlocks(next)[m] = Cat(ReadBlocks(bs)[m], <<n>>)
      /\ \A b \in 1..m - 1 : ReadBlocks(next)[b] = ReadBlocks(bs)[b]
  BY <1>1, <1>2, <1>3, <1>4
<1>. HIDE DEF m
<1>. QED  BY <1>2, <1>3, <1>4, <1>5, <1>6, FlattenLast DEF Gathered

LEMMA GatherClean ==
    ASSUME NEW bs \in Images, NEW next \in Images, Len(next) >= Len(bs),
           \A b \in 1..Len(bs) : next[b] = bs[b],
           \A b \in Len(bs) + 1..Len(next) : next[b] = <<Clean>>
    PROVE  Gathered(next) = Gathered(bs)
<1>1. Len(bs) \in Nat /\ Len(next) \in Nat
  BY ImagesOf
<1>2. /\ ReadBlocks(bs) \in Parts(FileNode) /\ Len(ReadBlocks(bs)) = Len(bs)
      /\ \A b \in 1..Len(bs) : ReadBlocks(bs)[b] = ReadNodes(bs[b])
  BY ReadOf
<1>3. /\ ReadBlocks(next) \in Parts(FileNode) /\ Len(ReadBlocks(next)) = Len(next)
      /\ \A b \in 1..Len(next) : ReadBlocks(next)[b] = ReadNodes(next[b])
  BY ReadOf
<1>4. \A b \in Len(bs) + 1..Len(next) : ReadBlocks(next)[b] = <<>>
  BY <1>1, <1>3, ReadClean
<1>5. \A b \in 1..Len(bs) : ReadBlocks(next)[b] = ReadBlocks(bs)[b]
  BY <1>1, <1>2, <1>3
<1>. QED  BY <1>1, <1>2, <1>3, <1>4, <1>5, FlattenNothing DEF Gathered

-----------------------------------------------------------------------------
(* The layout *)

\* What a layout goes through, and the ways a node is placed: it is refused; it goes into
\* the block at hand; it opens a block, without or with a cleanmarker before it.
States == {s \in [blocks : Images, offset : Nat, failed : BOOLEAN] : s.blocks # <<>>}
Start(bytes) == [blocks |-> <<<<Clean>>>>, offset |-> Marker, failed |-> Marker > bytes]
Full(s)    == s.offset % Block = 0
End(s)     == Len(s.blocks) * Block
Refuses(s, n, bytes) ==
    \/ s.failed \/ n.copied > Room
    \/ ~Full(s) /\ s.offset + n.copied > End(s) /\ End(s) + Marker > bytes
Fitted(s, n, t) ==
    /\ ~Full(s) /\ s.offset + n.copied <= End(s) /\ t.offset = s.offset + n.copied
    /\ Len(t.blocks) = Len(s.blocks)
    /\ Longer(s.blocks[Len(s.blocks)], n, t.blocks[Len(s.blocks)])
    /\ \A b \in 1..Len(s.blocks) - 1 : t.blocks[b] = s.blocks[b]
Crowded(s, n, t) ==
    /\ Full(s) /\ t.offset = s.offset + n.copied /\ Longer(s.blocks, <<n>>, t.blocks)
Opened(s, n, t, bytes) ==
    /\ ~Full(s) /\ s.offset + n.copied > End(s) /\ End(s) + Marker <= bytes
    /\ t.offset = End(s) + Marker + n.copied /\ Longer(s.blocks, <<Clean, n>>, t.blocks)

LEMMA StateOf ==
    ASSUME NEW s \in States
    PROVE  /\ s.blocks \in Images /\ s.offset \in Nat /\ s.failed \in BOOLEAN
           /\ Len(s.blocks) \in Nat /\ Len(s.blocks) \in 1..Len(s.blocks) /\ End(s) \in Nat
           /\ s = [blocks |-> s.blocks, offset |-> s.offset, failed |-> s.failed]
<1>1. /\ s.blocks \in Images /\ s.offset \in Nat /\ s.failed \in BOOLEAN /\ s.blocks # <<>>
      /\ s = [blocks |-> s.blocks, offset |-> s.offset, failed |-> s.failed]
  BY DEF States
<1>2. Len(s.blocks) \in Nat /\ Len(s.blocks) \in 1..Len(s.blocks)
  BY <1>1, ImagesOf
<1>. QED  BY <1>1, <1>2, BlockOf DEF End

LEMMA StartOf ==
    ASSUME NEW bytes
    PROVE  Start(bytes) \in States /\ Gathered(Start(bytes).blocks) = <<>>
<1>. DEFINE bs == <<<<Clean>>>>
<1>1. <<Clean>> \in Blocks /\ <<>> \in Images
  BY ReadClean DEF Images, Lists
<1>2. bs \in Images /\ bs # <<>> /\ Longer(<<>>, <<Clean>>, bs)
  BY <1>1 DEF Images, Lists, Longer
<1>3. Gathered(<<>>) = <<>>
  BY DEF Gathered, ReadBlocks, FlattenSeq
<1>4. <<>> \in Lists(FileNode) /\ Cat(<<>>, <<>>) = <<>>
  <2>1. <<>> \in Lists(FileNode)
    BY DEF Lists
  <2>. QED  BY <2>1, CatOf
<1>5. Gathered(bs) = <<>>
  BY <1>1, <1>2, <1>3, <1>4, GatherMore, ReadClean
<1>6. Start(bytes) = [blocks |-> bs, offset |-> Marker, failed |-> Marker > bytes] /\ Marker \in Nat
  BY DEF Start, Marker
<1>. HIDE DEF bs
<1>. QED  BY <1>2, <1>5, <1>6 DEF States

LEMMA PlacedOf ==
    ASSUME NEW s \in States, NEW n \in FileNode, NEW bytes \in Nat, NEW t, t = Placed(s, n, bytes)
    PROVE  /\ t \in States
           /\ \/ Refuses(s, n, bytes) /\ t.failed /\ t.blocks = s.blocks /\ t.offset = s.offset
              \/ /\ ~Refuses(s, n, bytes) /\ ~t.failed
                 /\ Fitted(s, n, t) \/ Crowded(s, n, t) \/ Opened(s, n, t, bytes)
<1>. DEFINE L == Len(s.blocks)
            last == Append(s.blocks[L], n)
<1>1. /\ s.blocks \in Images /\ s.offset \in Nat /\ s.failed \in BOOLEAN /\ s.blocks # <<>>
      /\ L \in Nat /\ L \in 1..L /\ End(s) \in Nat
      /\ s = [blocks |-> s.blocks, offset |-> s.offset, failed |-> s.failed]
  BY StateOf DEF States
<1>2. n.copied \in Nat /\ n \in AnyNode /\ s.blocks[L] \in Blocks /\ DOMAIN s.blocks = 1..L
  BY <1>1, NodeOf, ImagesOf DEF AnyNode
<1>3. CASE Refuses(s, n, bytes)
  <2>1. t = [s EXCEPT !.failed = TRUE]
    BY <1>1, <1>2, <1>3 DEF Placed, Refuses, Full, End, Ends
  <2>. QED  BY <1>1, <1>3, <2>1 DEF States
<1>4. CASE ~Refuses(s, n, bytes) /\ ~Full(s) /\ s.offset + n.copied <= End(s)
  <2>1. t = [s EXCEPT !.blocks[L] = Append(@, n), !.offset = @ + n.copied]
    BY <1>1, <1>2, <1>4 DEF Placed, Refuses, Full, End, Ends
  <2>. DEFINE bs == [s.blocks EXCEPT ![L] = last]
  <2>2. t = [blocks |-> bs, offset |-> s.offset + n.copied, failed |-> s.failed]
    BY <1>1, <2>1
  <2>3. last \in Blocks /\ Longer(s.blocks[L], n, last)
    BY <1>2, LongerOf DEF Blocks
  <2>. HIDE DEF last
  <2>4. bs \in Images /\ Len(bs) = L /\ bs # <<>> /\ bs[L] = last /\ \A b \in 1..L - 1 : bs[b] = s.blocks[b]
    BY <1>1, <1>2, <2>3 DEF Images, Lists
  <2>5. t \in States /\ t.blocks = bs /\ ~t.failed /\ t.offset = s.offset + n.copied
    BY <1>1, <1>2, <1>4, <2>2, <2>4 DEF States, Refuses
  <2>. HIDE DEF bs
  <2>6. Fitted(s, n, t)
    BY <1>1, <1>4, <2>3, <2>4, <2>5 DEF Fitted
  <2>. QED  BY <1>4, <2>5, <2>6
<1>5. CASE ~Refuses(s, n, bytes) /\ Full(s)
  <2>. DEFINE bs == Append(s.blocks, <<n>>)
  <2>1. t = [s EXCEPT !.blocks = bs, !.offset = @ + n.copied]
    BY <1>1, <1>2, <1>5 DEF Placed, Refuses, Full, End, Ends
  <2>2. t = [blocks |-> bs, offset |-> s.offset + n.copied, failed |-> s.failed]
    BY <1>1, <2>1
  <2>3. <<n>> \in Blocks
    BY ReadOne
  <2>4. bs \in Images /\ Longer(s.blocks, <<n>>, bs)
    BY <1>1, <2>3, LongerOf DEF Images
  <2>. HIDE DEF bs
  <2>5. bs # <<>>
    BY <1>1, <2>4 DEF Longer
  <2>6. t \in States /\ t.blocks = bs /\ ~t.failed /\ t.offset = s.offset + n.copied
    BY <1>1, <1>2, <1>5, <2>2, <2>4, <2>5 DEF States, Refuses
  <2>. QED  BY <1>5, <2>4, <2>6 DEF Crowded
<1>6. CASE ~Refuses(s, n, bytes) /\ ~Full(s) /\ s.offset + n.copied > End(s)
  <2>. DEFINE bs == Append(s.blocks, <<Clean, n>>)
  <2>1. t = [s EXCEPT !.blocks = bs, !.offset = End(s) + Marker + n.copied]
    BY <1>1, <1>2, <1>6 DEF Placed, Refuses, Full, End, Ends
  <2>2. t = [blocks |-> bs, offset |-> End(s) + Marker + n.copied, failed |-> s.failed]
    BY <1>1, <2>1
  <2>3. <<Clean, n>> \in Blocks
    BY ReadOne
  <2>4. bs \in Images /\ Longer(s.blocks, <<Clean, n>>, bs)
    BY <1>1, <2>3, LongerOf DEF Images
  <2>. HIDE DEF bs
  <2>5. bs # <<>>
    BY <1>1, <2>4 DEF Longer
  <2>6. t \in States /\ t.blocks = bs /\ ~t.failed /\ t.offset = End(s) + Marker + n.copied
    BY <1>1, <1>2, <1>6, <2>2, <2>4, <2>5 DEF States, Refuses, Marker
  <2>7. End(s) + Marker <= bytes
    BY <1>1, <1>6 DEF Refuses, Marker
  <2>. QED  BY <1>6, <2>4, <2>6, <2>7 DEF Opened
<1>. QED  BY <1>1, <1>2, <1>3, <1>4, <1>5, <1>6

\* A layout is what is left of this after the last node.
Run(after, nodes, bytes) ==
    /\ after \in [0..Len(nodes) -> States] /\ after[0] = Start(bytes)
    /\ \A k \in 1..Len(nodes) : after[k] = Placed(after[k - 1], nodes[k], bytes)

LEMMA LayoutOf ==
    ASSUME NEW nodes \in Files, NEW bytes \in Nat
    PROVE  \E after : Run(after, nodes, bytes) /\ Layout(nodes, bytes) = after[Len(nodes)]
<1>. DEFINE m == Len(nodes)
            V == States
            start == Start(bytes)
            With(s, n) == Placed(s, nodes[n], bytes)
            Laid(g) == g = [n \in 0..m |-> IF n = 0 THEN start ELSE With(g[n - 1], n)]
            laid == CHOOSE g : Laid(g)
            step == [n \in 1..m |-> [s \in V |-> With(s, n)]]
<1>1. m \in Nat /\ \A n \in 1..m : nodes[n] \in FileNode
  BY DEF Files, Lists
<1>2. \A n \in 1..m, s \in V : With(s, n) \in V
  BY <1>1, PlacedOf
<1>3. start \in V
  BY StartOf
<1>4. Layout(nodes, bytes) = laid[m]
  BY DEF Layout, Start
<1>. HIDE DEF m, V, start, With
<1>5. step \in [1..m -> [V -> V]]
  BY <1>2
<1>15. \A n \in 1..m, s \in V : step[n][s] = With(s, n)
  OBVIOUS
<1>. HIDE DEF step
<1>6. PICK f \in [0..m -> V] : f[0] = start /\ \A n \in 1..m : f[n] = step[n][f[n - 1]]
  BY <1>1, <1>3, <1>5, Recursion
<1>7. \A n \in 1..m : n - 1 \in 0..m /\ f[n] = With(f[n - 1], n)
  BY <1>1, <1>15, <1>6
<1>8. Laid(f)
  BY <1>1, <1>6, <1>7
<1>9. Laid(laid)
  BY <1>8
<1>. HIDE DEF laid
<1>10. laid = [n \in 0..m |-> laid[n]] /\ laid[0] = start /\ \A n \in 1..m : laid[n] = With(laid[n - 1], n)
  BY <1>1, <1>9
<1>. DEFINE Good == {n \in 0..m : laid[n] \in V}
<1>11. 0 \in Good
  BY <1>1, <1>3, <1>10
<1>12. \A n \in 1..m : n - 1 \in Good => n \in Good
  <2>. SUFFICES ASSUME NEW n \in 1..m, laid[n - 1] \in V
                PROVE  laid[n] \in V /\ n \in 0..m
    OBVIOUS
  <2>1. laid[n] = With(laid[n - 1], n)
    BY <1>10
  <2>2. With(laid[n - 1], n) \in V
    BY <1>2
  <2>3. n \in 0..m
    BY <1>1
  <2>. QED  BY <2>1, <2>2, <2>3
<1>. HIDE DEF Good
<1>13. \A n \in 0..m : n \in Good
  BY <1>1, <1>11, <1>12, UpTo
<1>14. laid \in [0..m -> V]
  BY <1>10, <1>13 DEF Good
<1>. QED  BY <1>4, <1>10, <1>14 DEF Run, m, V, start, With

-----------------------------------------------------------------------------
(* What a layout keeps *)

Filling(bs)    == \A b \in 1..Len(bs) : Len(bs[b]) >= 1
HeadsClean(bs) == \A b \in 1..Len(bs) : bs[b][1] = Clean
Whole(bytes)    == bytes % Block = 0

\* After k nodes, unless one was refused: the blocks hold these and nothing else, they are
\* not overfull, and in an image of whole blocks they end with it, unless one of them
\* has no cleanmarker.
Kept(s, nodes, k, bytes) ==
    ~s.failed =>
        /\ Gathered(s.blocks) = First(nodes, k)
        /\ Filling(s.blocks) /\ s.offset <= End(s)
        /\ HeadsClean(s.blocks) /\ Whole(bytes) => End(s) <= bytes

LEMMA KeptStart ==
    ASSUME NEW nodes \in Files, NEW bytes \in Nat
    PROVE  Kept(Start(bytes), nodes, 0, bytes)
<1>. DEFINE s == Start(bytes)
<1>1. Gathered(s.blocks) = First(nodes, 0)
  BY StartOf, FirstOf DEF Files
<1>2. s.blocks = <<<<Clean>>>> /\ s.offset = Marker /\ (~s.failed => Marker <= bytes)
  <2>1. s.blocks = <<<<Clean>>>> /\ s.offset = Marker /\ s.failed = (Marker > bytes)
    BY DEF Start
  <2>2. ~(Marker > bytes) => Marker <= bytes
    BY BlockOf
  <2>. QED  BY <2>1, <2>2
<1>3. Filling(s.blocks) /\ Len(s.blocks) = 1
  BY <1>2 DEF Filling
<1>4. End(s) = Block
  BY <1>3, BlockOf DEF End
<1>5. ASSUME ~s.failed, Whole(bytes) PROVE Block <= bytes
  <2>1. PICK q \in Nat : bytes = q * Block
    BY <1>5, Quotient DEF Whole
  <2>2. 0 * Block = 0 /\ 1 * Block = Block
    BY BlockOf
  <2>3. 0 < q
    BY <1>2, <1>5, <2>1, <2>2, BlockOf
  <2>4. 1 <= q /\ 1 \in Nat
    BY <2>3
  <2>5. 1 * Block <= q * Block
    BY <2>4, Products
  <2>. QED  BY <2>1, <2>2, <2>5
<1>. HIDE DEF s
<1>6. Kept(s, nodes, 0, bytes)
  BY <1>1, <1>2, <1>3, <1>4, <1>5, BlockOf DEF Kept
<1>. QED  BY <1>6 DEF s

LEMMA KeptPlaced ==
    ASSUME NEW nodes \in Files, NEW bytes \in Nat, NEW k \in 1..Len(nodes), NEW s \in States,
           Kept(s, nodes, k - 1, bytes), NEW t, t = Placed(s, nodes[k], bytes)
    PROVE  Kept(t, nodes, k, bytes)
<1>. DEFINE n == nodes[k]
            L == Len(s.blocks)
<1>0. /\ n \in FileNode /\ First(nodes, k - 1) \in Lists(FileNode)
      /\ First(nodes, k) = Append(First(nodes, k - 1), n)
  <2>1. Len(nodes) \in Nat /\ k - 1 \in 0..Len(nodes)
    BY FirstOf DEF Files
  <2>. QED  BY <2>1, FirstOf DEF Files
<1>1. First(nodes, k) = Cat(First(nodes, k - 1), <<n>>)
  BY <1>0, LongerOf
<1>. HIDE DEF n
<1>2. /\ t \in States
      /\ \/ Refuses(s, n, bytes) /\ t.failed
         \/ ~Refuses(s, n, bytes) /\ ~t.failed /\ (Fitted(s, n, t) \/ Crowded(s, n, t) \/ Opened(s, n, t, bytes))
  BY <1>0, PlacedOf DEF n
<1>3. /\ s.blocks \in Images /\ t.blocks \in Images /\ L \in Nat /\ L \in 1..L /\ s.blocks # <<>>
      /\ s.offset \in Nat /\ End(s) = L * Block /\ n.copied \in Nat /\ n # Clean
  BY <1>0, <1>2, StateOf, NodeOf DEF States, End
<1>4. SUFFICES ASSUME ~t.failed PROVE Kept(t, nodes, k, bytes)
  BY DEF Kept
<1>5. /\ ~s.failed /\ n.copied <= Room
      /\ Gathered(s.blocks) = First(nodes, k - 1) /\ Filling(s.blocks) /\ s.offset <= End(s)
      /\ HeadsClean(s.blocks) /\ Whole(bytes) => End(s) <= bytes
  <2>1. ~Refuses(s, n, bytes)
    BY <1>2, <1>4
  <2>2. ~s.failed /\ ~(n.copied > Room)
    BY <2>1 DEF Refuses
  <2>3. n.copied <= Room
    BY <1>3, <2>2, BlockOf
  <2>. QED  BY <2>2, <2>3 DEF Kept
<1>6. L * Block \in Nat /\ (L + 1) * Block = L * Block + Block
  BY <1>3, Products
<1>7. CASE Fitted(s, n, t)
  <2>1. /\ Len(t.blocks) = L /\ Longer(s.blocks[L], n, t.blocks[L])
        /\ \A b \in 1..L - 1 : t.blocks[b] = s.blocks[b]
        /\ t.offset = s.offset + n.copied /\ s.offset + n.copied <= End(s)
    BY <1>7 DEF Fitted
  <2>2. Gathered(t.blocks) = First(nodes, k)
    BY <1>0, <1>1, <1>3, <1>5, <2>1, GatherLast
  <2>3. Len(s.blocks[L]) >= 1 /\ Len(s.blocks[L]) \in Nat
    <3>1. s.blocks[L] \in Blocks
      BY <1>3, ImagesOf
    <3>. QED  BY <1>3, <1>5, <3>1, PiecesOf DEF Filling
  <2>4. Len(t.blocks[L]) = Len(s.blocks[L]) + 1 /\ t.blocks[L][1] = s.blocks[L][1]
    <3>1. 1 \in 1..Len(s.blocks[L])
      BY <2>3
    <3>. QED  BY <2>1, <3>1 DEF Longer
  <2>5. \A b \in 1..L : b \in 1..L - 1 \/ b = L
    BY <1>3
  <2>6. Filling(t.blocks)
    <3>. SUFFICES ASSUME NEW b \in 1..L PROVE Len(t.blocks[b]) >= 1
      BY <2>1 DEF Filling
    <3>1. CASE b = L
      BY <2>3, <2>4, <3>1
    <3>2. CASE b \in 1..L - 1
      <4>1. t.blocks[b] = s.blocks[b]
        BY <2>1, <3>2
      <4>. QED  BY <1>5, <4>1 DEF Filling
    <3>. QED  BY <2>5, <3>1, <3>2
  <2>7. ASSUME HeadsClean(t.blocks) PROVE HeadsClean(s.blocks)
    <3>. SUFFICES ASSUME NEW b \in 1..L PROVE s.blocks[b][1] = Clean
      BY DEF HeadsClean
    <3>1. t.blocks[b][1] = Clean
      BY <2>1, <2>7 DEF HeadsClean
    <3>2. CASE b = L
      BY <2>4, <3>1, <3>2
    <3>3. CASE b \in 1..L - 1
      BY <2>1, <3>1, <3>3
    <3>. QED  BY <2>5, <3>2, <3>3
  <2>8. End(t) = End(s)
    BY <2>1 DEF End
  <2>. QED  BY <1>5, <2>1, <2>2, <2>6, <2>7, <2>8 DEF Kept
<1>8. ASSUME NEW block \in Blocks, Longer(s.blocks, block, t.blocks), Len(block) >= 1,
             ReadNodes(block) = <<n>>
      PROVE  /\ Gathered(t.blocks) = First(nodes, k) /\ Filling(t.blocks)
             /\ End(t) = End(s) + Block
             /\ HeadsClean(t.blocks) => HeadsClean(s.blocks) /\ block[1] = Clean
  <2>1. Gathered(t.blocks) = First(nodes, k)
    BY <1>1, <1>3, <1>5, <1>8, GatherMore
  <2>2. /\ Len(t.blocks) = L + 1 /\ t.blocks[L + 1] = block
        /\ \A b \in 1..L : t.blocks[b] = s.blocks[b]
    BY <1>8 DEF Longer
  <2>3. /\ \A b \in 1..L + 1 : b \in 1..L \/ b = L + 1
        /\ \A b \in 1..L : b \in 1..L + 1
        /\ L + 1 \in 1..L + 1
    BY <1>3
  <2>4. Filling(t.blocks)
    BY <1>5, <1>8, <2>2, <2>3 DEF Filling
  <2>5. HeadsClean(t.blocks) => HeadsClean(s.blocks) /\ block[1] = Clean
    BY <2>2, <2>3 DEF HeadsClean
  <2>6. End(t) = End(s) + Block
    BY <1>3, <1>6, <2>2 DEF End
  <2>. QED  BY <2>1, <2>4, <2>5, <2>6
<1>9. CASE Crowded(s, n, t)
  <2>1. t.offset = s.offset + n.copied /\ Longer(s.blocks, <<n>>, t.blocks)
    BY <1>9 DEF Crowded
  <2>2. <<n>> \in Blocks /\ ReadNodes(<<n>>) = <<n>> /\ Len(<<n>>) >= 1 /\ <<n>>[1] = n
    <3>1. Len(<<n>>) >= 1 /\ <<n>>[1] = n
      OBVIOUS
    <3>. QED  BY <1>0, <3>1, ReadOne
  <2>3. Gathered(t.blocks) = First(nodes, k) /\ Filling(t.blocks) /\ End(t) = End(s) + Block
        /\ ~HeadsClean(t.blocks)
    BY <1>3, <1>8, <2>1, <2>2
  <2>4. t.offset <= End(t)
    BY <1>3, <1>5, <1>6, <2>1, <2>3, BlockOf
  <2>. QED  BY <2>3, <2>4 DEF Kept
<1>10. CASE Opened(s, n, t, bytes)
  <2>1. t.offset = End(s) + Marker + n.copied /\ Longer(s.blocks, <<Clean, n>>, t.blocks)
        /\ End(s) + Marker <= bytes
    BY <1>10 DEF Opened
  <2>2. <<Clean, n>> \in Blocks /\ ReadNodes(<<Clean, n>>) = <<n>> /\ Len(<<Clean, n>>) >= 1
    <3>1. Len(<<Clean, n>>) >= 1
      OBVIOUS
    <3>. QED  BY <1>0, <3>1, ReadOne
  <2>3. Gathered(t.blocks) = First(nodes, k) /\ Filling(t.blocks) /\ End(t) = End(s) + Block
    BY <1>8, <2>1, <2>2
  <2>4. t.offset <= End(t)
    BY <1>3, <1>5, <1>6, <2>1, <2>3, BlockOf
  <2>5. ASSUME Whole(bytes) PROVE End(t) <= bytes
    <3>1. PICK q \in Nat : bytes = q * Block
      BY <2>5, Quotient DEF Whole
    <3>2. L * Block < q * Block
      BY <1>3, <1>6, <2>1, <3>1, BlockOf
    <3>3. L * Block + Block <= q * Block
      BY <1>3, <3>1, <3>2, Products
    <3>. QED  BY <1>3, <2>3, <3>1, <3>3
  <2>. QED  BY <2>3, <2>4, <2>5 DEF Kept
<1>. QED  BY <1>2, <1>4, <1>7, <1>9, <1>10

LEMMA KeptLayout ==
    ASSUME NEW nodes \in Files, NEW bytes \in Nat, NEW s, s = Layout(nodes, bytes)
    PROVE  s \in States /\ Kept(s, nodes, Len(nodes), bytes)
<1>1. PICK after : Run(after, nodes, bytes) /\ s = after[Len(nodes)]
  BY LayoutOf
<1>2. /\ \A k \in 0..Len(nodes) : after[k] \in States
      /\ after[0] = Start(bytes)
      /\ \A k \in 1..Len(nodes) : after[k] = Placed(after[k - 1], nodes[k], bytes)
  BY <1>1 DEF Run
<1>3. Len(nodes) \in Nat
  BY FirstOf DEF Files
<1>. DEFINE Good == {k \in 0..Len(nodes) : Kept(after[k], nodes, k, bytes)}
<1>4. 0 \in Good
  BY <1>2, <1>3, KeptStart
<1>5. \A k \in 1..Len(nodes) : k - 1 \in Good => k \in Good
  <2>. SUFFICES ASSUME NEW k \in 1..Len(nodes), Kept(after[k - 1], nodes, k - 1, bytes)
                PROVE  k \in 0..Len(nodes) /\ Kept(after[k], nodes, k, bytes)
    OBVIOUS
  <2>1. k \in 0..Len(nodes) /\ k - 1 \in 0..Len(nodes)
    BY <1>3
  <2>. QED  BY <1>2, <2>1, KeptPlaced
<1>. HIDE DEF Good
<1>6. \A k \in 0..Len(nodes) : k \in Good
  BY <1>3, <1>4, <1>5, UpTo
<1>7. Len(nodes) \in 0..Len(nodes)
  BY <1>3
<1>. QED  BY <1>1, <1>2, <1>6, <1>7 DEF Good

-----------------------------------------------------------------------------
(* What is written *)

LEMMA MaxOf ==
    ASSUME NEW a \in Nat, NEW b \in Nat, NEW c \in Nat
    PROVE  /\ Max({a, b, c}) \in Nat /\ Max({a, b, c}) >= a
           /\ b <= a /\ c <= a => Max({a, b, c}) = a
<1>1. \E x \in {a, b, c} : \A y \in {a, b, c} : x >= y
  OBVIOUS
<1>2. Max({a, b, c}) \in {a, b, c} /\ \A y \in {a, b, c} : Max({a, b, c}) >= y
  BY <1>1 DEF Max
<1>. QED  BY <1>2

LEMMA CountOf ==
    ASSUME NEW a \in Nat, NEW b \in Nat, a <= b
    PROVE  Cardinality(a..b - 1) = b - a
<1>1. a \in Int /\ b - 1 \in Int /\ (IF a > b - 1 THEN 0 ELSE (b - 1) - a + 1) = b - a
  OBVIOUS
<1>. QED  BY <1>1, FS_Interval

Joined(a, b, c) ==
    /\ Len(c) = Len(a) + Len(b)
    /\ \A i \in 1..Len(a) : c[i] = a[i]
    /\ \A i \in Len(a) + 1..Len(a) + Len(b) : c[i] = b[i - Len(a)]

LEMMA JoinOf ==
    ASSUME NEW S, NEW a \in Lists(S), NEW b \in Lists(S)
    PROVE  Cat(a, b) \in Lists(S) /\ Joined(a, b, Cat(a, b))
<1>. DEFINE c == a \o b
<1>1. a \in Seq(S) /\ b \in Seq(S)
  BY DEF Lists
<1>2. c \in Seq(S) /\ Len(c) = Len(a) + Len(b)
  BY <1>1
<1>3. \A i \in 1..Len(a) : c[i] = a[i]
  BY <1>1
<1>4. \A i \in Len(a) + 1..Len(a) + Len(b) : c[i] = b[i - Len(a)]
  BY <1>1
<1>. QED  BY <1>2, <1>3, <1>4 DEF Cat, Lists, Joined

\* The blocks after the last one that is laid out.
More(s, bytes) == {b \in Len(s.blocks)..bytes : b * Block < bytes}
Rest(s, bytes) == Cardinality(More(s, bytes))

LEMMA RestOf ==
    ASSUME NEW s \in States, NEW bytes \in Nat
    PROVE  /\ Rest(s, bytes) \in Nat /\ (More(s, bytes) # {} => Rest(s, bytes) >= 1)
           /\ \A q \in Nat : bytes = q * Block /\ Len(s.blocks) <= q => Rest(s, bytes) = q - Len(s.blocks)
<1>. DEFINE L == Len(s.blocks)
<1>1. L \in Nat
  BY StateOf
<1>2. IsFiniteSet(L..bytes)
  BY <1>1, FS_Interval
<1>3. More(s, bytes) \in SUBSET (L..bytes)
  BY DEF More
<1>4. IsFiniteSet(More(s, bytes))
  BY <1>2, <1>3, FS_Subset
<1>5. Rest(s, bytes) \in Nat /\ (More(s, bytes) # {} => Rest(s, bytes) # 0)
  BY <1>4, FS_CardinalityType, FS_EmptySet DEF Rest
<1>6. ASSUME NEW q \in Nat, bytes = q * Block, L <= q PROVE Rest(s, bytes) = q - L
  <2>1. q <= bytes
    <3>1. \A k \in Nat : k <= k * Block
      BY BlockOf
    <3>. QED  BY <1>6, <3>1
  <2>2. \A b \in Nat : b * Block < bytes <=> b < q
    BY <1>6, Products
  <2>3. \A b \in L..bytes : b \in Nat /\ (b * Block < bytes <=> b <= q - 1)
    BY <1>1, <1>6, <2>2
  <2>4. More(s, bytes) = {b \in L..bytes : b <= q - 1}
    BY <2>3 DEF More
  <2>5. {b \in L..bytes : b <= q - 1} = L..q - 1
    BY <1>1, <1>6, <2>1
  <2>6. Cardinality(L..q - 1) = q - L
    BY <1>1, <1>6, CountOf
  <2>. QED  BY <2>4, <2>5, <2>6 DEF Rest
<1>. QED  BY <1>5, <1>6

Extended(bs, r, cs) ==
    /\ Len(cs) = Len(bs) + r
    /\ \A b \in 1..Len(bs) : cs[b] = bs[b]
    /\ \A b \in Len(bs) + 1..Len(cs) : cs[b] = <<Clean>>

LEMMA FilledOf ==
    ASSUME NEW s \in States, NEW bytes \in Nat, NEW image, image = Filled(s, bytes)
    PROVE  /\ image.blocks \in Images /\ Extended(s.blocks, Rest(s, bytes), image.blocks)
           /\ image.size \in Nat /\ image.size >= bytes
           /\ \A q \in Nat : /\ bytes = q * Block /\ Len(s.blocks) <= q /\ s.offset <= bytes
                             => image.size = bytes /\ Len(image.blocks) = q
<1>. DEFINE L     == Len(s.blocks)
            r     == Rest(s, bytes)
            more  == More(s, bytes)
            end   == IF more = {} THEN 0 ELSE (L + r - 1) * Block + Marker
            clean == [i \in 1..r |-> <<Clean>>]
<1>1. L \in Nat /\ r \in Nat /\ s.offset \in Nat /\ s.blocks \in Lists(Blocks) /\ L >= 1
      /\ (more # {} => r >= 1)
  BY StateOf, RestOf DEF Images
<1>2. image.blocks = s.blocks \o clean /\ image.size = Max({bytes, s.offset, end})
  BY DEF Filled, More, Rest
<1>3. clean \in Seq(Blocks) /\ Len(clean) = r /\ \A i \in 1..r : clean[i] = <<Clean>>
  BY <1>1, ReadClean
<1>. HIDE DEF clean
<1>4. /\ image.blocks \in Lists(Blocks) /\ Len(image.blocks) = L + r
      /\ \A b \in 1..L : image.blocks[b] = s.blocks[b]
      /\ \A b \in L + 1..L + r : image.blocks[b] = clean[b - L]
  <2>1. clean \in Lists(Blocks) /\ Len(clean) = r /\ image.blocks = Cat(s.blocks, clean)
    BY <1>2, <1>3 DEF Cat, Lists
  <2>. HIDE DEF L, r
  <2>2. image.blocks \in Lists(Blocks) /\ Joined(s.blocks, clean, image.blocks)
    BY <1>1, <2>1, JoinOf
  <2>. QED  BY <2>1, <2>2 DEF L, Joined
<1>5. \A b \in L + 1..L + r : image.blocks[b] = <<Clean>>
  <2>. SUFFICES ASSUME NEW b \in L + 1..L + r PROVE image.blocks[b] = <<Clean>>
    OBVIOUS
  <2>1. b - L \in 1..r
    BY <1>1
  <2>. QED  BY <1>3, <1>4, <2>1
<1>6. end \in Nat
  <2>1. CASE more = {}
    BY <2>1
  <2>2. CASE more # {}
    <3>1. L + r - 1 \in Nat
      BY <1>1
    <3>2. (L + r - 1) * Block \in Nat
      BY <3>1, Products
    <3>. QED  BY <2>2, <3>2, BlockOf
  <2>. QED  BY <2>1, <2>2
<1>. HIDE DEF end
<1>7. ASSUME NEW q \in Nat, bytes = q * Block, L <= q, s.offset <= bytes
      PROVE  image.size = bytes /\ L + r = q
  <2>1. r = q - L
    BY <1>7, RestOf
  <2>2. end <= bytes
    <3>1. CASE more = {}
      BY <3>1 DEF end
    <3>2. CASE more # {}
      <4>1. q - 1 \in Nat /\ end = (q - 1) * Block + Marker /\ q - 1 < q
        BY <1>1, <1>7, <2>1, <3>2 DEF end
      <4>2. (q - 1) * Block \in Nat /\ (q - 1) * Block + Block <= q * Block /\ q * Block \in Nat
        BY <4>1, Products
      <4>. QED  BY <1>7, <4>1, <4>2, BlockOf
    <3>. QED  BY <3>1, <3>2
  <2>3. Max({bytes, s.offset, end}) = bytes
    BY <1>1, <1>6, <1>7, <2>2, MaxOf
  <2>. QED  BY <1>1, <1>2, <1>7, <2>1, <2>3
<1>8. image.size \in Nat /\ image.size >= bytes
  <2>1. Max({bytes, s.offset, end}) \in Nat /\ Max({bytes, s.offset, end}) >= bytes
    BY <1>1, <1>6, MaxOf
  <2>. QED  BY <1>2, <2>1
<1>. HIDE DEF r, more
<1>9. image.blocks \in Images
  BY <1>4 DEF Images
<1>10. Extended(s.blocks, r, image.blocks)
  BY <1>4, <1>5 DEF Extended
<1>. QED  BY <1>4, <1>7, <1>8, <1>9, <1>10 DEF r

\* The sums of the nodes of a block.
CopiedList(nodes)  == [i \in DOMAIN nodes |-> nodes[i].copied]
AlignedList(nodes) == [i \in DOMAIN nodes |-> Align4(nodes[i].length)]

LEMMA SumsOf ==
    ASSUME NEW nodes \in Blocks
    PROVE  /\ CopiedList(nodes) \in Numbers /\ AlignedList(nodes) \in Numbers
           /\ Len(CopiedList(nodes)) = Len(nodes) /\ Len(AlignedList(nodes)) = Len(nodes) /\ Len(nodes) \in Nat
           /\ \A i \in 1..Len(nodes) : /\ CopiedList(nodes)[i] = nodes[i].copied
                                       /\ AlignedList(nodes)[i] = Align4(nodes[i].length)
                                       /\ nodes[i] \in AnyNode
           /\ Copied(nodes) = Totals(CopiedList(nodes)) /\ Aligned(nodes) = Totals(AlignedList(nodes))
<1>1. DOMAIN nodes = 1..Len(nodes) /\ Len(nodes) \in Nat /\ \A i \in 1..Len(nodes) : nodes[i] \in AnyNode
  BY DEF Blocks, Lists
<1>2. \A i \in 1..Len(nodes) : nodes[i].copied \in Nat /\ Align4(nodes[i].length) \in Nat
  BY <1>1, CleanOf
<1>3. CopiedList(nodes) \in [1..Len(nodes) -> Nat] /\ \A i \in 1..Len(nodes) : CopiedList(nodes)[i] = nodes[i].copied
  BY <1>1, <1>2 DEF CopiedList
<1>4. /\ AlignedList(nodes) \in [1..Len(nodes) -> Nat]
      /\ \A i \in 1..Len(nodes) : AlignedList(nodes)[i] = Align4(nodes[i].length)
  BY <1>1, <1>2 DEF AlignedList
<1>5. CopiedList(nodes) \in Numbers /\ Len(CopiedList(nodes)) = Len(nodes)
  BY <1>1, <1>3 DEF Numbers
<1>6. AlignedList(nodes) \in Numbers /\ Len(AlignedList(nodes)) = Len(nodes)
  BY <1>1, <1>4 DEF Numbers
<1>7. Copied(nodes) = Totals(CopiedList(nodes)) /\ Aligned(nodes) = Totals(AlignedList(nodes))
  BY DEF Copied, Aligned, CopiedList, AlignedList
<1>. QED  BY <1>1, <1>3, <1>4, <1>5, <1>6, <1>7

LEMMA PartOfAll ==
    ASSUME NEW nodes \in Blocks
    PROVE  /\ Part(nodes, 1, Len(nodes)) <= Aligned(nodes)[Len(nodes)]
           /\ Part(nodes, 1, Len(nodes)) \in Nat /\ Aligned(nodes)[Len(nodes)] \in Nat
<1>. DEFINE s == CopiedList(nodes)
            t == AlignedList(nodes)
            m == Len(nodes)
<1>1. s \in Numbers /\ t \in Numbers /\ Len(s) = m /\ Len(t) = m /\ m \in Nat
      /\ Copied(nodes) = Totals(s) /\ Aligned(nodes) = Totals(t)
  BY SumsOf
<1>2. \A i \in 1..m : s[i] <= t[i]
  BY SumsOf, CleanOf
<1>3. Totals(s)[0] = 0 /\ Totals(s)[m] \in Nat /\ Totals(t)[m] \in Nat
  <2>1. m \in 0..m
    BY <1>1
  <2>. QED  BY <1>1, <2>1, TotalsOf
<1>. HIDE DEF s, t, m
<1>4. Totals(s)[m] <= Totals(t)[m]
  BY <1>1, <1>2, TotalsLess
<1>5. 1 - 1 = 0
  OBVIOUS
<1>6. Part(nodes, 1, m) = Totals(s)[m] - 0
  BY <1>1, <1>3, <1>5 DEF Part
<1>. QED  BY <1>1, <1>3, <1>4, <1>6 DEF m

\* What is written holds the nodes it was given and is of the size that was asked for.
Faithful(nodes, bytes, image) ==
    /\ image.blocks \in Images /\ Nodes(image) = nodes
    /\ \A b \in DOMAIN image.blocks : Part(image.blocks[b], 1, Len(image.blocks[b])) <= Block
    /\ image.size >= bytes /\ (bytes % Block = 0 => image.size = bytes)

LEMMA RepackedOf ==
    ASSUME NEW nodes \in Files, NEW bytes \in Nat, NEW image,
           image = Repacked(<<Clean>> \o nodes, bytes), image # Refused
    PROVE  Faithful(nodes, bytes, image)
<1>. DEFINE s == Layout(nodes, bytes)
            L == Len(s.blocks)
<1>1. ReadNodes(<<Clean>> \o nodes) = nodes
  BY ReadAll
<1>2. ~s.failed /\ image = Filled(s, bytes) /\ Valid(image)
  BY <1>1 DEF Repacked
<1>3. s \in States /\ Kept(s, nodes, Len(nodes), bytes)
  BY KeptLayout
<1>. HIDE DEF s
<1>4. /\ Gathered(s.blocks) = nodes /\ s.offset <= End(s)
      /\ HeadsClean(s.blocks) /\ Whole(bytes) => End(s) <= bytes
  BY <1>2, <1>3, FirstOf DEF Kept, Files
<1>5. /\ image.blocks \in Images /\ Len(image.blocks) = L + Rest(s, bytes)
      /\ \A b \in 1..L : image.blocks[b] = s.blocks[b]
      /\ \A b \in L + 1..Len(image.blocks) : image.blocks[b] = <<Clean>>
      /\ image.size >= bytes
      /\ \A q \in Nat : bytes = q * Block /\ L <= q /\ s.offset <= bytes => image.size = bytes
  <2>1. bytes \in Nat /\ s \in States /\ image = Filled(s, bytes)
    BY <1>2, <1>3
  <2>2. image.blocks \in Images /\ Extended(s.blocks, Rest(s, bytes), image.blocks) /\ image.size >= bytes
    BY <2>1, FilledOf
  <2>3. ASSUME NEW q \in Nat, bytes = q * Block, L <= q, s.offset <= bytes PROVE image.size = bytes
    BY <2>1, <2>3, FilledOf
  <2>. QED  BY <2>2, <2>3 DEF Extended
<1>6. s.blocks \in Images /\ L \in Nat /\ s.offset \in Nat /\ End(s) = L * Block /\ Rest(s, bytes) \in Nat
      /\ L * Block \in Nat
  BY <1>3, StateOf, RestOf, Products DEF End
<1>7. DOMAIN image.blocks = 1..Len(image.blocks) /\ Len(image.blocks) >= L
      /\ \A b \in 1..L : b \in DOMAIN image.blocks
  BY <1>5, <1>6, ImagesOf
<1>8. Nodes(image) = nodes
  <2>1. Gathered(image.blocks) = Gathered(s.blocks)
    BY <1>5, <1>6, <1>7, GatherClean
  <2>2. Nodes(image) = Gathered(image.blocks)
    BY DEF Nodes, Gathered, ReadBlocks
  <2>. QED  BY <1>4, <2>1, <2>2
<1>9. \A b \in DOMAIN image.blocks :
         /\ image.blocks[b] # <<>> /\ Head(image.blocks[b]) = Clean
         /\ (b - 1) * Block + Aligned(image.blocks[b])[Len(image.blocks[b])] <= b * Block
  BY <1>2 DEF Valid
<1>10. ASSUME NEW b \in DOMAIN image.blocks
       PROVE  Part(image.blocks[b], 1, Len(image.blocks[b])) <= Block
  <2>. DEFINE block == image.blocks[b]
              p == Part(block, 1, Len(block))
              a == Aligned(block)[Len(block)]
  <2>1. b \in 1..Len(image.blocks) /\ Len(image.blocks) \in Nat /\ block \in Blocks
    BY <1>5, <1>7, ImagesOf
  <2>2. p <= a /\ p \in Nat /\ a \in Nat
    BY <2>1, PartOfAll
  <2>3. (b - 1) * Block + a <= b * Block
    BY <1>9
  <2>4. b - 1 \in Nat /\ (b - 1) + 1 = b
    BY <2>1
  <2>5. (b - 1) * Block \in Nat /\ b * Block = (b - 1) * Block + Block
    BY <2>4, Products
  <2>. HIDE DEF p, a, block
  <2>6. p <= Block
    BY <2>2, <2>3, <2>5, BlockOf
  <2>. QED  BY <2>6 DEF p, block
<1>11. HeadsClean(s.blocks)
  <2>. SUFFICES ASSUME NEW b \in 1..L PROVE s.blocks[b][1] = Clean
    BY DEF HeadsClean
  <2>1. image.blocks[b] # <<>> /\ Head(image.blocks[b]) = Clean /\ image.blocks[b] = s.blocks[b]
    BY <1>5, <1>7, <1>9
  <2>2. s.blocks[b] \in Seq(AnyNode)
    BY <1>6, ImagesOf DEF Blocks, Lists
  <2>. QED  BY <2>1, <2>2
<1>12. ASSUME bytes % Block = 0 PROVE image.size = bytes
  <2>1. PICK q \in Nat : bytes = q * Block
    BY <1>12, Quotient
  <2>2. End(s) <= bytes
    BY <1>4, <1>11, <1>12 DEF Whole
  <2>3. ~(q < L)
    <3>1. q < L <=> q * Block < L * Block
      BY <1>6, Products
    <3>. QED  BY <1>6, <2>1, <2>2, <3>1
  <2>4. L <= q /\ s.offset <= bytes
    BY <1>4, <1>6, <2>2, <2>3
  <2>. QED  BY <1>5, <2>1, <2>4
<1>. QED  BY <1>5, <1>8, <1>10, <1>12 DEF Faithful

-----------------------------------------------------------------------------
(* The trees of the operator *)

\* The nodes mkfs.jffs2 makes: all but the last are padded.
Trees == {nodes \in Files :
             nodes # <<>> /\ \A i \in 1..Len(nodes) - 1 : nodes[i].copied = Align4(nodes[i].length)}

\* What the operator has put together and repacked.
TreeInv ==
    /\ source = <<>> \/ \E nodes \in Trees : source = <<Clean>> \o nodes
    /\ slot # NoSlot => size \in Sizes /\ \E nodes \in Trees :
                           source = <<Clean>> \o nodes /\ slot = Repacked(source, size)

LEMMA TreeOf ==
    ASSUME NEW n \in 1..MaxNodes, NEW padded \in BOOLEAN, NEW lengths \in [1..n -> Lengths]
    PROVE  Tree(lengths, padded) \in Trees
<1>. DEFINE nodes == Tree(lengths, padded)
            copied(i) == IF i = n /\ ~padded THEN lengths[i] ELSE Align4(lengths[i])
<1>1. n \in Nat /\ n >= 1 /\ \A i \in 1..n : lengths[i] \in Nat /\ lengths[i] >= Marker
  <2>1. n \in Nat /\ n >= 1 /\ \A i \in 1..n : lengths[i] \in Lengths
    BY RecoveryAssumption
  <2>2. \A l \in Lengths : l \in Nat /\ l >= Marker
    BY RecoveryAssumption
  <2>. QED  BY <2>1, <2>2
<1>2. DOMAIN lengths = 1..n /\ Len(lengths) = n
  BY <1>1
<1>3. nodes = [i \in 1..n |-> [id |-> i, length |-> lengths[i], copied |-> copied(i)]]
  BY <1>2 DEF Tree, Node
<1>4. \A i \in 1..n : copied(i) \in {lengths[i], Align4(lengths[i])} /\ copied(i) \in Nat
  BY <1>1, Align4Of
<1>. HIDE DEF nodes, copied
<1>5. \A i \in 1..n : nodes[i] = [id |-> i, length |-> lengths[i], copied |-> copied(i)]
  BY <1>3
<1>6. ASSUME NEW i \in 1..n PROVE nodes[i] \in FileNode
  <2>. DEFINE c == copied(i)
              l == lengths[i]
  <2>1. c \in {l, Align4(l)} /\ c \in Nat /\ l \in Nat /\ l >= Marker /\ i \in Nat \ {0}
    BY <1>1, <1>4
  <2>2. nodes[i] = [id |-> i, length |-> l, copied |-> c]
    BY <1>5
  <2>. HIDE DEF c, l
  <2>. QED  BY <2>1, <2>2 DEF FileNode
<1>7. nodes \in Files /\ Len(nodes) = n
  BY <1>1, <1>3, <1>6 DEF Files, Lists
<1>8. nodes # <<>>
  BY <1>1, <1>7
<1>9. \A i \in 1..n - 1 : i \in 1..n /\ copied(i) = Align4(lengths[i])
  BY <1>1 DEF copied
<1>10. \A i \in 1..n - 1 : nodes[i].copied = Align4(nodes[i].length)
  <2>. SUFFICES ASSUME NEW i \in 1..n - 1 PROVE nodes[i].copied = Align4(nodes[i].length)
    OBVIOUS
  <2>. DEFINE c == copied(i)
              l == lengths[i]
  <2>1. nodes[i] = [id |-> i, length |-> l, copied |-> c]
    BY <1>5, <1>9
  <2>2. c = Align4(l)
    BY <1>9
  <2>. HIDE DEF c, l
  <2>. QED  BY <2>1, <2>2
<1>11. nodes \in Trees
  BY <1>7, <1>8, <1>10 DEF Trees
<1>. QED  BY <1>11 DEF nodes

LEMMA TailOf ==
    ASSUME NEW nodes \in Files, NEW image, image = <<Clean>> \o nodes
    PROVE  Tail(image) = nodes /\ image # <<>>
<1>1. nodes \in Seq(FileNode)
  BY DEF Files, Lists
<1>2. \A c : LET s == <<c>> \o nodes IN Tail(s) = nodes /\ s # <<>>
  BY <1>1
<1>. QED  BY <1>2

LEMMA InitTrees == RecoveryInit => TreeInv
  BY DEF RecoveryInit, TreeInv

LEMMA NextTrees == TreeInv /\ [Next]_vars => TreeInv'
<1>. SUFFICES ASSUME TreeInv, [Next]_vars PROVE TreeInv'
  OBVIOUS
<1>1. ASSUME UNCHANGED <<source, size, slot>> PROVE TreeInv'
  BY <1>1 DEF TreeInv
<1>2. ASSUME slot' = NoSlot, source' = <<>> PROVE TreeInv'
  BY <1>2 DEF TreeInv
<1>3. ASSUME MakeTree PROVE TreeInv'
  <2>1. PICK n \in 1..MaxNodes, padded \in BOOLEAN :
            \E lengths \in [1..n -> Lengths] : source' = <<Clean>> \o Tree(lengths, padded)
    BY <1>3 DEF MakeTree
  <2>5. PICK lengths \in [1..n -> Lengths] : source' = <<Clean>> \o Tree(lengths, padded)
    BY <2>1
  <2>2. Tree(lengths, padded) \in Trees
    BY TreeOf
  <2>3. source = <<>> /\ slot' = slot
    BY <1>3 DEF MakeTree
  <2>4. slot = NoSlot
    <3>1. \A nodes \in Trees : source # <<Clean>> \o nodes
      BY <2>3, TailOf DEF Trees
    <3>. QED  BY <3>1 DEF TreeInv
  <2>. QED  BY <2>2, <2>3, <2>4, <2>5 DEF TreeInv
<1>4. ASSUME NEW s \in Sizes, Repack(s) PROVE TreeInv'
  <2>1. slot' = Repacked(source, s) /\ size' = s /\ source' = source /\ source # <<>>
    BY <1>4 DEF Repack
  <2>2. \E nodes \in Trees : source = <<Clean>> \o nodes
    BY <2>1 DEF TreeInv
  <2>. QED  BY <2>1, <2>2 DEF TreeInv
<1>. QED  BY <1>1, <1>2, <1>3, <1>4 DEF Next, Operate, vars, files, Keep, Discard, Build, Dump, Compare


-----------------------------------------------------------------------------
(* What can be laid out is *)

\* The bytes of a block up to which validate() gets.
Height(block) == Aligned(block)[Len(block)]

LEMMA HeightOf ==
    ASSUME NEW block \in Blocks, NEW n \in AnyNode, NEW next \in Blocks, Longer(block, n, next)
    PROVE  Height(block) \in Nat /\ Height(next) = Height(block) + Align4(n.length)
<1>. DEFINE s == AlignedList(block)
            t == AlignedList(next)
<1>1. /\ s \in Numbers /\ Len(s) = Len(block) /\ Len(s) \in Nat /\ Aligned(block) = Totals(s)
      /\ \A i \in 1..Len(block) : s[i] = Align4(block[i].length)
  BY SumsOf
<1>2. /\ t \in Numbers /\ Len(t) = Len(next) /\ Aligned(next) = Totals(t)
      /\ \A i \in 1..Len(next) : t[i] = Align4(next[i].length)
  BY SumsOf
<1>. HIDE DEF s, t
<1>3. Len(next) = Len(block) + 1 /\ next[Len(next)] = n /\ \A i \in 1..Len(block) : next[i] = block[i]
  BY DEF Longer
<1>4. Len(t) = Len(s) + 1 /\ t[Len(t)] = Align4(n.length) /\ \A i \in 1..Len(s) : s[i] = t[i]
  BY <1>1, <1>2, <1>3
<1>5. Totals(t)[Len(t)] = Totals(s)[Len(s)] + t[Len(t)]
  BY <1>1, <1>2, <1>4, TotalsMore
<1>6. Totals(s)[Len(s)] \in Nat
  BY <1>1, TotalsOf
<1>. QED  BY <1>1, <1>2, <1>4, <1>5, <1>6 DEF Height

LEMMA HeightClean == Height(<<Clean>>) = Marker
<1>1. <<>> \in Blocks /\ Longer(<<>>, Clean, <<Clean>>)
  BY ReadClean DEF Longer
<1>2. Height(<<>>) = 0
  <2>1. AlignedList(<<>>) \in Numbers /\ Aligned(<<>>) = Totals(AlignedList(<<>>)) /\ Len(<<>>) = 0
    BY ReadClean, SumsOf
  <2>. QED  BY <2>1, TotalsOf DEF Height
<1>3. Height(<<Clean>>) = 0 + Marker
  BY <1>1, <1>2, HeightOf, ReadClean, CleanOf
<1>. QED  BY <1>3, BlockOf

LEMMA PartOf ==
    ASSUME NEW nodes \in Files
    PROVE  /\ Len(nodes) \in Nat /\ \A i \in 0..Len(nodes) : Copied(nodes)[i] \in Nat
           /\ \A i \in 1..Len(nodes) : Copied(nodes)[i] = Copied(nodes)[i - 1] + nodes[i].copied
<1>1. nodes \in Blocks
  <2>1. FileNode \subseteq AnyNode
    BY DEF AnyNode
  <2>. QED  BY <2>1 DEF Files, Blocks, Lists
<1>. DEFINE s == CopiedList(nodes)
<1>2. /\ s \in Numbers /\ Len(s) = Len(nodes) /\ Len(nodes) \in Nat /\ Copied(nodes) = Totals(s)
      /\ \A i \in 1..Len(nodes) : s[i] = nodes[i].copied
  BY <1>1, SumsOf
<1>. HIDE DEF s
<1>. QED  BY <1>2, TotalsOf

\* How many of the cuts come before node p.
Before(cuts, p) == Cardinality(cuts \cap (1..p - 1))

LEMMA BeforeOf ==
    ASSUME NEW m \in Nat, NEW cuts \in SUBSET (1..m), NEW p \in Nat, NEW i \in Nat, p <= i + 1
    PROVE  /\ Before(cuts, p) \in Nat /\ Before(cuts, p) <= Cardinality(cuts) /\ Cardinality(cuts) \in Nat
           /\ cuts \cap (p..i) # {} /\ p >= 1 => Before(cuts, p) + 1 <= Before(cuts, i + 1)
<1>1. IsFiniteSet(cuts) /\ Cardinality(cuts) \in Nat
  <2>1. IsFiniteSet(1..m)
    BY FS_Interval
  <2>2. IsFiniteSet(cuts)
    BY <2>1, FS_Subset
  <2>. QED  BY <2>2, FS_CardinalityType
<1>2. \A T \in SUBSET cuts : IsFiniteSet(T) /\ Cardinality(T) \in Nat /\ Cardinality(T) <= Cardinality(cuts)
  BY <1>1, FS_Subset, FS_CardinalityType
<1>3. Before(cuts, p) \in Nat /\ Before(cuts, p) <= Cardinality(cuts)
  BY <1>2 DEF Before
<1>4. ASSUME cuts \cap (p..i) # {}, p >= 1 PROVE Before(cuts, p) + 1 <= Before(cuts, i + 1)
  <2>1. PICK c \in cuts : c \in p..i
    BY <1>4
  <2>. DEFINE S == cuts \cap (1..p - 1)
              T == cuts \cap (1..i)
  <2>2. c \notin S /\ S \cup {c} \subseteq T
    BY <1>4, <2>1
  <2>3. IsFiniteSet(S) /\ IsFiniteSet(T)
    BY <1>2
  <2>4. Before(cuts, p) = Cardinality(S) /\ Before(cuts, i + 1) = Cardinality(T)
    <3>1. (i + 1) - 1 = i
      OBVIOUS
    <3>. QED  BY <3>1 DEF Before
  <2>. HIDE DEF S, T
  <2>5. Cardinality(S \cup {c}) = Cardinality(S) + 1
    BY <2>2, <2>3, FS_AddElement
  <2>6. Cardinality(S \cup {c}) <= Cardinality(T)
    BY <2>2, <2>3, FS_Subset
  <2>. QED  BY <2>4, <2>5, <2>6
<1>. QED  BY <1>1, <1>3, <1>4

\* Where nodes may be cut so that each run fits a block.
CutsFit(nodes, cuts, k) ==
    /\ cuts \in SUBSET (1..Len(nodes) - 1) /\ Cardinality(cuts) < k
    /\ \A i \in DOMAIN nodes : \A j \in i..Len(nodes) :
           cuts \cap (i..j - 1) = {} => Part(nodes, i, j) <= Room

\* The first i nodes are laid out: those of the last block begin with node p, before which
\* there are no more blocks than cuts; and, as all nodes but the last are padded, bytes and
\* padded bytes of the last block are the same.
Packed(s, nodes, cuts, k, i) ==
    /\ ~s.failed /\ Filling(s.blocks) /\ HeadsClean(s.blocks) /\ Len(s.blocks) <= k
    /\ \A b \in 1..Len(s.blocks) : Height(s.blocks[b]) <= Block
    /\ i < Len(nodes) => /\ Height(s.blocks[Len(s.blocks)]) % 4 = 0
                         /\ s.offset = End(s) - Block + Height(s.blocks[Len(s.blocks)])
    /\ \E p \in 1..i + 1 : /\ s.offset = End(s) - Room + Part(nodes, p, i) /\ Part(nodes, p, i) <= Room
                           /\ Len(s.blocks) <= Before(cuts, p) + 1

LEMMA PackedStart ==
    ASSUME NEW nodes \in Files, NEW k \in Nat, NEW cuts, CutsFit(nodes, cuts, k)
    PROVE  Packed(Start(k * Block), nodes, cuts, k, 0)
<1>. DEFINE s == Start(k * Block)
<1>1. Len(nodes) \in Nat /\ Copied(nodes)[0] \in Nat
  BY PartOf
<1>2. IsFiniteSet(cuts) /\ Cardinality(cuts) < k
  <2>1. IsFiniteSet(1..Len(nodes) - 1)
    BY <1>1, FS_Interval
  <2>. QED  BY <2>1, FS_Subset DEF CutsFit
<1>3. k >= 1
  BY <1>2, FS_CardinalityType
<1>4. Marker <= k * Block
  <2>1. 1 * Block = Block /\ 1 \in Nat
    BY BlockOf
  <2>2. 1 * Block <= k * Block /\ k * Block \in Nat
    BY <1>3, Products
  <2>. QED  BY <2>1, <2>2, BlockOf
<1>5. s.blocks = <<<<Clean>>>> /\ s.offset = Marker /\ s.failed = (Marker > k * Block)
  BY DEF Start
<1>6. ~s.failed
  <2>1. k * Block \in Nat
    BY Products
  <2>2. \A z \in Nat : Marker <= z => ~(Marker > z)
    BY BlockOf
  <2>3. ~(Marker > k * Block)
    BY <1>4, <2>1, <2>2
  <2>. QED  BY <1>5, <2>3
<1>7. Len(s.blocks) = 1 /\ \A b \in 1..1 : s.blocks[b] = <<Clean>>
  BY <1>5
<1>8. Len(<<Clean>>) >= 1 /\ <<Clean>>[1] = Clean
  OBVIOUS
<1>. HIDE DEF s
<1>9. Filling(s.blocks) /\ HeadsClean(s.blocks)
  BY <1>7, <1>8 DEF Filling, HeadsClean
<1>10. End(s) = Block
  BY <1>7, BlockOf DEF End
<1>11. Height(s.blocks[1]) = Marker /\ Marker % 4 = 0
  BY <1>7, HeightClean, BlockOf
<1>12. Part(nodes, 1, 0) = 0
  <2>1. 1 - 1 = 0
    OBVIOUS
  <2>. QED  BY <1>1, <2>1 DEF Part
<1>13. Before(cuts, 1) = 0
  <2>1. 1..1 - 1 = {}
    OBVIOUS
  <2>2. cuts \cap (1..1 - 1) = {}
    BY <2>1
  <2>. QED  BY <2>2, FS_EmptySet DEF Before
<1>14. /\ 1 \in 1..0 + 1 /\ s.offset = End(s) - Room + Part(nodes, 1, 0) /\ Part(nodes, 1, 0) <= Room
       /\ Len(s.blocks) <= Before(cuts, 1) + 1
  BY <1>5, <1>7, <1>10, <1>12, <1>13, BlockOf
<1>15. \A b \in 1..1 : Height(s.blocks[b]) <= Block
  BY <1>7, HeightClean, BlockOf
<1>16. s.offset = End(s) - Block + Height(s.blocks[1])
  BY <1>5, <1>10, <1>11, BlockOf
<1>17. Packed(s, nodes, cuts, k, 0)
  BY <1>3, <1>6, <1>7, <1>9, <1>11, <1>14, <1>15, <1>16 DEF Packed
<1>. QED  BY <1>17 DEF s

LEMMA Fourths ==
    ASSUME NEW m \in Nat, NEW n \in Nat, m % 4 = 0, n % 4 = 0
    PROVE  (m + n) % 4 = 0 /\ (n <= m => m - n \in Nat /\ (m - n) % 4 = 0)
  OBVIOUS

LEMMA CopiedGrows ==
    ASSUME NEW nodes \in Files, NEW p \in 0..Len(nodes), NEW q \in 0..Len(nodes), p <= q
    PROVE  Copied(nodes)[p] <= Copied(nodes)[q]
<1>. DEFINE c(i) == Copied(nodes)[i]
            N == Len(nodes)
            Good == {i \in 0..N : p <= i => c(p) <= c(i)}
<1>1. N \in Nat /\ (\A i \in 0..N : c(i) \in Nat) /\ \A i \in 1..N : c(i) = c(i - 1) + nodes[i].copied
  BY PartOf
<1>2. \A i \in 1..N : nodes[i].copied \in Nat
  BY NodeOf, FirstOf DEF Files
<1>3. p \in 0..N /\ q \in 0..N
  OBVIOUS
<1>. HIDE DEF c, N
<1>4. 0 \in Good
  <2>1. p <= 0 => p = 0
    BY <1>1, <1>3
  <2>. QED  BY <1>1, <2>1
<1>5. \A i \in 1..N : i - 1 \in Good => i \in Good
  <2>. SUFFICES ASSUME NEW i \in 1..N, i - 1 \in Good, p <= i PROVE c(p) <= c(i)
    BY <1>1
  <2>1. CASE p = i
    BY <1>1, <1>3, <2>1
  <2>2. CASE p # i
    <3>1. p <= i - 1 /\ i - 1 \in 0..N /\ i \in 0..N
      BY <1>1, <1>3, <2>2
    <3>2. c(p) <= c(i - 1) /\ c(p) \in Nat /\ c(i - 1) \in Nat /\ c(i) = c(i - 1) + nodes[i].copied
      BY <1>1, <1>3, <3>1
    <3>. QED  BY <1>2, <3>2
  <2>. QED  BY <2>1, <2>2
<1>. HIDE DEF Good
<1>6. q \in Good
  BY <1>1, <1>3, <1>4, <1>5, UpTo
<1>. QED  BY <1>6 DEF Good, c

LEMMA FittedKeeps ==
    ASSUME NEW bs \in Images, NEW cs \in Images, NEW m \in Nat, m \in 1..m, Len(bs) = m, Len(cs) = m,
           NEW n, Longer(bs[m], n, cs[m]), \A b \in 1..m - 1 : cs[b] = bs[b], Filling(bs)
    PROVE  Filling(cs) /\ (HeadsClean(cs) <=> HeadsClean(bs))
<1>1. bs[m] \in Blocks /\ cs[m] \in Blocks
  BY ImagesOf
<1>2. Len(bs[m]) \in Nat /\ Len(bs[m]) >= 1
  BY <1>1, PiecesOf DEF Filling
<1>3. 1 \in 1..Len(bs[m])
  BY <1>2
<1>4. Len(cs[m]) = Len(bs[m]) + 1 /\ cs[m][1] = bs[m][1]
  BY <1>3 DEF Longer
<1>5. ASSUME NEW b \in 1..m PROVE Len(cs[b]) >= 1 /\ cs[b][1] = bs[b][1]
  <2>1. CASE b = m
    BY <1>2, <1>4, <2>1
  <2>2. CASE b \in 1..m - 1
    BY <2>2 DEF Filling
  <2>. QED  BY <2>1, <2>2
<1>. QED  BY <1>5 DEF Filling, HeadsClean

LEMMA OpenedKeeps ==
    ASSUME NEW bs \in Images, NEW cs \in Images, NEW block, Longer(bs, block, cs), Len(block) >= 1,
           Filling(bs)
    PROVE  Filling(cs) /\ (HeadsClean(cs) <=> HeadsClean(bs) /\ block[1] = Clean)
<1>1. Len(bs) \in Nat /\ Len(cs) = Len(bs) + 1 /\ cs[Len(cs)] = block /\ \A b \in 1..Len(bs) : cs[b] = bs[b]
  BY ImagesOf DEF Longer
<1>2. /\ \A b \in 1..Len(cs) : b \in 1..Len(bs) \/ b = Len(cs)
      /\ Len(cs) \in 1..Len(cs) /\ \A b \in 1..Len(bs) : b \in 1..Len(cs)
  BY <1>1
<1>3. Filling(cs)
  BY <1>1, <1>2 DEF Filling
<1>4. HeadsClean(cs) => HeadsClean(bs) /\ block[1] = Clean
  BY <1>1, <1>2 DEF HeadsClean
<1>5. HeadsClean(bs) /\ block[1] = Clean => HeadsClean(cs)
  BY <1>1, <1>2 DEF HeadsClean
<1>. QED  BY <1>3, <1>4, <1>5

LEMMA PackedPlaced ==
    ASSUME NEW nodes \in Trees, ~ExactRun(nodes),
           NEW k \in Nat, NEW cuts, CutsFit(nodes, cuts, k),
           NEW i \in 1..Len(nodes), NEW s \in States, Packed(s, nodes, cuts, k, i - 1),
           NEW t, t = Placed(s, nodes[i], k * Block)
    PROVE  Packed(t, nodes, cuts, k, i)
<1>. DEFINE n == nodes[i]
            L == Len(s.blocks)
            N == Len(nodes)
            a == Height(s.blocks[L])
            h == Align4(n.length)
            base == End(s) - Block
<1>1. /\ nodes \in Files /\ N \in Nat /\ i - 1 \in 0..N /\ n \in FileNode /\ DOMAIN nodes = 1..N
      /\ Copied(nodes)[i] \in Nat /\ Copied(nodes)[i - 1] \in Nat
      /\ Copied(nodes)[i] = Copied(nodes)[i - 1] + n.copied
  <2>1. nodes \in Files /\ N \in Nat
    BY FirstOf DEF Trees, Files
  <2>2. n \in FileNode /\ DOMAIN nodes = 1..N
    BY <2>1 DEF Files, Lists
  <2>3. i \in 0..N /\ i - 1 \in 0..N
    BY <2>1
  <2>. QED  BY <2>1, <2>2, <2>3, PartOf
<1>2. n.copied \in Nat /\ n \in AnyNode /\ n # Clean /\ n.length \in Nat /\ n.length <= n.copied
      /\ h \in Nat /\ h % 4 = 0 /\ n.copied <= h /\ \A m \in Nat : m % 4 = 0 /\ n.length <= m => h <= m
  BY <1>1, NodeOf, Align4Of DEF AnyNode
<1>3. i < N => n.copied = h
  BY <1>1 DEF Trees
<1>4. /\ ~s.failed /\ Filling(s.blocks) /\ HeadsClean(s.blocks) /\ L <= k
      /\ \A b \in 1..L : Height(s.blocks[b]) <= Block
      /\ a % 4 = 0 /\ s.offset = base + a
  <2>1. i - 1 < N
    BY <1>1
  <2>. QED  BY <2>1 DEF Packed
<1>. HIDE DEF n, h, a, L, N
<1>5. PICK p \in 1..(i - 1) + 1 : /\ s.offset = End(s) - Room + Part(nodes, p, i - 1)
                                  /\ Part(nodes, p, i - 1) <= Room /\ L <= Before(cuts, p) + 1
  BY DEF Packed, L
<1>6. p \in Nat /\ p >= 1 /\ p <= i /\ i \in Nat /\ p \in DOMAIN nodes /\ i \in p..N /\ p - 1 \in 0..N
  BY <1>1, <1>5
<1>7. /\ Part(nodes, p, i - 1) = Copied(nodes)[i - 1] - Copied(nodes)[p - 1] /\ Copied(nodes)[p - 1] \in Nat
      /\ Part(nodes, p, i) = Part(nodes, p, i - 1) + n.copied /\ Part(nodes, p, i - 1) \in Int
  <2>1. Copied(nodes)[p - 1] \in Nat
    BY <1>1, <1>6, PartOf
  <2>. DEFINE c == Copied(nodes)[i]
              d == Copied(nodes)[i - 1]
              e == Copied(nodes)[p - 1]
  <2>2. Part(nodes, p, i - 1) = d - e /\ Part(nodes, p, i) = c - e
    BY DEF Part
  <2>3. c \in Nat /\ d \in Nat /\ e \in Nat /\ c = d + n.copied
    BY <1>1, <2>1
  <2>. HIDE DEF c, d, e
  <2>4. c - e = (d - e) + n.copied /\ d - e \in Int
    BY <1>2, <2>3
  <2>5. Part(nodes, p, i) = Part(nodes, p, i - 1) + n.copied /\ Part(nodes, p, i - 1) \in Int
    BY <2>2, <2>4
  <2>. QED  BY <2>1, <2>2, <2>5 DEF d, e
<1>8. /\ s.blocks \in Images /\ L \in Nat /\ L \in 1..L /\ s.offset \in Nat /\ End(s) = L * Block
      /\ s.blocks[L] \in Blocks /\ L * Block \in Nat /\ L - 1 \in Nat /\ base = (L - 1) * Block
      /\ (L - 1) * Block \in Nat /\ (L - 1) * Block + Block = L * Block
  <2>1. /\ s.blocks \in Images /\ L \in Nat /\ L \in 1..L /\ s.offset \in Nat /\ End(s) = L * Block
    BY StateOf DEF End, L
  <2>2. s.blocks[L] \in Blocks /\ L - 1 \in Nat /\ (L - 1) + 1 = L
    BY <2>1, ImagesOf DEF L
  <2>3. L * Block \in Nat /\ (L - 1) * Block \in Nat /\ (L - 1) * Block + Block = L * Block
    BY <2>1, <2>2, Products
  <2>. DEFINE x == L * Block
              y == (L - 1) * Block
  <2>4. x \in Nat /\ y \in Nat /\ y + Block = x /\ base = x - Block
    BY <2>1, <2>3
  <2>. HIDE DEF x, y
  <2>5. base = y
    BY <2>4, BlockOf
  <2>. QED  BY <2>1, <2>2, <2>3, <2>5 DEF y
<1>9. ~Full(s)
  <2>. SUFFICES ASSUME Full(s) PROVE FALSE
    OBVIOUS
  <2>1. PICK q \in Nat : s.offset = q * Block
    BY <1>8, Quotient DEF Full
  <2>. SUFFICES Part(nodes, p, i - 1) = Room
    <3>1. p # i
      <4>1. ASSUME p = i PROVE Part(nodes, p, i - 1) = 0
        BY <1>1, <1>7, <4>1
      <4>. QED  BY <4>1, BlockOf
    <3>2. i - 1 \in p..N - 1
      BY <1>1, <1>6, <3>1
    <3>. QED  BY <1>6, <3>2 DEF ExactRun, N
  <2>2. (L - 1) * Block < s.offset /\ s.offset <= L * Block
    <3>1. s.offset = End(s) - Room + Part(nodes, p, i - 1)
      BY <1>5
    <3>. DEFINE z == Part(nodes, p, i - 1)
                x == L * Block
                y == (L - 1) * Block
    <3>2. z \in Int /\ z <= Room /\ s.offset = x - Room + z /\ x \in Nat /\ y \in Nat /\ y + Block = x
      BY <1>5, <1>7, <1>8
    <3>3. z >= 0
      <4>1. Copied(nodes)[p - 1] <= Copied(nodes)[i - 1]
        BY <1>1, <1>6, CopiedGrows DEF N
      <4>. QED  BY <1>1, <1>7, <4>1
    <3>. HIDE DEF x, y, z
    <3>4. y < s.offset /\ s.offset <= x
      BY <3>2, <3>3, BlockOf
    <3>. QED  BY <3>4 DEF x, y
  <2>3. L - 1 < q /\ ~(L < q)
    BY <1>8, <2>1, <2>2, Products
  <2>4. q = L
    BY <1>8, <2>3
  <2>. QED  BY <1>5, <1>7, <1>8, <2>1, <2>4, BlockOf
<1>10. n.copied <= Room
  <2>1. cuts \cap (i..i - 1) = {}
    <3>1. i..i - 1 = {}
      BY <1>6
    <3>. QED  BY <3>1
  <2>2. Part(nodes, i, i) <= Room
    BY <1>1, <1>6, <2>1 DEF CutsFit, N
  <2>3. Part(nodes, i, i) = n.copied
    BY <1>1, <1>2 DEF Part
  <2>. QED  BY <2>2, <2>3
\* A node that does not go in is the first of the next block, and a cut is before it.
<1>11. ASSUME s.offset + n.copied > End(s)
       PROVE  L + 1 <= Before(cuts, i) + 1 /\ L + 1 <= k /\ End(s) + Block <= k * Block
  <2>1. ~(Part(nodes, p, i) <= Room)
    <3>. DEFINE z == Part(nodes, p, i - 1)
                x == L * Block
    <3>1. z \in Int /\ s.offset = x - Room + z /\ x \in Nat /\ s.offset + n.copied > x
          /\ Part(nodes, p, i) = z + n.copied
      BY <1>5, <1>7, <1>8, <1>11
    <3>. HIDE DEF x, z
    <3>. QED  BY <1>2, <3>1, BlockOf
  <2>2. cuts \cap (p..i - 1) # {}
    BY <1>6, <2>1 DEF CutsFit, N
  <2>3. N - 1 \in Nat /\ cuts \in SUBSET (1..N - 1) /\ i - 1 \in Nat /\ p <= (i - 1) + 1 /\ (i - 1) + 1 = i
    BY <1>1, <1>6 DEF CutsFit, N
  <2>4. /\ Before(cuts, p) \in Nat /\ Before(cuts, p) + 1 <= Before(cuts, i)
    BY <1>6, <2>2, <2>3, BeforeOf
  <2>5. Before(cuts, i) \in Nat /\ Before(cuts, i) <= Cardinality(cuts) /\ Cardinality(cuts) \in Nat
    <3>1. i <= i + 1
      BY <1>6
    <3>. QED  BY <1>6, <2>3, <3>1, BeforeOf
  <2>6. Cardinality(cuts) < k
    BY DEF CutsFit
  <2>7. L + 1 <= Before(cuts, i) + 1 /\ L < k
    BY <1>5, <1>8, <2>4, <2>5, <2>6
  <2>8. L * Block + Block <= k * Block
    BY <1>8, <2>7, Products
  <2>. QED  BY <1>8, <2>7, <2>8
<1>12. ~Refuses(s, n, k * Block)
  <2>1. ~(n.copied > Room)
    BY <1>2, <1>10, BlockOf
  <2>2. ASSUME s.offset + n.copied > End(s), End(s) + Marker > k * Block PROVE FALSE
    <3>. DEFINE x == End(s)
                y == k * Block
    <3>1. x \in Nat /\ y \in Nat
      BY <1>8, Products
    <3>2. x + Block <= y /\ x + Marker > y
      BY <1>11, <2>2
    <3>. HIDE DEF x, y
    <3>. QED  BY <3>1, <3>2, BlockOf
  <2>. QED  BY <1>4, <2>1, <2>2 DEF Refuses
<1>13. t \in States /\ ~t.failed /\ (Fitted(s, n, t) \/ Opened(s, n, t, k * Block))
  <2>1. k * Block \in Nat
    BY Products
  <2>2. /\ t \in States
        /\ ~t.failed /\ (Fitted(s, n, t) \/ Crowded(s, n, t) \/ Opened(s, n, t, k * Block))
    BY <1>1, <1>12, <2>1, PlacedOf DEF n
  <2>. QED  BY <1>9, <2>2 DEF Crowded
<1>14. t.blocks \in Images /\ End(t) = Len(t.blocks) * Block
  BY <1>13, StateOf DEF End
<1>15. CASE Fitted(s, n, t)
  <2>1. /\ Len(t.blocks) = L /\ Longer(s.blocks[L], n, t.blocks[L])
        /\ \A b \in 1..L - 1 : t.blocks[b] = s.blocks[b]
        /\ t.offset = s.offset + n.copied /\ s.offset + n.copied <= End(s)
    BY <1>15 DEF Fitted, L
  <2>2. End(t) = End(s) /\ t.blocks[L] \in Blocks
    BY <1>8, <1>14, <2>1, ImagesOf
  <2>3. a \in Nat /\ Height(t.blocks[L]) = a + h
    BY <1>2, <1>8, <2>1, <2>2, HeightOf DEF a, h
  <2>4. Filling(t.blocks) /\ HeadsClean(t.blocks)
    <3>1. Len(s.blocks) = L /\ s.blocks \in Images /\ t.blocks \in Images
      BY <1>8, <1>14 DEF L
    <3>. QED  BY <1>4, <1>8, <2>1, <3>1, FittedKeeps
  <2>5. a + h <= Block /\ (a + h) % 4 = 0
    <3>. DEFINE x == End(s)
    <3>1. x \in Nat /\ s.offset = (x - Block) + a /\ s.offset + n.copied <= x
      BY <1>4, <1>8, <2>1
    <3>. HIDE DEF x
    <3>2. a + n.copied <= Block
      BY <1>2, <2>3, <3>1, BlockOf
    <3>3. Block - a \in Nat /\ (Block - a) % 4 = 0 /\ n.length <= Block - a
      <4>1. a % 4 = 0 /\ a \in Nat /\ Block % 4 = 0 /\ Block \in Nat /\ n.length \in Nat /\ n.copied \in Nat
            /\ n.length <= n.copied
        BY <1>2, <1>4, <2>3, BlockOf
      <4>2. a <= Block /\ n.length <= Block - a
        BY <3>2, <4>1
      <4>. QED  BY <4>1, <4>2, Fourths
    <3>4. h <= Block - a
      BY <1>2, <3>3
    <3>5. a \in Nat /\ h \in Nat /\ Block \in Nat /\ a % 4 = 0 /\ h % 4 = 0
      BY <1>2, <1>4, <2>3, BlockOf
    <3>6. a + h <= Block
      BY <3>4, <3>5
    <3>. QED  BY <3>5, <3>6, Fourths
  <2>6. \A b \in 1..L : Height(t.blocks[b]) <= Block
    <3>1. \A b \in 1..L : b \in 1..L - 1 \/ b = L
      BY <1>8
    <3>. QED  BY <1>4, <2>1, <2>3, <2>5, <3>1
  <2>7. ASSUME i < N PROVE Height(t.blocks[L]) % 4 = 0 /\ t.offset = End(t) - Block + Height(t.blocks[L])
    <3>. DEFINE x == End(s)
    <3>1. x \in Nat /\ s.offset = (x - Block) + a /\ t.offset = s.offset + h /\ End(t) = x
      BY <1>3, <1>4, <1>8, <2>1, <2>2, <2>7
    <3>. HIDE DEF x
    <3>2. t.offset = End(t) - Block + (a + h)
      <4>1. a \in Nat /\ h \in Nat /\ Block \in Nat
        BY <1>2, <2>3, BlockOf
      <4>. QED  BY <3>1, <4>1
    <3>. QED  BY <2>3, <2>5, <3>2
  <2>8. /\ p \in 1..i + 1 /\ t.offset = End(t) - Room + Part(nodes, p, i)
        /\ Part(nodes, p, i) <= Room /\ L <= Before(cuts, p) + 1
    <3>. DEFINE x == End(s)
                z == Part(nodes, p, i - 1)
    <3>1. /\ x \in Nat /\ z \in Int /\ s.offset = (x - Room) + z /\ s.offset + n.copied <= x
          /\ Part(nodes, p, i) = z + n.copied /\ End(t) = x /\ t.offset = s.offset + n.copied
      BY <1>5, <1>7, <1>8, <2>1, <2>2
    <3>. HIDE DEF x, z
    <3>2. t.offset = End(t) - Room + Part(nodes, p, i) /\ Part(nodes, p, i) <= Room
      BY <1>2, <3>1, BlockOf
    <3>. QED  BY <1>5, <1>6, <3>2
  <2>. QED  BY <1>4, <1>13, <2>1, <2>4, <2>6, <2>7, <2>8 DEF Packed, L, N
<1>16. CASE Opened(s, n, t, k * Block)
  <2>. DEFINE block == <<Clean, n>>
              M == L + 1
  <2>1. t.offset = End(s) + Marker + n.copied /\ Longer(s.blocks, block, t.blocks)
        /\ s.offset + n.copied > End(s)
    BY <1>16 DEF Opened
  <2>2. block \in Blocks /\ Longer(<<Clean>>, n, block) /\ Len(block) >= 1 /\ block[1] = Clean
    <3>1. Longer(<<Clean>>, n, block) /\ Len(block) >= 1 /\ block[1] = Clean
      BY DEF Longer
    <3>. QED  BY <1>1, <3>1, ReadOne
  <2>. HIDE DEF block
  <2>3. /\ Len(t.blocks) = M /\ t.blocks[M] = block /\ M \in Nat
        /\ \A b \in 1..L : t.blocks[b] = s.blocks[b]
    BY <1>8, <2>1 DEF Longer, L
  <2>4. Height(block) = Marker + h
    BY <1>2, <2>2, HeightOf, HeightClean, ReadClean DEF h
  <2>5. End(t) = End(s) + Block /\ End(s) \in Nat
    <3>1. M * Block = L * Block + Block
      BY <1>8, Products
    <3>. QED  BY <1>8, <1>14, <2>3, <3>1
  <2>6. Filling(t.blocks) /\ HeadsClean(t.blocks)
    BY <1>4, <1>8, <1>14, <2>1, <2>2, OpenedKeeps
  <2>7. Marker + h <= Block /\ (Marker + h) % 4 = 0
    <3>1. Room \in Nat /\ Room % 4 = 0 /\ n.length <= Room
      <4>1. Room = Block - Marker /\ Block \in Nat /\ Marker \in Nat /\ Marker <= Block
            /\ Block % 4 = 0 /\ Marker % 4 = 0
        BY BlockOf
      <4>2. Room \in Nat /\ Room % 4 = 0
        BY <4>1, Fourths
      <4>. QED  BY <1>2, <1>10, <4>2
    <3>2. h <= Room
      BY <1>2, <3>1
    <3>3. Marker \in Nat /\ Marker % 4 = 0 /\ h \in Nat /\ h % 4 = 0 /\ Marker + h <= Block
      BY <1>2, <3>2, BlockOf
    <3>. QED  BY <3>3, Fourths
  <2>8. \A b \in 1..M : Height(t.blocks[b]) <= Block
    <3>1. \A b \in 1..M : b \in 1..L \/ b = M
      BY <1>8
    <3>. QED  BY <1>4, <2>3, <2>4, <2>7, <3>1
  <2>9. ASSUME i < N PROVE Height(t.blocks[M]) % 4 = 0 /\ t.offset = End(t) - Block + Height(t.blocks[M])
    <3>. DEFINE x == End(s)
    <3>1. x \in Nat /\ t.offset = x + Marker + h /\ End(t) = x + Block
      BY <1>3, <2>1, <2>5, <2>9
    <3>. HIDE DEF x
    <3>2. Height(t.blocks[M]) = Marker + h /\ (Marker + h) % 4 = 0
      BY <2>3, <2>4, <2>7
    <3>3. t.offset = End(t) - Block + (Marker + h)
      BY <1>2, <3>1, BlockOf
    <3>. QED  BY <3>2, <3>3
  <2>10. /\ i \in 1..i + 1 /\ t.offset = End(t) - Room + Part(nodes, i, i)
         /\ Part(nodes, i, i) <= Room /\ M <= Before(cuts, i) + 1
    <3>1. Part(nodes, i, i) = n.copied
      BY <1>1, <1>2 DEF Part
    <3>. DEFINE x == End(s)
    <3>2. x \in Nat /\ t.offset = x + Marker + n.copied /\ End(t) = x + Block
      BY <2>1, <2>5
    <3>. HIDE DEF x
    <3>3. t.offset = End(t) - Room + Part(nodes, i, i)
      BY <1>2, <3>1, <3>2, BlockOf
    <3>4. M <= Before(cuts, i) + 1
      BY <1>11, <2>1
    <3>. QED  BY <1>6, <1>10, <3>1, <3>3, <3>4
  <2>11. M <= k
    BY <1>11, <2>1
  <2>. QED  BY <1>13, <2>3, <2>6, <2>8, <2>9, <2>10, <2>11 DEF Packed, N
<1>. QED  BY <1>13, <1>15, <1>16

\* A layout that is packed is filled up to a sound image.
LEMMA PackedValid ==
    ASSUME NEW nodes \in Files, NEW k \in Nat, NEW cuts, NEW s \in States, Packed(s, nodes, cuts, k, Len(nodes)),
           NEW image, image = Filled(s, k * Block)
    PROVE  Valid(image)
<1>. DEFINE L == Len(s.blocks)
            N == Len(nodes)
<1>0. N \in Nat /\ k * Block \in Nat
  BY PartOf, Products
<1>1. /\ Filling(s.blocks) /\ HeadsClean(s.blocks) /\ L <= k
      /\ \A b \in 1..L : Height(s.blocks[b]) <= Block
  BY DEF Packed
<1>2. PICK p \in 1..N + 1 : s.offset = End(s) - Room + Part(nodes, p, N) /\ Part(nodes, p, N) <= Room
  BY DEF Packed
<1>3. s.blocks \in Images /\ L \in Nat /\ s.offset \in Nat /\ End(s) \in Nat /\ End(s) = L * Block
  BY StateOf DEF End
<1>4. s.offset <= End(s)
  <2>1. Part(nodes, p, N) \in Int
    <3>1. N \in 0..N /\ p - 1 \in 0..N
      BY <1>0, <1>2
    <3>2. Copied(nodes)[N] \in Nat /\ Copied(nodes)[p - 1] \in Nat
      BY <3>1, PartOf
    <3>. QED  BY <3>2 DEF Part
  <2>. DEFINE z == Part(nodes, p, N)
              x == End(s)
  <2>2. x \in Nat /\ z \in Int /\ s.offset = x - Room + z /\ z <= Room
    BY <1>2, <1>3, <2>1
  <2>. HIDE DEF x, z
  <2>3. s.offset <= x
    BY <2>2, BlockOf
  <2>. QED  BY <2>3 DEF x
<1>5. L * Block <= k * Block
  BY <1>1, <1>3, Products
<1>6. s.offset <= k * Block
  <2>1. \A x \in Nat, y \in Nat : s.offset <= x /\ x <= y => s.offset <= y
    BY <1>3
  <2>. QED  BY <1>0, <1>3, <1>4, <1>5, <2>1
<1>7. /\ image.blocks \in Images /\ Extended(s.blocks, Rest(s, k * Block), image.blocks)
      /\ image.size = k * Block /\ Len(image.blocks) = k
  BY <1>0, <1>1, <1>6, FilledOf
<1>8. /\ \A b \in 1..L : image.blocks[b] = s.blocks[b]
      /\ \A b \in L + 1..k : image.blocks[b] = <<Clean>>
  BY <1>7 DEF Extended
<1>9. ASSUME NEW b \in 1..k
      PROVE  /\ image.blocks[b] # <<>> /\ Head(image.blocks[b]) = Clean
             /\ Height(image.blocks[b]) <= Block /\ Height(image.blocks[b]) \in Nat
  <2>1. image.blocks[b] \in Seq(AnyNode) /\ image.blocks[b] \in Blocks
    BY <1>7, ImagesOf DEF Blocks, Lists
  <2>2. Height(image.blocks[b]) \in Nat
    BY <2>1, PartOfAll DEF Height
  <2>3. CASE b \in 1..L
    <3>1. Len(image.blocks[b]) >= 1 /\ image.blocks[b][1] = Clean /\ Height(image.blocks[b]) <= Block
      BY <1>1, <1>8, <2>3 DEF Filling, HeadsClean
    <3>2. image.blocks[b] # <<>>
      BY <3>1
    <3>3. Head(image.blocks[b]) = Clean
      BY <2>1, <3>1, <3>2
    <3>. QED  BY <2>2, <3>1, <3>2, <3>3
  <2>4. CASE b \in L + 1..k
    <3>1. image.blocks[b] = <<Clean>>
      BY <1>8, <2>4
    <3>2. Height(image.blocks[b]) <= Block
      BY <3>1, HeightClean, BlockOf
    <3>3. <<Clean>> # <<>> /\ Head(<<Clean>>) = Clean
      OBVIOUS
    <3>. QED  BY <2>2, <3>1, <3>2, <3>3
  <2>5. b \in 1..L \/ b \in L + 1..k
    BY <1>3
  <2>. QED  BY <2>3, <2>4, <2>5
<1>10. ASSUME NEW b \in 1..k
       PROVE  /\ (b - 1) * Block + Height(image.blocks[b]) <= b * Block
              /\ (b - 1) * Block + Height(image.blocks[b]) <= image.size
  <2>. DEFINE x == (b - 1) * Block
              y == b * Block
              z == k * Block
              h == Height(image.blocks[b])
  <2>1. b - 1 \in Nat /\ (b - 1) + 1 = b /\ b \in Nat /\ b <= k
    OBVIOUS
  <2>2. x \in Nat /\ y = x + Block /\ y \in Nat /\ y <= z /\ z \in Nat
    BY <2>1, Products
  <2>3. h \in Nat /\ h <= Block /\ image.size = z
    BY <1>7, <1>9
  <2>. HIDE DEF x, y, z, h
  <2>4. x + h <= y /\ x + h <= image.size
    BY <2>2, <2>3, BlockOf
  <2>. QED  BY <2>4 DEF x, y, h
<1>11. DOMAIN image.blocks = 1..k
  BY <1>7, ImagesOf
<1>. QED  BY <1>9, <1>10, <1>11 DEF Valid, Height

\* Unless a run of nodes fills a block to the last byte, what can be laid out is.
LEMMA CuttableFits ==
    ASSUME NEW nodes \in Trees, ~ExactRun(nodes), NEW k \in Nat, Cuttable(nodes, k)
    PROVE  Repacked(<<Clean>> \o nodes, k * Block) # Refused
<1>1. PICK cuts \in SUBSET (1..Len(nodes) - 1) : CutsFit(nodes, cuts, k)
  BY DEF Cuttable, CutsFit
<1>. DEFINE bytes == k * Block
            N == Len(nodes)
<1>2. nodes \in Files /\ N \in Nat /\ bytes \in Nat
  BY FirstOf, Products DEF Trees, Files
<1>3. PICK after : Run(after, nodes, bytes) /\ Layout(nodes, bytes) = after[N]
  BY <1>2, LayoutOf
<1>4. /\ \A i \in 0..N : after[i] \in States
      /\ after[0] = Start(bytes)
      /\ \A i \in 1..N : after[i] = Placed(after[i - 1], nodes[i], bytes)
  BY <1>3 DEF Run
<1>. DEFINE Good == {i \in 0..N : Packed(after[i], nodes, cuts, k, i)}
<1>5. 0 \in Good
  BY <1>1, <1>2, <1>4, PackedStart
<1>6. \A i \in 1..N : i - 1 \in Good => i \in Good
  <2>. SUFFICES ASSUME NEW i \in 1..N, Packed(after[i - 1], nodes, cuts, k, i - 1)
                PROVE  i \in 0..N /\ Packed(after[i], nodes, cuts, k, i)
    OBVIOUS
  <2>1. i \in 0..N /\ i - 1 \in 0..N
    BY <1>2
  <2>. QED  BY <1>1, <1>4, <2>1, PackedPlaced
<1>. HIDE DEF Good
<1>7. \A i \in 0..N : i \in Good
  BY <1>2, <1>5, <1>6, UpTo
<1>8. N \in 0..N
  BY <1>2
<1>. DEFINE s == Layout(nodes, bytes)
            image == Filled(s, bytes)
<1>9. s \in States /\ Packed(s, nodes, cuts, k, N)
  BY <1>3, <1>4, <1>7, <1>8 DEF Good
<1>. HIDE DEF s
<1>10. Valid(image)
  BY <1>2, <1>9, PackedValid
<1>11. ~s.failed
  BY <1>9 DEF Packed
<1>12. Repacked(<<Clean>> \o nodes, bytes) = image
  <2>1. ReadNodes(<<Clean>> \o nodes) = nodes
    BY <1>2, ReadAll
  <2>. QED  BY <1>10, <1>11, <2>1 DEF Repacked, s
<1>13. image # Refused
  <2>1. image.blocks \in Images /\ Extended(s.blocks, Rest(s, bytes), image.blocks)
    BY <1>2, <1>9, FilledOf
  <2>2. Len(s.blocks) \in Nat /\ Len(s.blocks) >= 1 /\ Rest(s, bytes) \in Nat
    BY <1>2, <1>9, StateOf, RestOf
  <2>3. Len(image.blocks) # 0
    BY <2>1, <2>2 DEF Extended
  <2>4. Len(Refused.blocks) = 0
    BY DEF Refused
  <2>. QED  BY <2>3, <2>4
<1>. QED  BY <1>12, <1>13

-----------------------------------------------------------------------------
(* The theorems *)

\* What the invariant below says of the line and of the operator holds throughout.
THEOREM IdentityInvariance == Spec => []IdentityInv
  BY InitIdentity, NextIdentity, PTL DEF Spec

\* What makes this base this base is in its flash or in the dump that was kept, and
\* the image that is written has it: whatever is lost or damaged on the line, whenever
\* the power goes, however often a tool is started again
\* (build_identity_preserving_image.py:43-66, gigaset_uart_dump.py:122-189).
THEOREM IdentityIsKept == Spec => []IdentityKept
<1>1. IdentityInv => IdentityKept
  BY DEF IdentityInv, StageInv, IdentityKept, InFlash
<1>. QED  BY <1>1, IdentityInvariance, PTL

\* A dump the tool calls complete is what the flash holds: the half of SuccessIsReal
\* that is about gigaset_uart_dump.py (122-189).
DumpIsReal == task = "dump" /\ host = "done" => file = flash
THEOREM DumpsAreReal == Spec => []DumpIsReal
<1>1. IdentityInv => DumpIsReal
  BY DEF IdentityInv, LineInv, DumpInv, DumpIsReal
<1>. QED  BY <1>1, IdentityInvariance, PTL

\* What the steps need of the types holds throughout.
THEOREM TypeInvariance == Spec => []TypeInv
  BY InitTypes, NextTypes, PTL DEF Spec

\* The tools, the chip and the line are only ever in the places they have, and the
\* attempts of upload_loader() never exceed --rom-attempts, in whatever order answers,
\* deadlines and the operator come (gigaset_uart_flash.py:45-122).
THEOREM TypesHold == Spec => []TypeOK
<1>1. TypeInv => TypeOK
  <2>1. TypeInv => UartTypeOK
    BY DEF TypeInv, IdentityInv, LineInv, LineTyped, TaskInv, ToolTyped, ChipTyped,
           UartTypeOK, Message
  <2>2. TypeInv => kept \in {"none"} \cup FlashContent
    BY DEF TypeInv, IdentityInv, StageInv, DeskTyped, FlashContent
  <2>. QED  BY <2>1, <2>2 DEF TypeInv, IdentityInv, StageInv, DeskTyped, TypeOK
<1>. QED  BY <1>1, TypeInvariance, PTL

\* Tools and chip are in matching places of their dialogue throughout: what one waits
\* for is what the other is about to say, or is never taken for it.
THEOREM SumInvariance ==
    ASSUME SumsDistinct
    PROVE  Spec => [](TypeInv /\ SumInv)
<1>1. RecoveryInit => TypeInv /\ SumInv
  BY InitTypes, InitSums
<1>2. (TypeInv /\ SumInv) /\ [Next]_vars => (TypeInv /\ SumInv)'
  BY NextTypes, NextSums
<1>. QED  BY <1>1, <1>2, PTL DEF Spec

\* As long as the loader's checksum is no byte the ROM says of itself and no checksum
\* is what noise is read as, no loader runs whose checksum did not fit, and the flash
\* is erased only for an image whose checksum did, however late an answer comes and
\* whichever attempt reads it (gigaset_uart_flash.py:104-121, 185-199,
\* gigaset_uart_dump.py:97-112).
THEOREM ChecksumsFit ==
    ASSUME SumsDistinct
    PROVE  Spec => []ChecksumFits
<1>1. TypeInv /\ SumInv => ChecksumFits
  BY DEF SumInv
<1>. QED  BY <1>1, SumInvariance, PTL

\* Under the same condition success means what it can: a dump that is complete is what
\* the flash holds; an image the flash tool calls programmed has arrived with its
\* checksum and been written, well or not; and a recovery that a fresh dump confirms
\* has the image in the flash, whatever was lost, damaged, late or ill written before
\* (gigaset_uart_flash.py:19-20, 201-206, gigaset_uart_dump.py:171-183).
THEOREM SuccessesAreReal ==
    ASSUME SumsDistinct
    PROVE  Spec => []SuccessIsReal
<1>1. TypeInv /\ SumInv => SuccessIsReal
  BY DEF TypeInv, SumInv, IdentityInv, LineInv, TaskInv, DumpInv, StageInv, PlaceInv, EndInv,
         SuccessIsReal
<1>. QED  BY <1>1, SumInvariance, PTL

\* What the operator has put together and repacked is as TreeInv says throughout.
THEOREM TreeInvariance == Spec => []TreeInv
  BY InitTrees, NextTrees, PTL DEF Spec

\* No node is lost, changed, moved before another one or laid across the end of a block
\* when a file system is repacked, whatever its nodes and the size asked for
\* (repack_jffs2_4k.py:19-102).
THEOREM NodesSurvive == Spec => []RoundTrip
<1>1. TreeInv => RoundTrip
  <2>. SUFFICES ASSUME TreeInv, slot \notin {NoSlot, Refused}
                PROVE  /\ Contents(Nodes(slot)) = Contents(Tail(source))
                       /\ \A b \in DOMAIN slot.blocks : Part(slot.blocks[b], 1, Len(slot.blocks[b])) <= Block
                       /\ slot.size >= size /\ (size % Block = 0 => slot.size = size)
    BY DEF RoundTrip
  <2>1. PICK nodes \in Trees : source = <<Clean>> \o nodes /\ slot = Repacked(<<Clean>> \o nodes, size)
    BY DEF TreeInv
  <2>2. nodes \in Files /\ size \in Nat
    BY <2>1, RecoveryAssumption DEF TreeInv, Trees
  <2>3. Faithful(nodes, size, slot) /\ Tail(source) = nodes
    BY <2>1, <2>2, RepackedOf, TailOf
  <2>. QED  BY <2>3 DEF Faithful
<1>. QED  BY <1>1, TreeInvariance, PTL

\* No tree is refused that could be laid out, unless nodes fill a block to the last byte;
\* the first-come order in which nodes are placed costs no block
\* (repack_jffs2_4k.py:45-87).
THEOREM OnlyMisfitsRefused == Spec => []RefusesOnlyMisfits
<1>1. TreeInv => RefusesOnlyMisfits
  <2>. SUFFICES ASSUME TreeInv, slot = Refused, size % Block = 0, ~ExactRun(Tail(source)),
                       Cuttable(Tail(source), size \div Block)
                PROVE  FALSE
    BY DEF RefusesOnlyMisfits
  <2>1. slot # NoSlot
    BY DEF Refused, NoSlot
  <2>2. PICK nodes \in Trees : source = <<Clean>> \o nodes /\ slot = Repacked(<<Clean>> \o nodes, size)
    BY <2>1 DEF TreeInv
  <2>3. nodes \in Files /\ size \in Nat
    BY <2>1, <2>2, RecoveryAssumption DEF TreeInv, Trees
  <2>4. Tail(source) = nodes
    BY <2>2, <2>3, TailOf
  <2>. DEFINE k == size \div Block
  <2>5. k \in Nat /\ size = k * Block
    <3>1. Block \in Nat /\ Block > 0
      BY BlockOf
    <3>2. size = Block * (size \div Block) + (size % Block) /\ size \div Block \in Nat
      BY <2>3, <3>1
    <3>. QED  BY <3>1, <3>2
  <2>. HIDE DEF k
  <2>6. Repacked(<<Clean>> \o nodes, k * Block) # Refused
    BY <2>2, <2>4, <2>5, CuttableFits DEF k
  <2>. QED  BY <2>2, <2>5, <2>6
<1>. QED  BY <1>1, TreeInvariance, PTL
=============================================================================
