------------------------------ MODULE Recovery ------------------------------
(***************************************************************************)
(* Recovering a base whose file systems are damaged, with all four tools    *)
(* (docs/RECOVERY.md): dump it; put file systems together and repack them;  *)
(* build an image from them, the firmware of a donor and the identity of    *)
(* the base; write it; dump the base again and compare.                     *)
(*                                                                          *)
(* UartTools is the bench with the base on it; here are the operator, the   *)
(* files and the two tools that make the image.  The image that is written  *)
(* is the "good" one of UartTools, and `built' says what it is made of.     *)
(***************************************************************************)
EXTENDS UartTools, Jffs2

CONSTANTS
    Lengths, MaxNodes,      \* of the nodes of a file system: bounds
    Region,                 \* FS1_END - FS1_START, FS2_END - FS2_START
    Sizes                   \* what is passed as --size

ASSUME RecoveryAssumption ==
    /\ Lengths \subseteq {n \in Nat : n >= Marker} /\ MaxNodes \in Nat
    /\ Region \in Nat /\ Sizes \subseteq Nat

VARIABLES
    stage,      \* of the operator: "dump", "build", "write", "check", "done"
    kept,       \* what the first dump of the base holds, or "none"
    source,     \* the output of mkfs.jffs2: nodes
    size,       \* the --size it is repacked to
    slot,       \* the repacked image, NoSlot before, Refused if the tool refused
    built       \* what the image is made of, or NoImage

files == <<kept, source, size, slot, built>>
vars  == <<line, stage, files>>

NoSlot  == [blocks |-> <<>>, size |-> 1]
NoImage == [firmware |-> "none", fs1 |-> "none", fs2 |-> "none", identity |-> "none"]

RecoveryInit ==
    /\ Init
    /\ stage = "dump" /\ kept = "none" /\ source = <<>> /\ size = 0
    /\ slot = NoSlot /\ built = NoImage

-----------------------------------------------------------------------------
(* The files *)

\* A dump the tool calls complete is kept for good.
Keep ==
    /\ stage = "dump" /\ host = "done"
    /\ kept' = file /\ stage' = "build"
    /\ UNCHANGED <<line, source, size, slot, built>>

\* The nodes of a tree; mkfs.jffs2 pads each to four bytes, except, without --pad,
\* the last.
Tree(lengths, padded) ==
    [i \in DOMAIN lengths |->
        Node(i, lengths[i],
             IF i = Len(lengths) /\ ~padded THEN lengths[i] ELSE Align4(lengths[i]))]

\* A tree is put together, and mkfs.jffs2 makes an image of it.
MakeTree ==
    /\ stage = "build" /\ source = <<>>
    /\ \E n \in 1..MaxNodes, padded \in BOOLEAN :
       \E lengths \in [1..n -> Lengths] :
          source' = <<Clean>> \o Tree(lengths, padded)
    /\ UNCHANGED <<line, stage, kept, size, slot, built>>

\* repack_jffs2_4k.py
Repack(s) ==
    /\ stage = "build" /\ source # <<>> /\ slot = NoSlot
    /\ slot' = Repacked(source, s) /\ size' = s
    /\ UNCHANGED <<line, stage, kept, source, built>>

\* The operator puts another tree together.
Discard ==
    /\ stage = "build" /\ slot # NoSlot
    /\ source' = <<>> /\ size' = 0 /\ slot' = NoSlot
    /\ UNCHANGED <<line, stage, kept, built>>

\* The region of a dump that comes from the base itself.
Own(c) == IF c = "old" THEN "own" ELSE "lost"

Fits(image) == image.size = Region

\* build_identity_preserving_image.py: Factory and Env come last and at their own
\* offsets, so that they are the base's whatever the length of FS2, which they would
\* cut off or leave to be filled by what followed it.
Compose(image, rebuilt) ==
    [firmware |-> "donor",
     fs1      |-> IF rebuilt THEN "tree" ELSE Own(kept),
     fs2      |-> IF image.size = Region THEN "tree" ELSE "lost",
     identity |-> Own(kept)]

\* It is built with or without --fs1, and written; the trees are done with.  With slices
\* that fit, the assertions before it is written (53-60) hold.
Build(rebuilt) ==
    /\ stage = "build" /\ slot \notin {NoSlot, Refused} /\ Fits(slot)
    /\ built' = Compose(slot, rebuilt)
    /\ source' = <<>> /\ size' = 0 /\ slot' = NoSlot
    /\ stage' = "write" /\ Begin("flash")
    /\ UNCHANGED <<kept, faults>>

-----------------------------------------------------------------------------
(* The base *)

\* The programmer compares the buffer with itself: only a fresh dump tells.
Dump ==
    /\ stage = "write" /\ host = "done"
    /\ stage' = "check" /\ Begin("dump")
    /\ UNCHANGED <<files, faults>>
Compare ==
    /\ stage = "check" /\ host = "done" /\ UNCHANGED files
    /\ IF file = "good" THEN stage' = "done" /\ UNCHANGED line
                        ELSE stage' = "write" /\ Begin("flash") /\ UNCHANGED faults

Operate ==
    \/ Keep \/ MakeTree \/ Discard \/ Dump \/ Compare
    \/ \E s \in Sizes : Repack(s)
    \/ \E rebuilt \in BOOLEAN : Build(rebuilt)

Next == (UartNext /\ UNCHANGED <<stage, files>>) \/ Operate

Spec == RecoveryInit /\ [][Next]_vars
\* The tool reads and gives up, the chip answers, the operator goes on.
FairSpec ==
    /\ Spec
    /\ WF_line(Read) /\ WF_line(Timeout)
    /\ WF_line(SendStx) /\ WF_line(Receive) /\ WF_line(RomTimeout)
    /\ WF_line(ProgStart \/ Program \/ SendDump)
    /\ WF_line(Retry) /\ WF_vars(Keep) /\ WF_vars(Dump) /\ WF_vars(Compare)

-----------------------------------------------------------------------------
(* Properties *)

TypeOK ==
    /\ UartTypeOK
    /\ stage \in {"dump", "build", "write", "check", "done"}
    /\ kept \in {"none"} \cup FlashContent
    /\ size \in Sizes \cup {0} /\ (stage # "build" => source = <<>> /\ slot = NoSlot)
    /\ built = NoImage \/ built.firmware = "donor"

\* What repack_jffs2_4k.py writes holds the nodes of its source in their order, none
\* of them across the end of a block, and is of the size asked for, or longer if that
\* is no whole number of blocks (docs/RECOVERY.md:155-165).
RoundTrip ==
    slot \notin {NoSlot, Refused} =>
        /\ Contents(Nodes(slot)) = Contents(Tail(source))
        /\ \A b \in DOMAIN slot.blocks : Part(slot.blocks[b], 1, Len(slot.blocks[b])) <= Block
        /\ slot.size >= size /\ (size % Block = 0 => slot.size = size)

\* It refuses only what cannot be laid out at all, with one exception: nodes that fill
\* a block to the last byte (then the next block lacks its cleanmarker).
RefusesOnlyMisfits ==
    slot = Refused /\ size % Block = 0 =>
        ~Cuttable(Tail(source), size \div Block) \/ ExactRun(Tail(source))

\* What success means.  Of the dump tool: the file is what the flash holds.  Of the
\* flash tool no more than that the chip had the image, or one of the same checksum,
\* and wrote it, well or not (gigaset_uart_flash.py:19-20, 201-206, 269).  Of the
\* recovery, which compares a fresh dump: the image is in the flash.
SuccessIsReal ==
    /\ host = "done" /\ task = "dump" => file = flash
    /\ host = "done" /\ task = "flash" => Written
    /\ stage = "done" => flash = "good"

\* What makes this base this base is in its flash or in the dump that was kept; a
\* recovered base has it, with the file systems chosen for it, and it never gets
\* another's (docs/RECOVERY.md:62-84).
InFlash == CASE flash = "old" -> "own" [] flash = "good" -> built.identity [] OTHER -> "lost"
IdentityKept ==
    /\ InFlash = "own" \/ kept = "old"
    /\ flash = "good" =>
         built.identity = "own" /\ built.fs1 \in {"own", "tree"} /\ built.fs2 = "tree"

\* Once an image is built, an operator who tries again however often a write is
\* interrupted, and compares a fresh dump, has it in the flash at last
\* (gigaset_uart_flash.py:19-24).
Recoverable == stage = "write" ~> [](stage = "done" /\ flash = "good")
=============================================================================
