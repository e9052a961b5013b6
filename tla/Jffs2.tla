------------------------------- MODULE Jffs2 --------------------------------
(***************************************************************************)
(* repack_jffs2_4k.py: the nodes of a JFFS2 image with large erase blocks,  *)
(* laid out anew so that none crosses a block of Block bytes.               *)
(*                                                                          *)
(* A node is its length, the number of its bytes the image holds, and what  *)
(* tells it from the others.  An image is its length in bytes and, for each *)
(* block, the nodes in it one after the other; after them it is erased      *)
(* (0xff).  A sound image begins every block with a cleanmarker.            *)
(***************************************************************************)
EXTENDS Naturals, Sequences, FiniteSets, SequencesExt

CONSTANT Block          \* --block, 4096

Marker == 12            \* bytes of a cleanmarker, and of the header of any node
ASSUME Jffs2Assumption == Block \in Nat /\ Block % 4 = 0 /\ Block > 2 * Marker

Node(i, l, c) == [id |-> i, length |-> l, copied |-> c]
Clean == Node(0, Marker, Marker)
Align4(n) == ((n + 3) \div 4) * 4
Room == Block - Marker

\* Mutant of ReadNodes: a cleanmarker is known by its length.
ReadNodesByLength(image) ==
    FlattenSeq([i \in DOMAIN image |-> IF image[i].length = Marker THEN <<>> ELSE <<image[i]>>])
\* What is taken from a source image: all nodes but the cleanmarkers.
ReadNodes(image) ==
    FlattenSeq([i \in DOMAIN image |-> IF image[i] = Clean THEN <<>> ELSE <<image[i]>>])

\* Mutant of Ends: a node that would end with its block goes to the next.
EndsBefore(offset, n, end) == offset + n.copied < end
Ends(offset, n, end) == offset + n.copied <= end

\* s.offset is the end of the last node placed.
Placed(s, n, size) ==
    LET full  == s.offset % Block = 0       \* the offset is in the next block then
        start == Len(s.blocks) * Block
        last  == Len(s.blocks)
        fits  == ~full /\ Ends(s.offset, n, start)
        none  == ~full /\ ~fits /\ start + Marker > size
    IN  IF s.failed \/ n.copied > Room \/ none
          THEN [s EXCEPT !.failed = TRUE]
          ELSE CASE fits -> [s EXCEPT !.blocks[last] = Append(@, n), !.offset = @ + n.copied]
                 [] full -> [s EXCEPT !.blocks = Append(@, <<n>>), !.offset = @ + n.copied]
                 [] OTHER -> [s EXCEPT !.blocks = Append(@, <<Clean, n>>),
                                       !.offset = start + Marker + n.copied]

\* The blocks that are left get their cleanmarker, at the very end also beyond size.
Filled(s, size) ==
    LET more == {b \in Len(s.blocks)..size : b * Block < size}
        end  == IF more = {} THEN 0 ELSE (Len(s.blocks) + Cardinality(more) - 1) * Block + Marker
    IN  [blocks |-> s.blocks \o [i \in 1..Cardinality(more) |-> <<Clean>>],
         size   |-> Max({size, s.offset, end})]

Refused == [blocks |-> <<>>, size |-> 0]

\* The sums of the first numbers of a sequence.
Totals(s) == LET sum[n \in 0..Len(s)] == IF n = 0 THEN 0 ELSE sum[n - 1] + s[n] IN sum
Copied(nodes)  == Totals([i \in DOMAIN nodes |-> nodes[i].copied])
Aligned(nodes) == Totals([i \in DOMAIN nodes |-> Align4(nodes[i].length)])

Valid(image) ==
    \A b \in DOMAIN image.blocks :
        LET nodes == image.blocks[b]
            end   == (b - 1) * Block + Aligned(nodes)[Len(nodes)]
        IN  /\ nodes # <<>> /\ Head(nodes) = Clean
            /\ end <= b * Block /\ end <= image.size

\* The nodes are placed one after the other; no image is shorter than a cleanmarker.
Layout(nodes, size) ==
    LET after[n \in 0..Len(nodes)] ==
          IF n = 0 THEN [blocks |-> <<<<Clean>>>>, offset |-> Marker, failed |-> Marker > size]
                   ELSE Placed(after[n - 1], nodes[n], size)
    IN  after[Len(nodes)]

\* main(): what the tool writes for a source image, or Refused.
Repacked(source, size) ==
    LET s == Layout(ReadNodes(source), size)
        image == Filled(s, size)
    IN  IF ~s.failed /\ Valid(image) THEN image ELSE Refused

-----------------------------------------------------------------------------
(* What the tool is for, said without its algorithm *)

\* The nodes of an image, in the order of their offsets.
Nodes(image) == FlattenSeq([b \in DOMAIN image.blocks |-> ReadNodes(image.blocks[b])])

Contents(nodes) == [i \in DOMAIN nodes |-> <<nodes[i].id, nodes[i].length>>]

Part(nodes, i, j) == Copied(nodes)[j] - Copied(nodes)[i - 1]

\* The nodes can be cut into k runs at most that fit a block each.
Cuttable(nodes, k) ==
    \E cuts \in SUBSET (1..Len(nodes) - 1) :
        /\ Cardinality(cuts) < k
        /\ \A i \in DOMAIN nodes : \A j \in i..Len(nodes) :
               cuts \cap (i..j - 1) = {} => Part(nodes, i, j) <= Room

\* Some run of nodes before the last fills a block to the last byte.
ExactRun(nodes) ==
    \E i \in DOMAIN nodes : \E j \in i..Len(nodes) - 1 : Part(nodes, i, j) = Room
=============================================================================
