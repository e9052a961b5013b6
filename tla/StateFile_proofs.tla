--------------------------- MODULE StateFile_proofs ---------------------------
(***************************************************************************)
(* Proofs about both state files, for every set of writers and inodes,      *)
(* every document, and any number of crashes and failed writes.             *)
(***************************************************************************)
EXTENDS StateFile, FiniteSetTheorems, TLAPS

\* Saves that are under way together have met, and only they have.
MeetInv ==
    /\ met \subseteq Busy
    /\ \A v, w \in Busy : v # w => v \in met

\* Under one lock there is at most one of them.
LockInv ==
    file = "state" => met = {} /\ ~doubt /\ \A w \in Busy : lock = w

\* What a writer that met none has in hand: the state as it is, the one temporary
\* file, and in it, at last, that very document.
WriterInv ==
    \A w \in Writer :
        /\ pc[w] \in {"idle", "build"} => doc[w] = {}
        /\ pc[w] = "idle" => fd[w] = None
        /\ w \notin met =>
             /\ pc[w] \in {"open", "write"} => doc[w] = memory \cap Id
             /\ pc[w] = "replace" => doc[w] = memory
             /\ pc[w] \in {"write", "replace"} => tmp # None /\ fd[w] = tmp
             /\ pc[w] = "write" => content[tmp].len = 0
             /\ pc[w] = "replace" => content[tmp].doc = memory

\* The file that a save alone left: it holds what the save stored, and nobody writes
\* to it.
PathInv ==
    ~doubt =>
        /\ OnDisk = stored
        /\ path # None => content[path].doc # None /\ path # tmp
        /\ path # None => \A w \in Writer : fd[w] # path

FileInv == TypeOK /\ MeetInv /\ LockInv /\ WriterInv /\ PathInv

\* What every step keeps of the file on the disk.
Advance == OnDisk' # OnDisk => OnDisk' = memory \/ Doubtful'

-----------------------------------------------------------------------------
\* A document has a length.
LEMMA WholeTyped ==
    ASSUME StateFileAssumption, NEW d \in SUBSET Fact
    PROVE  Whole(d) \in [doc : SUBSET Fact, len : Nat] /\ Whole(d).doc = d
<1>1. IsFiniteSet(Fact)
  BY FS_Union DEF StateFileAssumption, Fact
<1>2. Cardinality(d) \in Nat
  BY <1>1, FS_Subset, FS_CardinalityType
<1>. QED  BY <1>2 DEF Whole

\* What a start reads is a set of facts.
LEMMA OnDiskTyped ==
    ASSUME StateFileAssumption, TypeOK
    PROVE  OnDisk \in SUBSET Fact
  BY DEF StateFileAssumption, TypeOK, OnDisk, Readable

LEMMA FileInit ==
    ASSUME StateFileAssumption
    PROVE  Init => FileInv
<1>. SUFFICES ASSUME Init PROVE FileInv
  OBVIOUS
<1>. USE StateFileAssumption DEF Init
<1>1. TypeOK
  <2>1. content \in [Inode -> [doc : (SUBSET Fact) \cup {None}, len : Nat]]
    BY DEF Empty, Torn
  <2>2. 0 \in 0..MaxFaults
    BY DEF StateFileAssumption
  <2>3. doc \in [Writer -> SUBSET Fact] /\ fd \in [Writer -> Inode \cup {None}]
    OBVIOUS
  <2>4. pc \in [Writer -> {"idle", "build", "open", "write", "replace"}]
    OBVIOUS
  <2>. QED  BY <2>1, <2>2, <2>3, <2>4 DEF TypeOK
<1>2. Busy = {} /\ MeetInv /\ LockInv
  BY DEF Busy, MeetInv, LockInv
<1>3. WriterInv
  BY DEF WriterInv
<1>4. PathInv
  BY DEF PathInv, OnDisk, Readable
<1>. QED  BY <1>1, <1>2, <1>3, <1>4 DEF FileInv

\* A change begins a save, which meets those under way.
LEMMA ChangeStep ==
    ASSUME StateFileAssumption, FileInv, NEW w \in Writer, NEW m \in SUBSET Fact,
           NEW locked \in BOOLEAN, file = "state" => locked, Change(w, locked, m)
    PROVE  FileInv' /\ OnDisk' = OnDisk
<1>. USE StateFileAssumption DEF FileInv
<1>1. /\ pc[w] = "idle" /\ pc' = [pc EXCEPT ![w] = "build"] /\ memory' = m
      /\ UNCHANGED <<file, doc, fd, path, tmp, content, faults, doubt, stored, saved>>
      /\ met' = IF Busy = {} THEN met ELSE met \cup Busy \cup {w}
      /\ lock' \in Writer \cup {None}
  BY DEF Change, Meet, TypeOK
<1>2. Busy' = Busy \cup {w} /\ w \notin Busy
  BY <1>1 DEF Busy, TypeOK
<1>3. MeetInv'
  BY <1>1, <1>2 DEF MeetInv
<1>4. file = "state" => Busy = {} /\ lock' = w
  BY DEF Change, LockInv, TypeOK, Busy
<1>5. LockInv'
  BY <1>1, <1>2, <1>4 DEF LockInv
<1>6. TypeOK'
  <2>1. Busy \subseteq Writer
    BY DEF Busy
  <2>2. met' \subseteq Writer
    BY <1>1, <2>1 DEF TypeOK
  <2>. QED  BY <1>1, <2>2 DEF TypeOK
<1>7. WriterInv'
  <2>1. \A v \in Writer \ {w} : v \notin met' => pc'[v] = "idle"
    BY <1>1 DEF Busy, TypeOK
  <2>. QED  BY <1>1, <2>1 DEF WriterInv, TypeOK
<1>8. PathInv' /\ OnDisk' = OnDisk
  BY <1>1 DEF PathInv, OnDisk, Readable
<1>. QED  BY <1>3, <1>5, <1>6, <1>7, <1>8

\* The end of a save, done or failed, of a writer.
LEMMA DoneStep ==
    ASSUME StateFileAssumption, TypeOK, MeetInv, LockInv, NEW w \in Writer, pc[w] # "idle",
           Done(w), file' = file, doubt' \in {doubt, (w \in met)}
    PROVE  /\ MeetInv' /\ LockInv'
           /\ lock' \in Writer \cup {None} /\ met' \subseteq Writer
           /\ pc' \in [Writer -> {"idle", "build", "open", "write", "replace"}]
           /\ doc' \in [Writer -> SUBSET Fact]
           /\ fd' \in [Writer -> Inode \cup {None}]
<1>1. Busy' = Busy \ {w} /\ w \in Busy
  BY DEF Busy, TypeOK, Done
<1>2. MeetInv'
  BY <1>1 DEF MeetInv, Done
<1>3. file = "state" => Busy' = {} /\ w \notin met
  BY <1>1 DEF LockInv
<1>4. LockInv'
  BY <1>2, <1>3 DEF LockInv, MeetInv
<1>5. lock' \in Writer \cup {None} /\ met' \subseteq Writer
  BY DEF Done, TypeOK
<1>6. pc' \in [Writer -> {"idle", "build", "open", "write", "replace"}]
  BY DEF Done, TypeOK
<1>7. doc' \in [Writer -> SUBSET Fact] /\ fd' \in [Writer -> Inode \cup {None}]
  BY DEF Done, TypeOK
<1>. QED  BY <1>2, <1>4, <1>5, <1>6, <1>7

\* A writer that met none leaves all others idle.
LEMMA AloneIdle ==
    ASSUME MeetInv, NEW w \in Writer, pc[w] # "idle", w \notin met
    PROVE  \A v \in Writer \ {w} : pc[v] = "idle"
  BY DEF MeetInv, Busy

LEMMA FileStep ==
    ASSUME StateFileAssumption, FileInv, [Next]_vars
    PROVE  FileInv' /\ Advance
<1>. USE StateFileAssumption DEF FileInv
<1>1. ASSUME NEW w \in Writer, Remember(w) \/ See(w) \/ Forget(w) PROVE FileInv' /\ Advance
  <2>1. \E m \in SUBSET Fact, locked \in BOOLEAN : (file = "state" => locked) /\ Change(w, locked, m)
    BY <1>1 DEF Remember, See, Forget, TypeOK, Fact
  <2>. QED  BY <2>1, ChangeStep DEF Advance
<1>2. ASSUME NEW w \in Writer, Build(w) PROVE FileInv' /\ Advance
  <2>1. /\ pc[w] = "build" /\ pc' = [pc EXCEPT ![w] = "open"]
        /\ doc' = [doc EXCEPT ![w] = memory \cap Id]
        /\ UNCHANGED <<file, memory, lock, fd, path, tmp, content, faults, met, doubt, stored, saved>>
    BY <1>2 DEF Build, history
  <2>2. Busy' = Busy
    BY <2>1 DEF Busy, TypeOK
  <2>3. TypeOK' /\ MeetInv' /\ LockInv'
    BY <2>1, <2>2 DEF TypeOK, MeetInv, LockInv
  <2>4. WriterInv'
    BY <2>1 DEF WriterInv, TypeOK
  <2>5. PathInv' /\ OnDisk' = OnDisk
    BY <2>1 DEF PathInv, OnDisk, Readable
  <2>. QED  BY <2>3, <2>4, <2>5 DEF Advance
<1>3. ASSUME NEW w \in Writer, Open(w) PROVE FileInv' /\ Advance
  <2>1. PICK n \in Inode : /\ tmp # None => n = tmp
                           /\ tmp = None => n # path
                           /\ fd' = [fd EXCEPT ![w] = n] /\ tmp' = n
                           /\ content' = [content EXCEPT ![n] = Empty]
    BY <1>3 DEF Open, TypeOK
  <2>2. /\ pc[w] = "open" /\ pc' = [pc EXCEPT ![w] = "write"]
        /\ UNCHANGED <<file, memory, lock, doc, path, faults, met, doubt, stored, saved>>
    BY <1>3 DEF Open, history
  <2>3. Busy' = Busy
    BY <2>2 DEF Busy, TypeOK
  <2>4. TypeOK'
    BY <2>1, <2>2 DEF TypeOK, Empty, Torn
  <2>5. MeetInv' /\ LockInv'
    BY <2>2, <2>3 DEF MeetInv, LockInv
  <2>6. WriterInv'
    <3>1. ASSUME NEW v \in Writer, v # w, v \notin met PROVE pc[v] = "idle"
      BY <2>2, <3>1, AloneIdle
    <3>2. content'[n].len = 0
      BY <2>1 DEF Empty, Torn, TypeOK
    <3>. QED  BY <2>1, <2>2, <3>1, <3>2 DEF WriterInv, TypeOK
  <2>7. ~doubt => PathInv' /\ OnDisk' = OnDisk
    <3>1. ~doubt => n # path
      BY <2>1 DEF PathInv
    <3>2. ~doubt /\ path # None => content'[path] = content[path]
      BY <2>1, <3>1 DEF TypeOK
    <3>. QED  BY <2>1, <2>2, <3>1, <3>2 DEF PathInv, OnDisk, Readable, TypeOK
  <2>8. PathInv' /\ Advance
    BY <2>2, <2>7 DEF PathInv, Advance, Doubtful, LockInv, TypeOK
  <2>. QED  BY <2>4, <2>5, <2>6, <2>8
<1>4. ASSUME NEW w \in Writer, Write(w) PROVE FileInv' /\ Advance
  <2>. DEFINE d == doc[w] \cup (memory \cap Device)
              c == IF Whole(d).len >= content[fd[w]].len THEN Whole(d) ELSE Torn(content[fd[w]].len)
  <2>1. /\ pc[w] = "write" /\ pc' = [pc EXCEPT ![w] = "replace"]
        /\ doc' = [doc EXCEPT ![w] = d]
        /\ UNCHANGED <<file, memory, lock, fd, path, tmp, faults, met, doubt, stored, saved>>
    BY <1>4 DEF Write, history
  <2>2. doc'[w] = d /\ content' = [content EXCEPT ![fd[w]] = c]
    BY <1>4, <2>1 DEF Write, TypeOK
  <2>3. d \in SUBSET Fact
    BY DEF TypeOK, Fact
  <2>4. Whole(d) \in [doc : SUBSET Fact, len : Nat] /\ Whole(d).doc = d
    BY <2>3, WholeTyped
  <2>5. Busy' = Busy
    BY <2>1 DEF Busy, TypeOK
  <2>6. content' \in [Inode -> [doc : (SUBSET Fact) \cup {None}, len : Nat]]
    <3>1. CASE fd[w] \in Inode
      <4>1. content[fd[w]].len \in Nat
        BY <3>1 DEF TypeOK
      <4>2. c \in [doc : (SUBSET Fact) \cup {None}, len : Nat]
        BY <2>4, <4>1 DEF Torn
      <4>. HIDE DEF c
      <4>. QED  BY <2>2, <3>1, <4>2 DEF TypeOK
    <3>2. CASE fd[w] \notin Inode
      <4>. HIDE DEF c
      <4>. QED  BY <2>2, <3>2 DEF TypeOK
    <3>. QED  BY <3>1, <3>2
  <2>7. TypeOK'
    <3>. HIDE DEF d, c
    <3>. QED  BY <2>1, <2>3, <2>6 DEF TypeOK
  <2>8. MeetInv' /\ LockInv'
    BY <2>1, <2>5 DEF MeetInv, LockInv
  <2>9. WriterInv'
    <3>1. ASSUME NEW v \in Writer, v # w, v \notin met PROVE pc[v] = "idle"
      BY <2>1, <3>1, AloneIdle
    <3>2. ASSUME w \notin met PROVE d = memory /\ content'[tmp].doc = memory
      <4>1. doc[w] = memory \cap Id /\ tmp # None /\ fd[w] = tmp /\ content[tmp].len = 0
        BY <2>1, <3>2 DEF WriterInv
      <4>2. d = memory
        BY <4>1 DEF TypeOK, Fact
      <4>3. c = Whole(d)
        BY <2>4, <4>1
      <4>4. tmp \in Inode
        BY <4>1 DEF TypeOK
      <4>. HIDE DEF c, d
      <4>. QED  BY <2>2, <2>4, <4>1, <4>2, <4>3, <4>4 DEF TypeOK
    <3>. HIDE DEF d, c
    <3>3. /\ pc'[w] = "replace" /\ doc'[w] = d
          /\ \A v \in Writer \ {w} : pc'[v] = pc[v] /\ doc'[v] = doc[v]
      BY <2>1 DEF TypeOK
    <3>. QED  BY <2>1, <3>1, <3>2, <3>3 DEF WriterInv
  <2>10. ~doubt => PathInv' /\ OnDisk' = OnDisk
    <3>. HIDE DEF c, d
    <3>1. ~doubt /\ path # None => fd[w] # path /\ path \in Inode
      BY DEF PathInv, TypeOK
    <3>2. ~doubt /\ path # None => content'[path] = content[path]
      BY <2>2, <3>1 DEF TypeOK
    <3>. QED  BY <2>1, <3>2 DEF PathInv, OnDisk, Readable
  <2>11. PathInv' /\ Advance
    BY <2>1, <2>10 DEF PathInv, Advance, Doubtful, LockInv, TypeOK
  <2>. QED  BY <2>7, <2>8, <2>9, <2>11
<1>5. ASSUME NEW w \in Writer, Replace(w) PROVE FileInv' /\ Advance
  <2>1. /\ pc[w] = "replace" /\ Move(w) /\ Done(w) /\ UNCHANGED <<file, memory, content, faults>>
    BY <1>5 DEF Replace
  <2>2. doubt' \in {doubt, (w \in met)}
    BY <2>1 DEF Move
  <2>3. /\ MeetInv' /\ LockInv'
        /\ lock' \in Writer \cup {None} /\ met' \subseteq Writer
        /\ pc' \in [Writer -> {"idle", "build", "open", "write", "replace"}]
        /\ doc' \in [Writer -> SUBSET Fact]
        /\ fd' \in [Writer -> Inode \cup {None}]
    BY <2>1, <2>2, DoneStep
  <2>4. TypeOK'
    <3>1. doc[w] \in SUBSET Fact
      BY DEF TypeOK
    <3>2. /\ {path', tmp'} \subseteq Inode \cup {None}
          /\ doubt' \in BOOLEAN /\ stored' \subseteq Fact /\ saved' \subseteq Id
      <4>1. CASE tmp = None
        BY <2>1, <4>1 DEF TypeOK, Move
      <4>2. CASE tmp # None
        <5>1. path' = tmp /\ tmp' = None /\ doubt' = (w \in met) /\ stored' = doc[w]
              /\ saved' = saved \cup (doc[w] \cap Id)
          BY <2>1, <4>2 DEF Move
        <5>2. (w \in met) \in BOOLEAN
          OBVIOUS
        <5>3. saved' \subseteq Id
          BY <5>1 DEF TypeOK
        <5>. QED  BY <3>1, <5>1, <5>2, <5>3 DEF TypeOK
      <4>. QED  BY <4>1, <4>2
    <3>. QED  BY <2>1, <2>3, <3>2 DEF TypeOK
  <2>5. /\ pc'[w] = "idle" /\ doc'[w] = {} /\ fd'[w] = None /\ w \notin met'
        /\ \A v \in Writer \ {w} : pc'[v] = pc[v] /\ doc'[v] = doc[v] /\ fd'[v] = fd[v]
                                     /\ (v \in met' <=> v \in met)
    BY <2>1 DEF Done, TypeOK
  <2>6. ASSUME NEW v \in Writer, v # w, v \notin met PROVE pc[v] = "idle"
    BY <2>1, <2>6, AloneIdle
  <2>7. WriterInv'
    BY <2>1, <2>5, <2>6 DEF WriterInv
  <2>8. CASE tmp = None
    <3>1. UNCHANGED <<path, tmp, doubt, stored, content>>
      BY <2>1, <2>8 DEF Move
    <3>2. \A v \in Writer : fd'[v] \in {fd[v], None}
      BY <2>5
    <3>3. PathInv' /\ OnDisk' = OnDisk
      BY <3>1, <3>2 DEF PathInv, OnDisk, Readable
    <3>. QED  BY <2>3, <2>4, <2>7, <3>3 DEF Advance
  <2>9. CASE tmp # None
    <3>1. path' = tmp /\ tmp' = None /\ doubt' = (w \in met) /\ stored' = doc[w]
      BY <2>1, <2>9 DEF Move
    <3>2. ASSUME w \notin met
          PROVE  /\ content[tmp].doc = memory /\ memory \in SUBSET Fact /\ doc[w] = memory
                 /\ \A v \in Writer \ {w} : fd[v] = None
      BY <2>1, <2>6, AloneIdle, <3>2 DEF WriterInv, TypeOK
    <3>3. w \notin met => OnDisk' = memory /\ stored' = memory /\ content'[path'].doc # None
      <4>. SUFFICES ASSUME w \notin met PROVE OnDisk' = memory /\ stored' = memory /\ content'[path'].doc # None
        OBVIOUS
      <4>1. content' = content /\ content[tmp].doc = memory /\ memory # None
        BY <2>1, <3>2 DEF StateFileAssumption, Fact
      <4>. QED  BY <2>9, <3>1, <3>2, <4>1 DEF OnDisk, Readable
    <3>4. w \notin met => \A v \in Writer : fd'[v] = None
      BY <2>5, <3>2
    <3>5. PathInv'
      BY <2>9, <3>1, <3>3, <3>4 DEF PathInv
    <3>6. Advance
      BY <2>1, <3>1, <3>3 DEF Advance, Doubtful, LockInv, TypeOK
    <3>. QED  BY <2>3, <2>4, <2>7, <3>5, <3>6
  <2>. QED  BY <2>8, <2>9
<1>6. ASSUME NEW w \in Writer, Fail(w) PROVE FileInv' /\ Advance
  <2>1. /\ pc[w] \in {"open", "write"} /\ Done(w) /\ faults' \in 0..MaxFaults
        /\ UNCHANGED <<file, memory, path, tmp, content, doubt, stored, saved>>
    BY <1>6 DEF Fail, TypeOK
  <2>2. doubt' \in {doubt, (w \in met)} /\ pc[w] # "idle"
    BY <2>1
  <2>3. /\ MeetInv' /\ LockInv'
        /\ lock' \in Writer \cup {None} /\ met' \subseteq Writer
        /\ pc' \in [Writer -> {"idle", "build", "open", "write", "replace"}]
        /\ doc' \in [Writer -> SUBSET Fact]
        /\ fd' \in [Writer -> Inode \cup {None}]
    BY <2>1, <2>2, DoneStep
  <2>4. TypeOK'
    BY <2>1, <2>3 DEF TypeOK
  <2>5. /\ pc'[w] = "idle" /\ doc'[w] = {} /\ fd'[w] = None
        /\ \A v \in Writer \ {w} : pc'[v] = pc[v] /\ doc'[v] = doc[v] /\ fd'[v] = fd[v]
                                     /\ (v \in met' <=> v \in met)
    BY <2>1 DEF Done, TypeOK
  <2>6. WriterInv'
    BY <2>1, <2>5 DEF WriterInv
  <2>7. \A v \in Writer : fd'[v] \in {fd[v], None}
    BY <2>5
  <2>8. PathInv' /\ OnDisk' = OnDisk
    BY <2>1, <2>7 DEF PathInv, OnDisk, Readable
  <2>. QED  BY <2>3, <2>4, <2>6, <2>8 DEF Advance
<1>7. CASE Crash
  <2>1. /\ memory' = OnDisk /\ lock' = None /\ met' = {} /\ faults' \in 0..MaxFaults
        /\ pc' = [w \in Writer |-> "idle"] /\ doc' = [w \in Writer |-> {}]
        /\ fd' = [w \in Writer |-> None]
        /\ UNCHANGED <<file, path, tmp, content, doubt, stored, saved>>
    BY <1>7 DEF Crash, TypeOK
  <2>2. TypeOK'
    BY <2>1, OnDiskTyped DEF TypeOK
  <2>3. Busy' = {}
    BY <2>1 DEF Busy
  <2>4. MeetInv' /\ LockInv' /\ WriterInv'
    BY <2>1, <2>3 DEF MeetInv, LockInv, WriterInv
  <2>5. PathInv' /\ OnDisk' = OnDisk
    BY <2>1 DEF PathInv, OnDisk, Readable
  <2>. QED  BY <2>2, <2>4, <2>5 DEF Advance
<1>8. CASE UNCHANGED vars
  <2>1. UNCHANGED <<file, memory, lock, pc, doc, fd, path, tmp, content, faults, met, doubt,
                    stored, saved>>
    BY <1>8 DEF vars, history
  <2>2. Busy' = Busy
    BY <2>1 DEF Busy
  <2>. QED
    BY <2>1, <2>2 DEF TypeOK, MeetInv, LockInv, WriterInv, PathInv, OnDisk, Readable, Advance
<1>. QED
  BY <1>1, <1>2, <1>3, <1>4, <1>5, <1>6, <1>7, <1>8 DEF Next

\* The invariant of both files.
THEOREM FileInvariance == Spec => []FileInv
<1>1. Init => FileInv
  BY FileInit, StateFileAssumption
<1>2. FileInv /\ [Next]_vars => FileInv'
  BY FileStep, StateFileAssumption
<1>. QED  BY <1>1, <1>2, PTL DEF Spec

\* Writers, inodes and documents stay in their types.
THEOREM FileTyped == Spec => []TypeOK
<1>1. FileInv => TypeOK
  BY DEF FileInv
<1>. QED  BY <1>1, FileInvariance, PTL

\* gigaset_state.json is whole at every moment, wherever a process dies; so is
\* gigaset_command_state.json unless the last save met another one.
THEOREM AlwaysReadable == Spec => []FileReadable
<1>1. FileInv => FileReadable
  BY DEF FileInv, FileReadable, LockInv, PathInv, TypeOK, Readable, Doubtful
<1>. QED  BY <1>1, FileInvariance, PTL

\* A restart finds what the last save that returned stored, with the same exception.
THEOREM SavedIsKnown == Spec => RestartRestores
<1>1. FileInv /\ [Next]_vars => [Crash => memory' = stored \/ Doubtful]_vars
  <2>. SUFFICES ASSUME FileInv, Crash PROVE memory' = stored \/ Doubtful
    OBVIOUS
  <2>. QED  BY DEF FileInv, Crash, LockInv, PathInv, TypeOK, Doubtful
<1>. QED  BY <1>1, FileInvariance, PTL DEF Spec, RestartRestores

\* No save puts an older document over a younger one, with the same exception.
THEOREM NeverBack == Spec => FileAdvances
<1>1. FileInv /\ [Next]_vars => [OnDisk' # OnDisk => OnDisk' = memory \/ Doubtful']_vars
  BY FileStep, StateFileAssumption DEF Advance
<1>. QED  BY <1>1, FileInvariance, PTL DEF Spec, FileAdvances
=============================================================================
