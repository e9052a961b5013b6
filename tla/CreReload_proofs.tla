-------------------------- MODULE CreReload_proofs --------------------------
(***************************************************************************)
(* For any number of bases, addresses, versions, restarts, and connection   *)
(* threads at a time: the types; that a gwctl file which a base has         *)
(* downloaded keeps its name; that a base is asked to reload for a reason;  *)
(* and that none is forgotten.                                              *)
(***************************************************************************)
EXTENDS CreReload, Recursion

-----------------------------------------------------------------------------
(* Types *)

Labels == {"idle", "check", "write", "save", "patch", "enter", "digest", "record", "wait", "send",
           "mark", "remove"}
Reload  == {"control", "manifest"} \X (0..MaxVersion) \X (0..MaxSerial)
Command == Reload \cup ({"event"} \X Entry \X {0})

\* What a thread has at hand, at a step s, for a base a: an address and a serial, a
\* serial and the bases it is to be entered for, a command, or a command and a queue
\* without it.
Fits(t, s, a, x) ==
    /\ s = "write" => x[1] \in Address /\ x[2] \in 0..MaxSerial
    /\ s = "enter" => x[1] \in 0..MaxSerial /\ x[2] \in SUBSET Peer
    /\ s \in {"send", "mark"} => x \in Command
    /\ s = "remove" => x[1] \in Command /\ x[2] \in Seq(Reload)
    /\ t \in Thread /\ s # "idle" => a \in Peer

ThreadTyped ==
    /\ pc \in [All -> Labels] /\ at \in [All -> Peer \cup {None}] /\ DOMAIN arg = All
    /\ \A t \in All : Fits(t, pc[t], at[t], arg[t])
QueueTyped == DOMAIN queue = Peer /\ \A p \in Peer : queue[p] \in Seq(Reload)
NamesTyped ==
    /\ local \in Address \cup {None} /\ serial \in 0..MaxSerial
    /\ files \in [0..MaxSerial -> Address \cup {None}]
BasesTyped ==
    /\ manifest \in [Peer -> Manifest] /\ digests \in [Peer -> Manifest] /\ keys \subseteq Peer
    /\ loaded \in [Peer -> Manifest] /\ asked \in [Peer -> Manifest \cup {None}]
    /\ told \in [Peer -> BOOLEAN] /\ cached \in [Peer -> [0..MaxSerial -> Address \cup {None}]]
    /\ raced \subseteq 0..MaxSerial /\ taken \subseteq Peer /\ lost \subseteq Peer
DiskTyped ==
    /\ disk \in [serial : 0..MaxSerial, digests : [Peer -> Manifest], keys : SUBSET Peer,
                 sent : SUBSET Entry]
EntriesTyped ==
    /\ entries \in 0..Len(Target) /\ {pending, sent} \subseteq SUBSET Entry
    /\ crashes \in 0..MaxCrashes

Typed == ThreadTyped /\ QueueTyped /\ NamesTyped /\ BasesTyped /\ DiskTyped /\ EntriesTyped

LEMMA TypedIsTyped == Typed => TypeOK
  BY DEF Typed, ThreadTyped, QueueTyped, NamesTyped, BasesTyped, DiskTyped, EntriesTyped, TypeOK,
     Labels, Reload

\* A list without a command has nothing new, is not longer, and has all the others.
LEMMA WithoutOf ==
    ASSUME NEW S, NEW s \in Seq(S), NEW c
    PROVE  /\ Without(s, c) \in Seq(S) /\ Len(Without(s, c)) <= Len(s)
           /\ \A i \in DOMAIN s : s[i] # c => \E j \in DOMAIN Without(s, c) : Without(s, c)[j] = s[i]
<1>. DEFINE m == Len(s)
            V == Seq(S)
            With(r, n) == r \o (IF s[n] = c THEN <<>> ELSE <<s[n]>>)
            Kept(f) == f = [n \in 0..m |-> IF n = 0 THEN <<>> ELSE With(f[n - 1], n)]
            kept == CHOOSE f : Kept(f)
            step == [n \in 1..m |-> [r \in V |-> With(r, n)]]
            Has(r, x) == \E j \in DOMAIN r : r[j] = x
            Good == {n \in 0..m : /\ kept[n] \in V /\ Len(kept[n]) <= n
                                  /\ \A i \in 1..n : s[i] # c => Has(kept[n], s[i])}
<1>0. DOMAIN s = 1..m
  OBVIOUS
<1>1. m \in Nat /\ <<>> \in V /\ Len(<<>>) = 0
  OBVIOUS
<1>2. ASSUME NEW n \in 1..m, NEW r \in V
      PROVE  /\ With(r, n) \in V /\ Len(r) \in Nat /\ Len(With(r, n)) \in Nat
             /\ Len(With(r, n)) <= Len(r) + 1
             /\ \A x : Has(r, x) => Has(With(r, n), x)
             /\ s[n] # c => Has(With(r, n), s[n])
  <2>1. CASE s[n] = c
    <3>1. With(r, n) = r
      BY <2>1
    <3>. QED  BY <2>1, <3>1
  <2>2. CASE s[n] # c
    <3>1. With(r, n) = r \o <<s[n]>> /\ s[n] \in S
      BY <2>2
    <3>2. /\ With(r, n) \in V /\ Len(r) \in Nat /\ Len(With(r, n)) = Len(r) + 1
          /\ \A j \in DOMAIN r : With(r, n)[j] = r[j]
          /\ With(r, n)[Len(r) + 1] = s[n]
          /\ DOMAIN r = 1..Len(r) /\ DOMAIN With(r, n) = 1..Len(r) + 1
      BY <3>1
    <3>. HIDE DEF With
    <3>3. \A j \in DOMAIN r : j \in DOMAIN With(r, n)
      BY <3>2
    <3>4. Len(r) + 1 \in DOMAIN With(r, n)
      BY <3>2
    <3>. QED  BY <3>2, <3>3, <3>4
  <2>. QED  BY <2>1, <2>2
<1>3. Without(s, c) = kept[m]
  BY DEF Without
<1>. HIDE DEF m, V, With
<1>4. step \in [1..m -> [V -> V]] /\ \A n \in 1..m, r \in V : step[n][r] = With(r, n)
  BY <1>2
<1>. HIDE DEF step, Has
<1>5. PICK f \in [0..m -> V] : f[0] = <<>> /\ \A n \in 1..m : f[n] = step[n][f[n - 1]]
  BY <1>1, <1>4, Recursion
<1>6. \A n \in 1..m : n - 1 \in 0..m /\ f[n] = With(f[n - 1], n)
  BY <1>1, <1>4, <1>5
<1>7. Kept(f)
  BY <1>1, <1>5, <1>6
<1>8. Kept(kept)
  BY <1>7
<1>. HIDE DEF kept
<1>9. kept[0] = <<>> /\ \A n \in 1..m : kept[n] = With(kept[n - 1], n)
  BY <1>1, <1>8
<1>10. 0 \in Good
  BY <1>1, <1>9
<1>11. ASSUME NEW n \in 1..m, n - 1 \in Good PROVE n \in Good
  <2>1. /\ kept[n - 1] \in V /\ Len(kept[n - 1]) <= n - 1
        /\ \A i \in 1..n - 1 : s[i] # c => Has(kept[n - 1], s[i])
    BY <1>11
  <2>2. kept[n] \in V /\ Len(kept[n]) <= n
    BY <1>1, <1>2, <1>9, <2>1
  <2>3. ASSUME NEW i \in 1..n, s[i] # c PROVE Has(kept[n], s[i])
    <3>1. CASE i = n
      BY <1>2, <1>9, <2>1, <2>3, <3>1
    <3>2. CASE i # n
      <4>1. i \in 1..n - 1
        BY <1>1, <3>2
      <4>. QED  BY <1>2, <1>9, <2>1, <2>3, <4>1
    <3>. QED  BY <3>1, <3>2
  <2>4. n \in 0..m
    BY <1>1
  <2>. QED  BY <2>2, <2>3, <2>4
<1>. HIDE DEF Good
<1>12. \A n \in 0..m : n \in Good
  BY <1>1, <1>10, <1>11, UpTo
<1>13. m \in Good
  BY <1>1, <1>12
<1>. QED  BY <1>0, <1>1, <1>3, <1>13 DEF Good, m, V, Has

LEMMA InitTyped == Init => Typed
<1>. SUFFICES ASSUME Init PROVE Typed
  OBVIOUS
<1>1. ThreadTyped
  <2>1. /\ pc \in [All -> Labels] /\ \A t \in Thread : pc[t] = "idle"
        /\ \A t \in All : pc[t] \in {"check", "idle"}
    BY CreReloadAssumption DEF Init, Labels, All
  <2>2. at \in [All -> Peer \cup {None}] /\ DOMAIN arg = All
    BY DEF Init
  <2>. QED  BY <2>1, <2>2 DEF ThreadTyped, Fits
<1>2. QueueTyped
  BY DEF Init, QueueTyped
<1>3. 0 \in 0..MaxSerial /\ 0..1 \subseteq 0..MaxVersion /\ 0 \in 0..MaxVersion
  BY CreReloadAssumption
<1>4. NamesTyped
  BY <1>3 DEF Init, NamesTyped
<1>5. /\ loaded = [p \in Peer |-> [user |-> 0, lib |-> 0]] /\ loaded \in [Peer -> Manifest]
      /\ manifest \in [Peer -> Manifest]
  BY <1>3 DEF Init, Manifest
<1>6. BasesTyped
  BY <1>5, CreReloadAssumption DEF Init, BasesTyped
<1>7. DiskTyped
  BY <1>3, <1>6 DEF Init, BasesTyped, DiskTyped, Saved
<1>8. EntriesTyped
  <2>1. Len(Target) \in Nat
    BY CreReloadAssumption
  <2>. QED  BY <2>1, CreReloadAssumption DEF Init, EntriesTyped
<1>. QED  BY <1>1, <1>2, <1>4, <1>6, <1>7, <1>8 DEF Typed

\* A thread goes to another step, perhaps with another base and something else at hand.
LEMMA ThreadGoes ==
    ASSUME ThreadTyped, NEW t \in All, NEW s \in Labels, NEW a \in Peer \cup {None}, NEW x,
           pc' = [pc EXCEPT ![t] = s], Fits(t, s, a, x),
           (at' = at /\ a = at[t]) \/ at' = [at EXCEPT ![t] = a],
           (arg' = arg /\ x = arg[t]) \/ arg' = [arg EXCEPT ![t] = x]
    PROVE  ThreadTyped'
<1>1. pc' \in [All -> Labels] /\ pc'[t] = s /\ \A u \in All \ {t} : pc'[u] = pc[u]
  BY DEF ThreadTyped
<1>2. at' \in [All -> Peer \cup {None}] /\ at'[t] = a /\ \A u \in All \ {t} : at'[u] = at[u]
  BY DEF ThreadTyped
<1>3. DOMAIN arg' = All /\ arg'[t] = x /\ \A u \in All \ {t} : arg'[u] = arg[u]
  BY DEF ThreadTyped
<1>4. ASSUME NEW u \in All PROVE Fits(u, pc'[u], at'[u], arg'[u])
  <2>1. CASE u = t
    BY <1>1, <1>2, <1>3, <2>1
  <2>2. CASE u # t
    BY <1>1, <1>2, <1>3, <2>2 DEF ThreadTyped
  <2>. QED  BY <2>1, <2>2
<1>5. \A u \in All : (Fits(u, pc[u], at[u], arg[u]))'
  BY <1>4 DEF Fits
<1>. QED  BY <1>1, <1>2, <1>3, <1>5 DEF ThreadTyped

\* What was asked of the bases B, and with what.
LEMMA RequestTyped ==
    ASSUME Typed, manifest' \in [Peer -> Manifest], NEW B \in SUBSET Peer,
           NEW what \in [Peer -> Reload], RequestReload(B, what), lost' = Missed(B, what)
    PROVE  QueueTyped' /\ asked' \in [Peer -> Manifest \cup {None}] /\ lost' \subseteq Peer
<1>1. asked \in [Peer -> Manifest \cup {None}] /\ \A p \in Peer : queue[p] \in Seq(Reload)
  BY DEF Typed, BasesTyped, QueueTyped
<1>2. \A p \in Peer : Append(queue[p], what[p]) \in Seq(Reload)
  BY <1>1
<1>3. QueueTyped'
  BY <1>1, <1>2 DEF RequestReload, QueueTyped
<1>4. lost' \subseteq Peer
  BY DEF Missed, Typed, BasesTyped
<1>. QED  BY <1>1, <1>3, <1>4 DEF RequestReload

LEMMA StartupTyped ==
    ASSUME Typed, NEW t \in All, Startup(t)
    PROVE  Typed'
<1>0. /\ MaxSerial \in Nat /\ MaxVersion \in Nat /\ pc \in [All -> Labels] /\ serial \in 0..MaxSerial
      /\ manifest \in [Peer -> Manifest] /\ digests \in [Peer -> Manifest]
      /\ ThreadTyped /\ Fits(t, pc[t], at[t], arg[t]) /\ at[t] \in Peer \cup {None}
  BY CreReloadAssumption DEF Typed, ThreadTyped, NamesTyped, BasesTyped
<1>1. pc[t] # "idle" =>
        \A x : /\ Fits(t, "digest", at[t], x) /\ Fits(t, "patch", at[t], x)
               /\ Fits(t, "save", at[t], x) /\ Fits(t, "record", at[t], x)
               /\ x[1] \in Address /\ x[2] \in 0..MaxSerial => Fits(t, "write", at[t], x)
               /\ x[1] \in 0..MaxSerial /\ x[2] \in SUBSET Peer => Fits(t, "enter", at[t], x)
  BY <1>0 DEF Fits
<1>2. CASE LibraryCheck(t)
  <2>1. Source # None => Source \in Address
    BY CreReloadAssumption DEF Source, Typed, NamesTyped
  <2>2. ThreadTyped'
    <3>1. CASE pc' = [pc EXCEPT ![t] = "digest"] /\ arg' = arg
      BY <1>0, <1>1, <1>2, <3>1, ThreadGoes DEF LibraryCheck, Labels
    <3>2. CASE pc' = [pc EXCEPT ![t] = "patch"] /\ arg' = arg
      BY <1>0, <1>1, <1>2, <3>2, ThreadGoes DEF LibraryCheck, Labels
    <3>3. CASE /\ pc' = [pc EXCEPT ![t] = "write"] /\ arg' = [arg EXCEPT ![t] = <<Source, serial + 1>>]
               /\ Source # None /\ serial < MaxSerial
      <4>. DEFINE x == <<Source, serial + 1>>
      <4>1. x[1] \in Address /\ x[2] \in 0..MaxSerial
        BY <1>0, <2>1, <3>3
      <4>2. arg' = [arg EXCEPT ![t] = x] /\ at' = at /\ pc[t] # "idle"
        BY <1>2, <3>3 DEF LibraryCheck
      <4>. HIDE DEF x
      <4>3. Fits(t, "write", at[t], x)
        BY <1>1, <4>1, <4>2
      <4>. QED  BY <1>0, <3>3, <4>2, <4>3, ThreadGoes DEF Labels
    <3>. QED  BY <1>2, <3>1, <3>2, <3>3 DEF LibraryCheck, Goto
  <2>3. serial' \in 0..MaxSerial
    BY <1>0, <1>2 DEF LibraryCheck
  <2>4. UNCHANGED <<local, digests, keys, queue, at, diskVars, baseVars, past, eventVars, crashes>>
    BY <1>2 DEF LibraryCheck
  <2>. QED  BY <2>2, <2>3, <2>4 DEF Typed, QueueTyped, NamesTyped, BasesTyped, DiskTyped, EntriesTyped,
            diskVars, baseVars, past, eventVars
<1>3. CASE LibraryWrite(t)
  <2>1. arg[t][1] \in Address /\ arg[t][2] \in 0..MaxSerial
    BY <1>0, <1>3 DEF LibraryWrite, Fits
  <2>2. ThreadTyped'
    BY <1>0, <1>1, <1>3, ThreadGoes DEF LibraryWrite, Goto, Labels
  <2>3. files' \in [0..MaxSerial -> Address \cup {None}]
    BY <1>0, <1>3, <2>1 DEF LibraryWrite, Typed, NamesTyped
  <2>4. UNCHANGED <<local, serial, digests, keys, queue, at, manifest, disk, baseVars, past,
                    eventVars, crashes>>
    BY <1>3 DEF LibraryWrite
  <2>. QED  BY <2>2, <2>3, <2>4 DEF Typed, QueueTyped, NamesTyped, BasesTyped, DiskTyped, EntriesTyped,
            baseVars, past, eventVars
<1>4. CASE LibrarySave(t)
  <2>1. ThreadTyped'
    BY <1>0, <1>1, <1>4, ThreadGoes DEF LibrarySave, Goto, Labels
  <2>2. DiskTyped'
    BY <1>4 DEF LibrarySave, Saved, Typed, NamesTyped, BasesTyped, EntriesTyped, DiskTyped
  <2>3. UNCHANGED <<local, serial, digests, keys, queue, at, arg, files, manifest, baseVars, past,
                    eventVars, crashes>>
    BY <1>4 DEF LibrarySave
  <2>. QED  BY <2>1, <2>2, <2>3 DEF Typed, QueueTyped, NamesTyped, BasesTyped, EntriesTyped,
            baseVars, past, eventVars
<1>5. CASE LibraryCompare(t)
  <2>. DEFINE x == <<serial, {p \in Peer : manifest[p].lib # serial}>>
  <2>1. x[1] \in 0..MaxSerial /\ x[2] \in SUBSET Peer
    BY <1>0
  <2>2. /\ arg' = [arg EXCEPT ![t] = x] /\ pc' = [pc EXCEPT ![t] = "enter"] /\ at' = at /\ pc[t] # "idle"
        /\ UNCHANGED <<local, serial, digests, keys, queue, diskVars, baseVars, past, eventVars, crashes>>
    BY <1>5 DEF LibraryCompare, Goto
  <2>. HIDE DEF x
  <2>3. Fits(t, "enter", at[t], x)
    BY <1>1, <2>1, <2>2
  <2>4. ThreadTyped'
    BY <1>0, <2>2, <2>3, ThreadGoes DEF Labels
  <2>. QED  BY <2>2, <2>4 DEF Typed, QueueTyped, NamesTyped, BasesTyped, DiskTyped, EntriesTyped,
            diskVars, baseVars, past, eventVars
<1>6. CASE LibraryPatch(t)
  <2>. DEFINE B     == arg[t][2]
              order == [p \in Peer |-> <<"control", 0, serial>>]
  <2>1. ThreadTyped'
    BY <1>0, <1>1, <1>6, ThreadGoes DEF LibraryPatch, Goto, Labels
  <2>2. arg[t][1] \in 0..MaxSerial /\ B \in SUBSET Peer
    BY <1>0, <1>6 DEF LibraryPatch, Fits
  <2>3. manifest' = [p \in Peer |-> IF p \in B THEN [manifest[p] EXCEPT !.lib = arg[t][1]]
                                               ELSE manifest[p]]
    BY <1>6 DEF LibraryPatch
  <2>4. manifest' \in [Peer -> Manifest]
    BY <1>0, <2>2, <2>3 DEF Manifest
  <2>5. order \in [Peer -> Reload]
    BY <1>0 DEF Reload
  <2>6. RequestReload(B, order) /\ lost' = Missed(B, order)
    BY <1>6 DEF LibraryPatch
  <2>7. raced' \subseteq 0..MaxSerial /\ taken' \subseteq Peer
    BY <1>6, <2>2 DEF LibraryPatch, Typed, BasesTyped
  <2>8. UNCHANGED <<local, serial, digests, keys, at, files, disk, baseVars, eventVars, crashes>>
    BY <1>6 DEF LibraryPatch
  <2>. HIDE DEF B, order
  <2>9. QueueTyped' /\ asked' \in [Peer -> Manifest \cup {None}] /\ lost' \subseteq Peer
    BY <2>2, <2>4, <2>5, <2>6, RequestTyped
  <2>. QED  BY <2>1, <2>4, <2>7, <2>8, <2>9 DEF Typed, NamesTyped, BasesTyped, DiskTyped, EntriesTyped,
            baseVars, eventVars
<1>7. CASE DigestCheck(t)
  <2>. DEFINE changed == {p \in Peer : digests[p] # manifest[p]}
              order == [p \in Peer |-> <<"manifest", manifest[p].user, manifest[p].lib>>]
              B     == Unqueued(changed)
  <2>1. ThreadTyped'
    <3>1. Fits(t, "idle", at[t], arg[t]) \/ t # Main
      BY CreReloadAssumption DEF Fits
    <3>. QED  BY <1>0, <1>1, <1>7, <3>1, ThreadGoes DEF DigestCheck, Goto, Labels
  <2>2. manifest' = manifest /\ digests' = manifest /\ manifest' \in [Peer -> Manifest]
    BY <1>0, <1>7 DEF DigestCheck
  <2>3. order \in [Peer -> Reload]
    BY <1>0 DEF Reload, Manifest
  <2>4. RequestReload(B, order) /\ lost' = Missed(B, order) /\ B \in SUBSET Peer
    BY <1>7 DEF DigestCheck, Unqueued
  <2>5. DiskTyped'
    BY <1>0, <1>7 DEF DigestCheck, Saved, Typed, NamesTyped, BasesTyped, EntriesTyped, DiskTyped
  <2>6. taken' \subseteq Peer
    BY <1>7 DEF DigestCheck, Typed, BasesTyped
  <2>. HIDE DEF changed, order, B
  <2>7. QueueTyped' /\ asked' \in [Peer -> Manifest \cup {None}] /\ lost' \subseteq Peer
    BY <2>2, <2>3, <2>4, RequestTyped
  <2>8. UNCHANGED <<local, serial, keys, at, arg, files, raced, baseVars, eventVars, crashes>>
    BY <1>7 DEF DigestCheck
  <2>. QED  BY <2>1, <2>2, <2>5, <2>6, <2>7, <2>8 DEF Typed, NamesTyped, BasesTyped, EntriesTyped,
            baseVars, eventVars
<1>. QED  BY <1>2, <1>3, <1>4, <1>5, <1>6, <1>7 DEF Startup

\* Steps of a thread that serves its base: what is kept of the command file and saved.
LEMMA RecordTyped ==
    ASSUME Typed, NEW t \in Thread, Record(t)
    PROVE  Typed'
<1>1. ThreadTyped /\ t \in All /\ Fits(t, pc[t], at[t], arg[t]) /\ at[t] \in Peer \cup {None}
  BY DEF Typed, ThreadTyped, All
<1>2. at[t] \in Peer /\ Fits(t, "wait", at[t], arg[t])
  BY <1>1 DEF Record, Fits
<1>3. ThreadTyped'
  BY <1>1, <1>2, ThreadGoes DEF Record, Goto, Labels
<1>4. /\ UNCHANGED <<local, serial, digests, queue, at, arg, files, manifest, baseVars, past,
                     eventVars, crashes>>
      /\ keys' = keys \cup {at[t]} /\ (disk' = disk \/ disk' = Saved(serial, digests, keys', sent))
  BY DEF Record
<1>5. DiskTyped' /\ keys' \subseteq Peer
  BY <1>2, <1>4 DEF Saved, Typed, NamesTyped, BasesTyped, EntriesTyped, DiskTyped
<1>. QED  BY <1>3, <1>4, <1>5 DEF Typed, QueueTyped, NamesTyped, BasesTyped, EntriesTyped, baseVars,
          past, eventVars

LEMMA LoadedEntries == Typed => Loaded \in SUBSET Entry
<1>. SUFFICES ASSUME Typed PROVE Loaded \in SUBSET Entry
  OBVIOUS
<1>1. pending \in SUBSET Entry /\ entries \in 0..Len(Target)
  BY DEF Typed, EntriesTyped
<1>2. Entry = 1..Len(Target) /\ Len(Target) \in Nat
  BY CreReloadAssumption DEF Entry
<1>. QED  BY <1>1, <1>2 DEF Loaded

LEMMA PeekTyped ==
    ASSUME Typed, NEW t \in Thread, Peek(t)
    PROVE  Typed'
<1>. DEFINE p    == at[t]
            mine == {e \in Loaded : Matches(e, p)}
            first == CHOOSE e \in mine : \A f \in mine : e <= f
            x    == IF queue[p] # <<>> THEN Head(queue[p]) ELSE <<"event", first, 0>>
<1>1. ThreadTyped /\ t \in All /\ Fits(t, pc[t], at[t], arg[t]) /\ at[t] \in Peer \cup {None}
  BY DEF Typed, ThreadTyped, All
<1>2. p \in Peer /\ queue[p] \in Seq(Reload)
  BY <1>1 DEF Peek, Fits, Typed, QueueTyped
<1>3. x \in Command
  <2>1. CASE queue[p] # <<>>
    BY <1>2, <2>1 DEF Command
  <2>2. CASE queue[p] = <<>>
    <3>1. mine # {}
      BY <2>2 DEF Peek
    <3>2. mine \subseteq Entry /\ Entry \subseteq Nat
      BY LoadedEntries, CreReloadAssumption DEF Entry
    <3>. HIDE DEF mine
    <3>3. \E e \in mine : \A f \in mine : e <= f
      BY <3>1, <3>2, LeastNat
    <3>4. first \in Entry
      BY <3>2, <3>3
    <3>. QED  BY <2>2, <3>4 DEF Command
  <2>. QED  BY <2>1, <2>2
<1>4. /\ pc' = [pc EXCEPT ![t] = "send"] /\ arg' = [arg EXCEPT ![t] = x] /\ at' = at
      /\ pending' = Loaded
      /\ UNCHANGED <<local, serial, digests, keys, queue, diskVars, baseVars, past,
                     entries, sent, crashes>>
  BY DEF Peek, Goto
<1>5. Fits(t, "send", p, x)
  BY <1>2, <1>3 DEF Fits
<1>. HIDE DEF x
<1>6. ThreadTyped'
  BY <1>1, <1>4, <1>5, ThreadGoes DEF Labels
<1>7. pending' \in SUBSET Entry
  BY <1>4, LoadedEntries
<1>. QED  BY <1>4, <1>6, <1>7 DEF Typed, QueueTyped, NamesTyped, BasesTyped, DiskTyped, EntriesTyped,
          baseVars, diskVars, past

LEMMA SendTyped ==
    ASSUME Typed, NEW t \in Thread, Send(t)
    PROVE  Typed'
<1>1. ThreadTyped /\ t \in All /\ Fits(t, pc[t], at[t], arg[t]) /\ at[t] \in Peer \cup {None}
  BY DEF Typed, ThreadTyped, All
<1>2. arg[t] \in Command /\ at[t] \in Peer /\ Fits(t, "mark", at[t], arg[t])
  BY <1>1 DEF Send, Fits
<1>3. ThreadTyped'
  BY <1>1, <1>2, ThreadGoes DEF Send, Goto, Labels
<1>4. lost' \subseteq Peer /\ told' \in [Peer -> BOOLEAN]
  BY <1>2 DEF Send, Typed, BasesTyped
<1>5. UNCHANGED <<local, serial, digests, keys, queue, at, arg, diskVars, loaded, cached,
                  asked, raced, taken, entries, pending, sent, crashes>>
  BY DEF Send
<1>. QED  BY <1>3, <1>4, <1>5 DEF Typed, QueueTyped, NamesTyped, BasesTyped, DiskTyped, EntriesTyped,
          diskVars

LEMMA HangupTyped ==
    ASSUME Typed, NEW t \in Thread, Hangup(t)
    PROVE  Typed'
<1>1. ThreadTyped /\ t \in All /\ Fits(t, "idle", None, None)
  BY DEF Typed, ThreadTyped, All, Fits
<1>2. ThreadTyped'
  BY <1>1, ThreadGoes DEF Hangup, Goto, Labels
<1>3. UNCHANGED <<local, serial, digests, keys, queue, diskVars, baseVars, past, eventVars, crashes>>
  BY DEF Hangup
<1>. QED  BY <1>2, <1>3 DEF Typed, QueueTyped, NamesTyped, BasesTyped, DiskTyped, EntriesTyped,
          diskVars, baseVars, past, eventVars

LEMMA MarkReadTyped ==
    ASSUME Typed, NEW t \in Thread, MarkRead(t)
    PROVE  Typed'
<1>. DEFINE x == <<arg[t], Without(queue[at[t]], arg[t])>>
<1>1. ThreadTyped /\ t \in All /\ Fits(t, pc[t], at[t], arg[t]) /\ at[t] \in Peer \cup {None}
      /\ t \in DOMAIN arg
  BY DEF Typed, ThreadTyped, All
<1>2. arg[t] \in Command /\ at[t] \in Peer
  BY <1>1 DEF MarkRead, Fits
<1>3. Without(queue[at[t]], arg[t]) \in Seq(Reload)
  BY <1>2, WithoutOf DEF Typed, QueueTyped
<1>4. Fits(t, "remove", at[t], x)
  BY <1>2, <1>3 DEF Fits
<1>5. /\ pc' = [pc EXCEPT ![t] = "remove"] /\ arg' = [arg EXCEPT ![t] = x]
      /\ UNCHANGED <<local, serial, digests, keys, queue, at, diskVars, baseVars, past, eventVars,
                     crashes>>
  BY <1>1 DEF MarkRead, Goto
<1>. HIDE DEF x
<1>6. ThreadTyped'
  BY <1>1, <1>4, <1>5, ThreadGoes DEF Labels
<1>. QED  BY <1>5, <1>6 DEF Typed, QueueTyped, NamesTyped, BasesTyped, DiskTyped, EntriesTyped,
          diskVars, baseVars, past, eventVars

LEMMA MarkWriteTyped ==
    ASSUME Typed, NEW t \in Thread, MarkWrite(t)
    PROVE  Typed'
<1>. DEFINE done == IF arg[t][1][1] = "event" THEN {arg[t][1][2]} ELSE {}
<1>1. ThreadTyped /\ t \in All /\ Fits(t, pc[t], at[t], arg[t]) /\ at[t] \in Peer \cup {None}
  BY DEF Typed, ThreadTyped, All
<1>2. arg[t][1] \in Command /\ arg[t][2] \in Seq(Reload) /\ at[t] \in Peer
  BY <1>1 DEF MarkWrite, Fits
<1>3. done \in SUBSET Entry
  BY <1>2 DEF Command, Reload
<1>4. /\ pc' = [pc EXCEPT ![t] = "wait"] /\ arg' = [arg EXCEPT ![t] = None] /\ at' = at
      /\ queue' = [queue EXCEPT ![at[t]] = arg[t][2]]
      /\ pending' = pending \ done /\ sent' = sent \cup done
      /\ disk' = Saved(serial, digests, keys, sent')
      /\ taken' \subseteq taken \cup {at[t]}
      /\ UNCHANGED <<local, serial, digests, keys, files, manifest, baseVars, asked, raced, lost,
                     entries, crashes>>
  BY DEF MarkWrite, Goto
<1>. HIDE DEF done
<1>5. ThreadTyped'
  <2>1. Fits(t, "wait", at[t], None)
    BY <1>2 DEF Fits
  <2>. QED  BY <1>1, <1>4, <2>1, ThreadGoes DEF Labels
<1>6. QueueTyped'
  BY <1>2, <1>4 DEF Typed, QueueTyped
<1>7. EntriesTyped'
  BY <1>3, <1>4 DEF Typed, EntriesTyped
<1>8. DiskTyped'
  BY <1>4, <1>7 DEF Typed, NamesTyped, BasesTyped, EntriesTyped, DiskTyped, Saved
<1>. QED  BY <1>2, <1>4, <1>5, <1>6, <1>7, <1>8 DEF Typed, NamesTyped, BasesTyped, baseVars

LEMMA ConnectTyped ==
    ASSUME Typed, NEW t \in Thread, NEW p \in Peer, NEW a \in Address, Connect(t, p, a)
    PROVE  Typed'
<1>1. ThreadTyped /\ t \in All
  BY DEF Typed, ThreadTyped, All
<1>2. \A s \in {"record", "check"} : Fits(t, s, p, arg[t]) /\ s \in Labels
  BY DEF Fits, Labels
<1>3. /\ at' = [at EXCEPT ![t] = p] /\ arg' = arg /\ local' = a
      /\ \E s \in {"record", "check"} : pc' = [pc EXCEPT ![t] = s]
      /\ UNCHANGED <<serial, digests, keys, queue, arg, diskVars, baseVars, past, eventVars, crashes>>
  BY DEF Connect, Goto
<1>4. ThreadTyped'
  BY <1>1, <1>2, <1>3, ThreadGoes
<1>. QED  BY <1>3, <1>4 DEF Typed, QueueTyped, NamesTyped, BasesTyped, DiskTyped, EntriesTyped,
          diskVars, baseVars, past, eventVars

LEMMA LoadTyped ==
    ASSUME Typed, NEW p \in Peer, Load(p)
    PROVE  Typed'
<1>. DEFINE n == manifest[p].lib
            c == IF cached[p][n] = None THEN files[n] ELSE cached[p][n]
<1>1. /\ told' = [told EXCEPT ![p] = FALSE] /\ loaded' = [loaded EXCEPT ![p] = manifest[p]]
      /\ cached' = [cached EXCEPT ![p][n] = IF @ = None THEN files[n] ELSE @]
      /\ UNCHANGED <<local, serial, digests, keys, queue, pc, at, arg, diskVars, asked, raced, taken,
                     eventVars, crashes>>
      /\ lost' = lost \ {p}
  BY DEF Load
<1>2. /\ cached \in [Peer -> [0..MaxSerial -> Address \cup {None}]] /\ manifest \in [Peer -> Manifest]
      /\ files \in [0..MaxSerial -> Address \cup {None}]
  BY DEF Typed, NamesTyped, BasesTyped
<1>3. n \in 0..MaxSerial
  BY <1>2 DEF Manifest
<1>4. c \in Address \cup {None} /\ cached' = [cached EXCEPT ![p] = [@ EXCEPT ![n] = c]]
  BY <1>1, <1>2, <1>3
<1>. HIDE DEF n, c
<1>5. [cached[p] EXCEPT ![n] = c] \in [0..MaxSerial -> Address \cup {None}]
  BY <1>2, <1>4
<1>6. cached' \in [Peer -> [0..MaxSerial -> Address \cup {None}]]
  BY <1>2, <1>4, <1>5
<1>7. BasesTyped'
  BY <1>1, <1>6 DEF Typed, BasesTyped, diskVars
<1>. QED  BY <1>1, <1>7 DEF Typed, ThreadTyped, Fits, QueueTyped, NamesTyped, DiskTyped, EntriesTyped,
          diskVars, eventVars

LEMMA RestartTyped ==
    ASSUME Typed, Restart
    PROVE  Typed'
<1>1. /\ UNCHANGED <<files, disk, baseVars, entries, raced, taken>>
      /\ serial' = disk.serial /\ digests' = disk.digests /\ keys' = disk.keys /\ sent' = disk.sent
      /\ local' = None /\ pending' = {} /\ queue' = [p \in Peer |-> <<>>]
      /\ pc' = [t \in All |-> IF t = Main THEN "check" ELSE "idle"]
      /\ at' = [t \in All |-> None] /\ arg' = [t \in All |-> None]
      /\ asked' = [p \in Peer |-> IF queue[p] = <<>> THEN asked[p] ELSE None]
      /\ lost' = lost \cup {p \in Peer : queue[p] # <<>>}
      /\ crashes < MaxCrashes /\ crashes' = crashes + 1
  BY DEF Restart
<1>2. PICK B \in SUBSET {p \in Peer : manifest[p].user < MaxVersion} :
         manifest' = [p \in Peer |-> IF p \in B THEN [manifest[p] EXCEPT !.user = @ + 1]
                                                ELSE manifest[p]]
  BY DEF Restart
<1>3. /\ manifest \in [Peer -> Manifest]
      /\ disk \in [serial : 0..MaxSerial, digests : [Peer -> Manifest], keys : SUBSET Peer,
                   sent : SUBSET Entry]
      /\ MaxVersion \in Nat /\ MaxCrashes \in Nat
  BY CreReloadAssumption DEF Typed, BasesTyped, DiskTyped
<1>4. manifest' \in [Peer -> Manifest]
  <2>. SUFFICES ASSUME NEW p \in Peer
                PROVE  (IF p \in B THEN [manifest[p] EXCEPT !.user = @ + 1] ELSE manifest[p]) \in Manifest
    BY <1>2
  <2>1. manifest[p] \in Manifest /\ (p \in B => manifest[p].user < MaxVersion)
    BY <1>3
  <2>. QED  BY <1>3, <2>1 DEF Manifest
<1>5. ThreadTyped'
  <2>1. pc' \in [All -> Labels] /\ \A t \in Thread : pc'[t] = "idle"
    BY <1>1, CreReloadAssumption DEF Labels, All
  <2>2. \A t \in All : pc'[t] \in {"check", "idle"}
    BY <1>1
  <2>3. at' \in [All -> Peer \cup {None}] /\ DOMAIN arg' = All
    BY <1>1
  <2>. QED  BY <2>1, <2>2, <2>3 DEF ThreadTyped, Fits
<1>6. QueueTyped' /\ NamesTyped' /\ DiskTyped'
  BY <1>1, <1>3 DEF Typed, QueueTyped, NamesTyped, DiskTyped
<1>7. BasesTyped'
  BY <1>1, <1>3, <1>4 DEF Typed, BasesTyped, baseVars
<1>8. EntriesTyped'
  BY <1>1, <1>3 DEF Typed, EntriesTyped
<1>. QED  BY <1>5, <1>6, <1>7, <1>8 DEF Typed

LEMMA NextTyped == Typed /\ [Next]_vars => Typed'
<1>. SUFFICES ASSUME Typed, [Next]_vars PROVE Typed'
  OBVIOUS
<1>1. CASE UNCHANGED vars
  BY <1>1 DEF vars, Typed, ThreadTyped, Fits, QueueTyped, NamesTyped, BasesTyped, DiskTyped,
     EntriesTyped, diskVars, baseVars, past, eventVars
<1>2. CASE Enter
  <2>1. entries' \in 0..Len(Target)
    BY <1>2, CreReloadAssumption DEF Enter, Typed, EntriesTyped
  <2>. QED  BY <1>2, <2>1 DEF Enter, Typed, ThreadTyped, Fits, QueueTyped, NamesTyped, BasesTyped,
            DiskTyped, EntriesTyped, diskVars, baseVars, past
<1>3. ASSUME NEW t \in Thread, Serve(t) PROVE Typed'
  BY <1>3, RecordTyped, PeekTyped, SendTyped, MarkReadTyped, MarkWriteTyped DEF Serve
<1>. QED  BY <1>1, <1>2, <1>3, StartupTyped, HangupTyped, ConnectTyped, LoadTyped, RestartTyped DEF Next

\* Every variable keeps its type, with any number of connection threads at a time.
THEOREM TypesHold == Spec => []TypeOK
<1>. QED  BY InitTyped, NextTyped, TypedIsTyped, PTL DEF Spec

-----------------------------------------------------------------------------
(* Names of the libraries *)

\* The serial is never behind the saved one; and what a manifest names, or a base has
\* downloaded, is written and its serial saved, unless it was raced.
SettledInv ==
    /\ disk.serial <= serial
    /\ \A t \in All : pc[t] = "write" => arg[t][2] <= serial
    /\ \A p \in Peer : manifest[p].lib \in raced \/ ~Unsettled(manifest[p].lib)
    /\ \A p \in Peer, n \in (0..MaxSerial) \ raced : cached[p][n] # None => ~Unsettled(n)

NameInv == SettledInv /\ CachedStaysTrue

LEMMA InitNamed == Init => NameInv
<1>. SUFFICES ASSUME Init PROVE NameInv
  OBVIOUS
<1>1. /\ serial = 0 /\ disk = Saved(0, digests, keys, {}) /\ MaxSerial \in Nat
      /\ \A t \in All : pc[t] # "write"
      /\ cached = [p \in Peer |-> [n \in 0..MaxSerial |-> None]]
      /\ \A p \in Peer : manifest[p].lib = 0
  BY CreReloadAssumption DEF Init
<1>2. disk.serial = 0
  BY <1>1 DEF Saved
<1>3. ~Unsettled(0)
  BY <1>1, <1>2 DEF Unsettled
<1>4. \A p \in Peer, n \in 0..MaxSerial : cached[p][n] = None
  BY <1>1
<1>. QED  BY <1>1, <1>2, <1>3, <1>4 DEF NameInv, SettledInv, CachedStaysTrue

LEMMA SerialsAre ==
    ASSUME Typed
    PROVE  /\ serial \in Nat /\ disk.serial \in Nat /\ 0..MaxSerial \subseteq Nat
           /\ \A p \in Peer : manifest[p].lib \in 0..MaxSerial
           /\ \A t \in All : pc[t] = "write" => arg[t][2] \in 0..MaxSerial
           /\ \A t \in All : pc[t] = "enter" => arg[t][1] \in 0..MaxSerial /\ arg[t][2] \subseteq Peer
<1>1. MaxSerial \in Nat /\ serial \in 0..MaxSerial /\ manifest \in [Peer -> Manifest]
  BY CreReloadAssumption DEF Typed, NamesTyped, BasesTyped
<1>2. disk.serial \in 0..MaxSerial
  BY DEF Typed, DiskTyped
<1>3. \A p \in Peer : manifest[p].lib \in 0..MaxSerial
  BY <1>1 DEF Manifest
<1>4. \A t \in All : Fits(t, pc[t], at[t], arg[t])
  BY DEF Typed, ThreadTyped
<1>. QED  BY <1>1, <1>2, <1>3, <1>4 DEF Fits

\* Steps of a thread that write no library and enter none: who is writing stays, or
\* is one with a new serial, and the serials only grow.
LEMMA StaysSettled ==
    ASSUME Typed, Typed', SettledInv, disk.serial <= disk'.serial, disk'.serial <= serial',
           \A u \in All : /\ pc'[u] = "write"
                          /\ ~(pc[u] = "write" /\ arg'[u] = arg[u])
                          => serial < arg'[u][2] /\ arg'[u][2] <= serial'
    PROVE  /\ disk'.serial <= serial'
           /\ \A u \in All : pc'[u] = "write" /\ serial <= serial' => arg'[u][2] <= serial'
           /\ \A n \in 0..MaxSerial : ~Unsettled(n) => ~(Unsettled(n))'
<1>1. /\ serial \in Nat /\ disk.serial \in Nat /\ 0..MaxSerial \subseteq Nat
      /\ \A u \in All : pc[u] = "write" => arg[u][2] \in 0..MaxSerial
  BY SerialsAre
<1>2. /\ serial' \in Nat /\ disk'.serial \in Nat
      /\ \A u \in All : pc'[u] = "write" => arg'[u][2] \in 0..MaxSerial
  BY SerialsAre, CreReloadAssumption DEF Typed, ThreadTyped, Fits, NamesTyped, DiskTyped
<1>3. ASSUME NEW n \in 0..MaxSerial, ~Unsettled(n) PROVE ~(Unsettled(n))'
  <2>1. n \in Nat /\ n <= disk.serial /\ \A u \in All : pc[u] = "write" => arg[u][2] # n
    BY <1>1, <1>3 DEF Unsettled
  <2>2. n <= serial /\ n <= disk'.serial
    BY <1>1, <1>2, <2>1 DEF SettledInv
  <2>3. ASSUME NEW u \in All, pc'[u] = "write" PROVE arg'[u][2] # n
    BY <1>1, <1>2, <2>1, <2>2, <2>3
  <2>. QED  BY <1>2, <2>2, <2>3 DEF Unsettled
<1>4. ASSUME NEW u \in All, pc'[u] = "write", serial <= serial' PROVE arg'[u][2] <= serial'
  BY <1>1, <1>2, <1>4 DEF SettledInv
<1>. QED  BY <1>3, <1>4

\* What every step but a restart does to the serials and to who writes.
LEMMA SerialsGrow ==
    ASSUME Typed, SettledInv, NEW t \in All,
           \/ Startup(t)
           \/ t \in Thread /\ (Serve(t) \/ Hangup(t) \/ \E p \in Peer, a \in Address : Connect(t, p, a))
    PROVE  /\ serial <= serial' /\ disk.serial <= disk'.serial /\ disk'.serial <= serial'
           /\ \A u \in All : /\ pc'[u] = "write"
                             /\ ~(pc[u] = "write" /\ arg'[u] = arg[u])
                             => serial < arg'[u][2] /\ arg'[u][2] <= serial'
<1>1. serial \in Nat /\ disk.serial \in Nat /\ disk.serial <= serial
  BY SerialsAre DEF SettledInv
<1>2. pc \in [All -> Labels] /\ DOMAIN arg = All
  BY DEF Typed, ThreadTyped
<1>3. CASE LibraryCheck(t)
  <2>1. disk' = disk /\ serial' \in {serial, serial + 1}
    BY <1>3 DEF LibraryCheck, diskVars
  <2>2. ASSUME NEW u \in All, pc'[u] = "write", ~(pc[u] = "write" /\ arg'[u] = arg[u])
        PROVE  serial < arg'[u][2] /\ arg'[u][2] <= serial'
    <3>1. CASE pc' = [pc EXCEPT ![t] = "write"] /\ serial' = serial + 1
               /\ arg' = [arg EXCEPT ![t] = <<Source, serial + 1>>]
      <4>1. u = t /\ arg'[u] = <<Source, serial + 1>>
        BY <1>2, <2>2, <3>1
      <4>. QED  BY <1>1, <3>1, <4>1
    <3>2. CASE arg' = arg /\ (pc' = [pc EXCEPT ![t] = "digest"] \/ pc' = [pc EXCEPT ![t] = "patch"])
      BY <1>2, <2>2, <3>2
    <3>. QED  BY <1>3, <3>1, <3>2 DEF LibraryCheck, Goto
  <2>. QED  BY <1>1, <2>1, <2>2
<1>4. CASE ~LibraryCheck(t)
  <2>1. PICK s \in Labels \ {"write"} : pc' = [pc EXCEPT ![t] = s]
    BY <1>4 DEF Startup, LibraryWrite, LibrarySave, LibraryCompare, LibraryPatch, DigestCheck,
       Serve, Record, Peek, Send, MarkRead, MarkWrite, Hangup, Connect, Goto, Labels
  <2>2. \A u \in All \ {t} : arg'[u] = arg[u]
    BY <1>2, <1>4 DEF Startup, LibraryWrite, LibrarySave, LibraryCompare, LibraryPatch, DigestCheck,
       Serve, Record, Peek, Send, MarkRead, MarkWrite, Hangup, Connect
  <2>3. serial' = serial
    BY <1>4 DEF Startup, LibraryWrite, LibrarySave, LibraryCompare, LibraryPatch, DigestCheck,
       Serve, Record, Peek, Send, MarkRead, MarkWrite, Hangup, Connect
  <2>4. disk'.serial = disk.serial \/ disk'.serial = serial
    BY <1>4 DEF Startup, LibraryWrite, LibrarySave, LibraryCompare, LibraryPatch, DigestCheck,
       Serve, Record, Peek, Send, MarkRead, MarkWrite, Hangup, Connect, diskVars, Saved
  <2>. QED  BY <1>1, <1>2, <2>1, <2>2, <2>3, <2>4
<1>. QED  BY <1>3, <1>4

LEMMA NameStays ==
    ASSUME Typed, Typed', NameInv, NEW t \in All,
           \/ Startup(t) /\ ~LibraryWrite(t) /\ ~LibraryPatch(t)
           \/ t \in Thread /\ (Serve(t) \/ Hangup(t) \/ \E p \in Peer, a \in Address : Connect(t, p, a))
    PROVE  NameInv'
<1>1. UNCHANGED <<files, manifest, cached, raced>>
  BY DEF Startup, LibraryCheck, LibrarySave, LibraryCompare, DigestCheck,
     Serve, Record, Peek, Send, MarkRead, MarkWrite, Hangup, Connect, diskVars, baseVars, past
<1>2. /\ serial <= serial' /\ disk.serial <= disk'.serial /\ disk'.serial <= serial'
      /\ \A u \in All : pc'[u] = "write" /\ ~(pc[u] = "write" /\ arg'[u] = arg[u])
                        => serial < arg'[u][2] /\ arg'[u][2] <= serial'
  BY SerialsGrow DEF NameInv
<1>3. /\ \A u \in All : pc'[u] = "write" => arg'[u][2] <= serial'
      /\ \A n \in 0..MaxSerial : ~Unsettled(n) => ~(Unsettled(n))'
  BY <1>2, StaysSettled DEF NameInv
<1>4. \A p \in Peer : manifest[p].lib \in 0..MaxSerial
  BY SerialsAre
<1>5. SettledInv'
  BY <1>1, <1>2, <1>3, <1>4 DEF NameInv, SettledInv
<1>6. CachedStaysTrue'
  BY <1>1 DEF NameInv, CachedStaysTrue
<1>. QED  BY <1>5, <1>6 DEF NameInv

\* The file that is written is one no base has, unless it was raced.
LEMMA WriteNamed ==
    ASSUME Typed, Typed', NameInv, NEW t \in All, LibraryWrite(t)
    PROVE  NameInv'
<1>1. /\ pc[t] = "write" /\ UNCHANGED <<manifest, cached, raced>>
      /\ files' = [files EXCEPT ![arg[t][2]] = arg[t][1]]
  BY DEF LibraryWrite, baseVars, past
<1>2. Startup(t)
  BY DEF Startup
<1>3. /\ serial <= serial' /\ disk.serial <= disk'.serial /\ disk'.serial <= serial'
      /\ \A u \in All : pc'[u] = "write" /\ ~(pc[u] = "write" /\ arg'[u] = arg[u])
                        => serial < arg'[u][2] /\ arg'[u][2] <= serial'
  BY <1>2, SerialsGrow DEF NameInv
<1>4. /\ \A u \in All : pc'[u] = "write" => arg'[u][2] <= serial'
      /\ \A n \in 0..MaxSerial : ~Unsettled(n) => ~(Unsettled(n))'
  BY <1>3, StaysSettled DEF NameInv
<1>5. \A p \in Peer : manifest[p].lib \in 0..MaxSerial
  BY SerialsAre
<1>6. SettledInv'
  BY <1>1, <1>3, <1>4, <1>5 DEF NameInv, SettledInv
<1>7. ASSUME NEW p \in Peer, NEW n \in (0..MaxSerial) \ raced
      PROVE  cached[p][n] \in {None, files'[n]}
  <2>1. CASE cached[p][n] = None
    BY <2>1
  <2>2. CASE cached[p][n] # None
    <3>1. ~Unsettled(n)
      BY <2>2 DEF NameInv, SettledInv
    <3>2. n # arg[t][2]
      BY <1>1, <3>1 DEF Unsettled
    <3>3. files'[n] = files[n]
      BY <1>1, <3>2 DEF Typed, NamesTyped
    <3>. QED  BY <3>3 DEF NameInv, CachedStaysTrue
  <2>. QED  BY <2>1, <2>2
<1>8. CachedStaysTrue'
  BY <1>1, <1>7 DEF CachedStaysTrue
<1>. QED  BY <1>6, <1>8 DEF NameInv

\* The name that is entered is settled, or raced from now on.
LEMMA PatchNamed ==
    ASSUME Typed, Typed', NameInv, NEW t \in All, LibraryPatch(t)
    PROVE  NameInv'
<1>. DEFINE name == arg[t][1]
            B    == arg[t][2]
<1>1. /\ manifest' = [p \in Peer |-> IF p \in B THEN [manifest[p] EXCEPT !.lib = name]
                                                ELSE manifest[p]]
      /\ raced' = raced \cup {n \in {name} : Unsettled(n)} /\ UNCHANGED <<files, cached>>
      /\ pc[t] = "enter"
  BY DEF LibraryPatch, baseVars
<1>2. Startup(t)
  BY DEF Startup
<1>3. /\ serial <= serial' /\ disk.serial <= disk'.serial /\ disk'.serial <= serial'
      /\ \A u \in All : pc'[u] = "write" /\ ~(pc[u] = "write" /\ arg'[u] = arg[u])
                        => serial < arg'[u][2] /\ arg'[u][2] <= serial'
  BY <1>2, SerialsGrow DEF NameInv
<1>4. /\ \A u \in All : pc'[u] = "write" => arg'[u][2] <= serial'
      /\ \A n \in 0..MaxSerial : ~Unsettled(n) => ~(Unsettled(n))'
  BY <1>3, StaysSettled DEF NameInv
<1>5. /\ \A p \in Peer : manifest[p].lib \in 0..MaxSerial
      /\ name \in 0..MaxSerial
  BY <1>1, SerialsAre
<1>6. manifest \in [Peer -> Manifest]
  BY DEF Typed, BasesTyped
<1>. HIDE DEF name, B
<1>7. \A p \in Peer : manifest'[p].lib \in {manifest[p].lib, name}
  BY <1>1, <1>6 DEF Manifest
<1>8. name \in raced' \/ ~Unsettled(name)
  BY <1>1
<1>9. raced \subseteq raced'
  BY <1>1
<1>10. \A p \in Peer : manifest[p].lib \in raced \/ ~Unsettled(manifest[p].lib)
  BY DEF NameInv, SettledInv
<1>11. \A p \in Peer : manifest'[p].lib \in raced' \/ ~(Unsettled(manifest[p].lib))'
  <2>. SUFFICES ASSUME NEW p \in Peer, manifest'[p].lib \notin raced'
                PROVE  ~(Unsettled(manifest[p].lib))'
    OBVIOUS
  <2>1. ~Unsettled(manifest'[p].lib) /\ manifest'[p].lib \in 0..MaxSerial
    BY <1>5, <1>7, <1>8, <1>9, <1>10
  <2>2. \A n : n = manifest'[p].lib => ~(n > disk.serial) /\ \A u \in All : ~(pc[u] = "write" /\ arg[u][2] = n)
    BY <2>1 DEF Unsettled
  <2>. QED  BY <1>4, <2>1
<1>12. SettledInv'
  BY <1>1, <1>3, <1>4, <1>9, <1>11 DEF NameInv, SettledInv
<1>13. CachedStaysTrue'
  BY <1>1, <1>9 DEF NameInv, CachedStaysTrue
<1>. QED  BY <1>12, <1>13 DEF NameInv

LEMMA LoadNamed ==
    ASSUME Typed, NameInv, NEW p \in Peer, Load(p)
    PROVE  NameInv'
<1>. DEFINE n == manifest[p].lib
<1>1. /\ UNCHANGED <<pc, arg, serial, files, manifest, disk, raced>>
      /\ cached' = [cached EXCEPT ![p][n] = IF @ = None THEN files[n] ELSE @]
  BY DEF Load, diskVars
<1>2. cached \in [Peer -> [0..MaxSerial -> Address \cup {None}]] /\ n \in 0..MaxSerial
      /\ (n \in raced \/ ~Unsettled(n))
  BY SerialsAre DEF Typed, BasesTyped, NameInv, SettledInv
<1>. HIDE DEF n
<1>3. /\ \A q \in Peer \ {p} : cached'[q] = cached[q]
      /\ \A m \in 0..MaxSerial : m # n => cached'[p][m] = cached[p][m]
      /\ cached'[p][n] = IF cached[p][n] = None THEN files[n] ELSE cached[p][n]
  BY <1>1, <1>2
<1>4. ASSUME NEW q \in Peer, NEW m \in (0..MaxSerial) \ raced
      PROVE  cached'[q][m] \in {None, files[m]} /\ (cached'[q][m] # None => ~Unsettled(m))
  <2>1. cached[q][m] \in {None, files[m]} /\ (cached[q][m] # None => ~Unsettled(m))
    BY DEF NameInv, SettledInv, CachedStaysTrue
  <2>. QED  BY <1>2, <1>3, <2>1
<1>5. SettledInv' /\ CachedStaysTrue'
  BY <1>1, <1>4 DEF NameInv, SettledInv, CachedStaysTrue, Unsettled
<1>. QED  BY <1>5 DEF NameInv

\* Who was writing is gone, and the serial is the saved one.
LEMMA RestartNamed ==
    ASSUME Typed, NameInv, Restart
    PROVE  NameInv'
<1>1. /\ serial' = disk.serial /\ UNCHANGED <<files, disk, cached, raced>>
      /\ pc' = [t \in All |-> IF t = Main THEN "check" ELSE "idle"]
  BY DEF Restart, baseVars
<1>2. PICK B \in SUBSET {p \in Peer : manifest[p].user < MaxVersion} :
         manifest' = [p \in Peer |-> IF p \in B THEN [manifest[p] EXCEPT !.user = @ + 1]
                                                ELSE manifest[p]]
  BY DEF Restart
<1>3. manifest \in [Peer -> Manifest]
  BY DEF Typed, BasesTyped
<1>4. \A p \in Peer : manifest'[p].lib = manifest[p].lib
  BY <1>2, <1>3 DEF Manifest
<1>5. \A t \in All : pc'[t] # "write"
  BY <1>1
<1>6. \A n : ~Unsettled(n) => ~(Unsettled(n))'
  BY <1>1, <1>5 DEF Unsettled
<1>7. disk.serial \in Nat
  BY SerialsAre
<1>8. SettledInv' /\ CachedStaysTrue'
  BY <1>1, <1>4, <1>5, <1>6, <1>7 DEF NameInv, SettledInv, CachedStaysTrue
<1>. QED  BY <1>8 DEF NameInv

LEMMA NameKept == Typed /\ NameInv /\ [Next]_vars => NameInv'
<1>. SUFFICES ASSUME Typed, NameInv, [Next]_vars PROVE NameInv'
  OBVIOUS
<1>0. Typed'
  BY NextTyped
<1>1. CASE UNCHANGED vars \/ Enter
  BY <1>1 DEF vars, Enter, diskVars, baseVars, past, NameInv, SettledInv, CachedStaysTrue, Unsettled
<1>2. ASSUME NEW t \in All, Startup(t) PROVE NameInv'
  BY <1>0, <1>2, NameStays, WriteNamed, PatchNamed
<1>3. ASSUME NEW t \in Thread, Serve(t) \/ Hangup(t) \/ \E p \in Peer, a \in Address : Connect(t, p, a)
      PROVE  NameInv'
  <2>1. t \in All
    BY DEF All
  <2>. QED  BY <1>0, <1>3, <2>1, NameStays
<1>. QED  BY <1>1, <1>2, <1>3, LoadNamed, RestartNamed DEF Next

\* A gwctl file that a base has downloaded never changes under its name, restarts
\* included, with any number of connection threads, unless a thread entered the name in
\* a manifest before the one that counted it up had written the file and saved the
\* serial (gigaset_gateway.py:2350-2374).
THEOREM NamesStayTrue == Spec => []CachedStaysTrue
<1>1. NameInv => CachedStaysTrue
  BY DEF NameInv
<1>. QED  BY <1>1, InitTyped, InitNamed, NextTyped, NameKept, PTL DEF Spec

-----------------------------------------------------------------------------
(* The list of a base, and what is saved *)

\* One thread at a time puts a new list in the place of the old one, which is not longer;
\* digests and keys are on disk as they are.
LockInv ==
    /\ \A t, u \in Thread : pc[t] = "remove" /\ pc[u] = "remove" => t = u
    /\ \A t \in Thread : pc[t] = "remove" => Len(arg[t][2]) <= Len(queue[at[t]])
    /\ disk.digests = digests /\ disk.keys = keys

LEMMA AskTyped ==
    ASSUME Typed
    PROVE  /\ manifest \in [Peer -> Manifest] /\ digests \in [Peer -> Manifest]
           /\ \A p \in Peer : /\ manifest[p].user \in Nat /\ manifest[p].lib \in Nat
                              /\ manifest[p] # None /\ queue[p] \in Seq(Reload)
                              /\ Len(queue[p]) \in Nat /\ digests[p].user \in Nat
                              /\ asked[p] # None => /\ asked[p] \in Manifest
                                                    /\ asked[p].user \in Nat /\ asked[p].lib \in Nat
           /\ pc \in [All -> Labels] /\ DOMAIN arg = All /\ DOMAIN queue = Peer
           /\ \A t \in All : Fits(t, pc[t], at[t], arg[t])
<1>1. /\ manifest \in [Peer -> Manifest] /\ digests \in [Peer -> Manifest]
      /\ asked \in [Peer -> Manifest \cup {None}] /\ \A p \in Peer : queue[p] \in Seq(Reload)
      /\ DOMAIN queue = Peer
  BY DEF Typed, BasesTyped, QueueTyped
<1>2. \A m \in Manifest : m.user \in Nat /\ m.lib \in Nat /\ m # None
  BY CreReloadAssumption DEF Manifest
<1>3. \A p \in Peer : Len(queue[p]) \in Nat
  BY <1>1
<1>4. pc \in [All -> Labels] /\ DOMAIN arg = All /\ \A t \in All : Fits(t, pc[t], at[t], arg[t])
  BY DEF Typed, ThreadTyped
<1>. QED  BY <1>1, <1>2, <1>3, <1>4

LEMMA InitLocked == Init => LockInv
<1>. SUFFICES ASSUME Init PROVE LockInv
  OBVIOUS
<1>1. disk = Saved(0, digests, keys, {}) /\ \A t \in Thread : pc[t] = "idle"
  BY CreReloadAssumption DEF Init, All
<1>. QED  BY <1>1 DEF LockInv, Saved

\* The list of a base that is told is longer by the order; no other list changes.
LEMMA Requested ==
    ASSUME Typed, NEW B \in SUBSET Peer, NEW what \in [Peer -> Reload], RequestReload(B, what)
    PROVE  \A p \in Peer :
             \/ /\ p \in B \cap keys /\ asked'[p] = manifest'[p]
                /\ queue'[p] = Append(queue[p], what[p]) /\ queue'[p] # <<>>
                /\ Len(queue'[p]) = Len(queue[p]) + 1 /\ queue'[p][Len(queue[p]) + 1] = what[p]
                /\ Len(queue[p]) + 1 \in DOMAIN queue'[p]
             \/ p \notin B \cap keys /\ asked'[p] = asked[p] /\ queue'[p] = queue[p]
<1>. SUFFICES ASSUME NEW p \in Peer, p \in B \cap keys
              PROVE  /\ p \in B \cap keys /\ asked'[p] = manifest'[p]
                     /\ queue'[p] = Append(queue[p], what[p]) /\ queue'[p] # <<>>
                     /\ Len(queue'[p]) = Len(queue[p]) + 1 /\ queue'[p][Len(queue[p]) + 1] = what[p]
                     /\ Len(queue[p]) + 1 \in DOMAIN queue'[p]
  BY DEF RequestReload
<1>1. queue[p] \in Seq(Reload) /\ what[p] \in Reload
  BY AskTyped
<1>2. asked'[p] = manifest'[p] /\ queue'[p] = Append(queue[p], what[p])
  BY DEF RequestReload
<1>. QED  BY <1>1, <1>2

\* A step of a thread that does not go to put a list in its place.
LEMMA StaysLocked ==
    ASSUME Typed, LockInv, NEW t \in All, NEW s \in Labels \ {"remove"}, pc' = [pc EXCEPT ![t] = s],
           \A u \in Thread \ {t} : pc[u] = "remove" =>
             arg'[u] = arg[u] /\ at'[u] = at[u] /\ Len(queue[at[u]]) <= Len(queue'[at[u]]),
           \A p \in Peer : Len(queue'[p]) \in Nat,
           disk'.digests = digests' /\ disk'.keys = keys'
    PROVE  LockInv'
<1>1. \A u \in Thread : pc'[u] = "remove" => u # t /\ pc[u] = "remove"
  BY AskTyped DEF All
<1>2. ASSUME NEW u \in Thread, pc'[u] = "remove" PROVE Len(arg'[u][2]) <= Len(queue'[at'[u]])
  <2>1. u # t /\ pc[u] = "remove" /\ u \in All
    BY <1>1, <1>2 DEF All
  <2>2. at[u] \in Peer /\ arg[u][2] \in Seq(Reload)
    BY <2>1, AskTyped DEF Fits
  <2>3. Len(arg[u][2]) <= Len(queue[at[u]]) /\ Len(arg[u][2]) \in Nat /\ Len(queue[at[u]]) \in Nat
    BY <2>1, <2>2, AskTyped DEF LockInv
  <2>4. arg'[u] = arg[u] /\ at'[u] = at[u] /\ Len(queue[at[u]]) <= Len(queue'[at[u]])
        /\ Len(queue'[at[u]]) \in Nat
    BY <2>1, <2>2
  <2>. QED  BY <2>3, <2>4
<1>3. \A u, v \in Thread : pc'[u] = "remove" /\ pc'[v] = "remove" => u = v
  BY <1>1 DEF LockInv
<1>. QED  BY <1>2, <1>3 DEF LockInv

LEMMA OrdersLocked ==
    ASSUME Typed, LockInv, NEW t \in All, LibraryPatch(t) \/ DigestCheck(t)
    PROVE  LockInv'
<1>1. PICK B \in SUBSET Peer, what \in [Peer -> Reload] : RequestReload(B, what)
  <2>1. CASE LibraryPatch(t)
    <3>1. arg[t][2] \in SUBSET Peer
      BY <2>1, AskTyped DEF LibraryPatch, Fits
    <3>2. [p \in Peer |-> <<"control", 0, serial>>] \in [Peer -> Reload]
      BY CreReloadAssumption DEF Reload, Typed, NamesTyped
    <3>. QED  BY <2>1, <3>1, <3>2 DEF LibraryPatch
  <2>2. CASE DigestCheck(t)
    <3>1. [p \in Peer |-> <<"manifest", manifest[p].user, manifest[p].lib>>] \in [Peer -> Reload]
      BY AskTyped DEF Reload, Manifest
    <3>2. Unqueued({p \in Peer : digests[p] # manifest[p]}) \in SUBSET Peer
      BY DEF Unqueued
    <3>. QED  BY <2>2, <3>1, <3>2 DEF DigestCheck
  <2>. QED  BY <2>1, <2>2
<1>2. ASSUME NEW p \in Peer
      PROVE  Len(queue[p]) \in Nat /\ Len(queue[p]) <= Len(queue'[p]) /\ Len(queue'[p]) \in Nat
  <2>1. Len(queue[p]) \in Nat
    BY AskTyped
  <2>2. Len(queue'[p]) = Len(queue[p]) + 1 \/ queue'[p] = queue[p]
    BY <1>1, Requested
  <2>. QED  BY <2>1, <2>2
<1>3. disk'.digests = digests' /\ disk'.keys = keys'
  <2>1. CASE LibraryPatch(t)
    BY <2>1 DEF LibraryPatch, LockInv
  <2>2. CASE DigestCheck(t)
    <3>1. CASE \A p \in Peer : digests[p] = manifest[p]
      <4>1. digests = manifest
        BY <3>1, AskTyped
      <4>2. {p \in Peer : digests[p] # manifest[p]} = {}
        BY <3>1
      <4>. QED  BY <2>2, <4>1, <4>2 DEF DigestCheck, LockInv
    <3>2. CASE ~ \A p \in Peer : digests[p] = manifest[p]
      <4>1. {p \in Peer : digests[p] # manifest[p]} # {}
        BY <3>2
      <4>. QED  BY <2>2, <4>1 DEF DigestCheck, Saved
    <3>. QED  BY <3>1, <3>2
  <2>. QED  BY <2>1, <2>2
<1>4. PICK s \in Labels \ {"remove"} : pc' = [pc EXCEPT ![t] = s]
  BY DEF LibraryPatch, DigestCheck, Goto, Labels
<1>5. at' = at /\ \A u \in All \ {t} : arg'[u] = arg[u]
  BY AskTyped DEF LibraryPatch, DigestCheck
<1>6. \A u \in Thread : u \in All /\ (pc[u] = "remove" => at[u] \in Peer)
  BY AskTyped DEF Fits, All
<1>7. \A u \in Thread \ {t} : pc[u] = "remove" =>
        arg'[u] = arg[u] /\ at'[u] = at[u] /\ Len(queue[at[u]]) <= Len(queue'[at[u]])
  BY <1>2, <1>5, <1>6
<1>. QED  BY <1>2, <1>3, <1>4, <1>7, StaysLocked

\* The steps that leave the lists alone and take no lock.
LEMMA QuietLocked ==
    ASSUME Typed, LockInv, NEW t \in All,
           \/ LibraryCheck(t) \/ LibraryWrite(t) \/ LibrarySave(t) \/ LibraryCompare(t)
           \/ t \in Thread /\ \/ Record(t) \/ Peek(t) \/ Send(t) \/ Hangup(t)
                              \/ \E p \in Peer, a \in Address : Connect(t, p, a)
    PROVE  LockInv'
<1>1. queue' = queue /\ digests' = digests
  BY DEF LibraryCheck, LibraryWrite, LibrarySave, LibraryCompare, Record, Peek, Send, Hangup, Connect
<1>2. \A u \in All \ {t} : arg'[u] = arg[u] /\ at'[u] = at[u]
  BY AskTyped DEF LibraryCheck, LibraryWrite, LibrarySave, LibraryCompare, Record, Peek, Send, Hangup,
     Connect, Typed, ThreadTyped
<1>3. PICK s \in Labels \ {"remove"} : pc' = [pc EXCEPT ![t] = s]
  BY DEF LibraryCheck, LibraryWrite, LibrarySave, LibraryCompare, Record, Peek, Send, Hangup, Connect,
     Goto, Labels
<1>4. disk'.digests = digests' /\ disk'.keys = keys'
  <2>1. CASE Record(t)
    <3>1. at[t] \in keys => keys' = keys
      BY <2>1 DEF Record
    <3>. QED  BY <1>1, <2>1, <3>1 DEF Record, LockInv, Saved
  <2>2. CASE ~Record(t)
    BY <1>1, <2>2 DEF LibraryCheck, LibraryWrite, LibrarySave, LibraryCompare, Peek, Send, Hangup, Connect,
       diskVars, Saved, LockInv
  <2>. QED  BY <2>1, <2>2
<1>5. \A u \in Thread : u \in All /\ (pc[u] = "remove" => at[u] \in Peer)
  BY AskTyped DEF Fits, All
<1>6. \A p \in Peer : Len(queue'[p]) \in Nat
  BY <1>1, AskTyped
<1>7. \A u \in Thread \ {t} : pc[u] = "remove" =>
        arg'[u] = arg[u] /\ at'[u] = at[u] /\ Len(queue[at[u]]) <= Len(queue'[at[u]])
  BY <1>1, <1>2, <1>5, <1>6
<1>. QED  BY <1>3, <1>4, <1>6, <1>7, StaysLocked

LEMMA MarksLocked ==
    ASSUME Typed, LockInv, NEW t \in Thread, MarkRead(t) \/ MarkWrite(t)
    PROVE  /\ LockInv'
           /\ \A p \in Peer : Len(queue'[p]) <= Len(queue[p])
<1>0. t \in All /\ at[t] \in Peer /\ \A p \in Peer : Len(queue[p]) \in Nat
  BY AskTyped DEF MarkRead, MarkWrite, Fits, All
<1>1. CASE MarkRead(t)
  <2>1. /\ pc' = [pc EXCEPT ![t] = "remove"] /\ \A u \in All : pc[u] # "remove"
        /\ arg'[t][2] = Without(queue[at[t]], arg[t])
        /\ UNCHANGED <<queue, at, disk, digests, keys>>
    BY <1>0, <1>1, AskTyped DEF MarkRead, Goto, Free, diskVars
  <2>2. \A u \in Thread : pc'[u] = "remove" <=> u = t
    BY <1>0, <2>1, AskTyped DEF All
  <2>3. Len(arg'[t][2]) <= Len(queue[at[t]])
    BY <1>0, <2>1, AskTyped, WithoutOf
  <2>4. \A u \in Thread : pc'[u] = "remove" => Len(arg'[u][2]) <= Len(queue'[at'[u]])
    BY <2>1, <2>2, <2>3
  <2>. QED  BY <1>0, <2>1, <2>2, <2>4 DEF LockInv
<1>2. CASE MarkWrite(t)
  <2>1. /\ pc[t] = "remove" /\ pc' = [pc EXCEPT ![t] = "wait"]
        /\ queue' = [queue EXCEPT ![at[t]] = arg[t][2]]
        /\ UNCHANGED <<digests, keys>> /\ disk'.digests = digests /\ disk'.keys = keys
    BY <1>2 DEF MarkWrite, Goto, Saved
  <2>2. \A u \in Thread : pc'[u] # "remove"
    BY <1>0, <2>1, AskTyped DEF LockInv, All
  <2>3. Len(arg[t][2]) <= Len(queue[at[t]])
    BY <2>1 DEF LockInv
  <2>4. queue'[at[t]] = arg[t][2] /\ \A p \in Peer \ {at[t]} : queue'[p] = queue[p]
    BY <1>0, <2>1, AskTyped
  <2>. QED  BY <1>0, <2>1, <2>2, <2>3, <2>4 DEF LockInv
<1>. QED  BY <1>1, <1>2

LEMMA RestartLocked ==
    ASSUME Typed, Restart
    PROVE  LockInv'
<1>1. /\ UNCHANGED disk /\ digests' = disk.digests /\ keys' = disk.keys
      /\ pc' = [t \in All |-> IF t = Main THEN "check" ELSE "idle"]
  BY DEF Restart
<1>2. \A t \in Thread : pc'[t] # "remove"
  BY <1>1 DEF All
<1>. QED  BY <1>1, <1>2 DEF LockInv

LEMMA LockKept == Typed /\ LockInv /\ [Next]_vars => LockInv'
<1>. SUFFICES ASSUME Typed, LockInv, [Next]_vars PROVE LockInv'
  OBVIOUS
<1>1. CASE UNCHANGED vars \/ Enter \/ \E p \in Peer : Load(p)
  BY <1>1 DEF vars, Enter, Load, diskVars, LockInv
<1>2. ASSUME NEW t \in All, Startup(t) PROVE LockInv'
  BY <1>2, QuietLocked, OrdersLocked DEF Startup
<1>3. ASSUME NEW t \in Thread, Serve(t) \/ Hangup(t) \/ \E p \in Peer, a \in Address : Connect(t, p, a)
      PROVE  LockInv'
  <2>1. t \in All
    BY DEF All
  <2>. QED  BY <1>3, <2>1, QuietLocked, MarksLocked DEF Serve
<1>. QED  BY <1>1, <1>2, <1>3, RestartLocked DEF Next

-----------------------------------------------------------------------------
(* Requests to reload *)

\* No library has the serial 0.
Counted ==
    /\ files[0] = None
    /\ \A t \in All : /\ pc[t] = "write" => arg[t][2] >= 1
                      /\ pc[t] \in {"write", "save", "patch"} => serial >= 1
                      /\ pc[t] = "enter" => arg[t][1] >= 1

\* The manifest that was asked for last is not newer, and the same or older by the user's
\* part or its library; and a base not heard of was never asked.
Behind(p) ==
    asked[p] # None =>
      /\ asked[p].user <= manifest[p].user
      /\ asked[p].user < manifest[p].user \/ asked[p].lib \in {0, manifest[p].lib}
      /\ p \notin keys => asked[p].lib = 0

\* Nobody enters a library again, and nobody will ask again for a digest that is behind.
Reasons(p) ==
    /\ \A t \in All : pc[t] = "enter" /\ p \in arg[t][2] /\ manifest[p].lib = arg[t][1] => p \in taken
    /\ p \notin taken /\ queue[p] = <<>> /\ digests[p] # manifest[p] => asked[p] # manifest[p]

AskInv == Counted /\ \A p \in Peer : Behind(p) /\ Reasons(p)

LEMMA InitAsked == Init => AskInv
<1>. SUFFICES ASSUME Init PROVE AskInv
  OBVIOUS
<1>1. /\ asked = [p \in Peer |-> [user |-> 0, lib |-> 0]] /\ digests = asked
      /\ manifest \in [Peer -> {[user |-> v, lib |-> 0] : v \in 0..1}]
      /\ \A t \in All : pc[t] \in {"check", "idle"}
      /\ files = [n \in 0..MaxSerial |-> None] /\ MaxSerial \in Nat
  BY CreReloadAssumption DEF Init
<1>2. \A p \in Peer : manifest[p].user \in Nat /\ manifest[p].lib = 0
  BY <1>1
<1>3. Counted
  BY <1>1 DEF Counted
<1>4. ASSUME NEW p \in Peer PROVE Behind(p) /\ Reasons(p)
  <2>1. asked[p].user = 0 /\ asked[p].lib = 0 /\ digests[p] = asked[p]
    BY <1>1
  <2>2. Behind(p)
    BY <1>2, <2>1 DEF Behind
  <2>3. Reasons(p)
    BY <1>1, <2>1 DEF Reasons
  <2>. QED  BY <2>2, <2>3
<1>. QED  BY <1>3, <1>4 DEF AskInv

LEMMA CountedKept ==
    ASSUME Typed, Counted, NEW t \in All,
           \/ Startup(t)
           \/ t \in Thread /\ (Serve(t) \/ Hangup(t) \/ \E p \in Peer, a \in Address : Connect(t, p, a))
    PROVE  Counted'
<1>0. /\ serial \in Nat /\ serial' \in Nat /\ pc \in [All -> Labels] /\ DOMAIN arg = All
      /\ files \in [0..MaxSerial -> Address \cup {None}]
      /\ (pc[t] = "write" => arg[t][2] \in Nat)
  <2>1. Typed'
    <3>1. Next
      BY DEF Next
    <3>. QED  BY <3>1, NextTyped
  <2>2. serial' \in Nat
    BY <2>1, CreReloadAssumption DEF Typed, NamesTyped
  <2>. QED  BY <2>2, SerialsAre, AskTyped DEF Typed, NamesTyped
<1>1. CASE LibraryCheck(t)
  <2>1. files' = files /\ serial' \in {serial, serial + 1}
    BY <1>1 DEF LibraryCheck, diskVars
  <2>2. CASE arg' = arg /\ pc' = [pc EXCEPT ![t] = "digest"]
    BY <1>0, <2>1, <2>2 DEF Counted
  <2>3. CASE /\ arg' = arg /\ pc' = [pc EXCEPT ![t] = "patch"] /\ serial' = serial
             /\ Source # None /\ files[serial] = Source
    <3>1. serial >= 1
      BY <1>0, <2>3 DEF Counted
    <3>. QED  BY <1>0, <2>1, <2>3, <3>1 DEF Counted
  <2>4. CASE /\ arg' = [arg EXCEPT ![t] = <<Source, serial + 1>>] /\ serial' = serial + 1
             /\ pc' = [pc EXCEPT ![t] = "write"]
    <3>1. arg'[t][2] >= 1 /\ serial' >= 1
      BY <1>0, <2>4
    <3>. QED  BY <1>0, <2>1, <2>4, <3>1 DEF Counted
  <2>. QED  BY <1>1, <2>2, <2>3, <2>4 DEF LibraryCheck, Goto
<1>2. CASE LibraryWrite(t)
  <2>1. /\ pc[t] = "write" /\ files' = [files EXCEPT ![arg[t][2]] = arg[t][1]]
        /\ arg' = [arg EXCEPT ![t] = None] /\ pc' = [pc EXCEPT ![t] = "save"] /\ serial' = serial
    BY <1>2 DEF LibraryWrite, Goto
  <2>2. arg[t][2] >= 1 /\ serial >= 1
    BY <2>1 DEF Counted
  <2>3. files'[0] = None
    BY <1>0, <2>1, <2>2, CreReloadAssumption DEF Counted
  <2>. QED  BY <1>0, <2>1, <2>2, <2>3 DEF Counted
<1>3. CASE LibraryCompare(t)
  <2>1. /\ arg' = [arg EXCEPT ![t] = <<serial, {p \in Peer : manifest[p].lib # serial}>>]
        /\ pc[t] = "patch" /\ pc' = [pc EXCEPT ![t] = "enter"] /\ UNCHANGED <<files, serial>>
    BY <1>3 DEF LibraryCompare, Goto, diskVars
  <2>2. serial >= 1 /\ arg'[t][1] = serial
    BY <1>0, <2>1 DEF Counted
  <2>. QED  BY <1>0, <2>1, <2>2 DEF Counted
<1>4. CASE LibrarySave(t)
  <2>1. /\ pc[t] = "save" /\ pc' = [pc EXCEPT ![t] = "patch"] /\ UNCHANGED <<files, serial, arg>>
    BY <1>4 DEF LibrarySave, Goto
  <2>2. serial >= 1
    BY <2>1 DEF Counted
  <2>. QED  BY <1>0, <2>1, <2>2 DEF Counted
<1>5. CASE ~(LibraryCheck(t) \/ LibraryWrite(t) \/ LibrarySave(t) \/ LibraryCompare(t))
  <2>1. UNCHANGED <<files, serial>>
    BY <1>5 DEF Startup, LibraryPatch, DigestCheck, Serve, Record, Peek, Send, MarkRead, MarkWrite,
       Hangup, Connect, diskVars
  <2>2. PICK s \in Labels \ {"write", "save", "patch", "enter"} : pc' = [pc EXCEPT ![t] = s]
    BY <1>5 DEF Startup, LibraryPatch, DigestCheck, Serve, Record, Peek, Send, MarkRead, MarkWrite,
       Hangup, Connect, Goto, Labels
  <2>3. \A u \in All \ {t} : arg'[u] = arg[u]
    BY <1>0, <1>5 DEF Startup, LibraryPatch, DigestCheck, Serve, Record, Peek, Send, MarkRead,
       MarkWrite, Hangup, Connect
  <2>. QED  BY <1>0, <2>1, <2>2, <2>3 DEF Counted
<1>. QED  BY <1>1, <1>2, <1>3, <1>4, <1>5

\* Steps that ask for nothing, take nothing away and enter nothing.
LEMMA QuietAsked ==
    ASSUME Typed, AskInv, NEW t \in All,
           \/ LibraryCheck(t) \/ LibraryWrite(t) \/ LibrarySave(t) \/ LibraryCompare(t)
           \/ t \in Thread /\ \/ Record(t) \/ Peek(t) \/ Send(t) \/ MarkRead(t) \/ Hangup(t)
                              \/ \E p \in Peer, a \in Address : Connect(t, p, a)
    PROVE  \A p \in Peer : Behind(p)' /\ Reasons(p)' /\ queue'[p] = queue[p]
<1>1. UNCHANGED <<queue, manifest, digests, asked, taken>>
  BY DEF LibraryCheck, LibraryWrite, LibrarySave, LibraryCompare, Record, Peek, Send, MarkRead, Hangup,
     Connect, diskVars, past
<1>2. keys \subseteq keys'
  BY DEF LibraryCheck, LibraryWrite, LibrarySave, LibraryCompare, Record, Peek, Send, MarkRead, Hangup,
     Connect
<1>3. ASSUME NEW u \in All, pc'[u] = "enter"
      PROVE  \/ pc[u] = "enter" /\ arg'[u] = arg[u]
             \/ arg'[u] = <<serial, {p \in Peer : manifest[p].lib # serial}>>
  <2>1. CASE LibraryCompare(t)
    BY <1>3, <2>1, AskTyped DEF LibraryCompare, Goto
  <2>2. CASE ~LibraryCompare(t)
    <3>1. PICK s \in Labels \ {"enter"} : pc' = [pc EXCEPT ![t] = s]
      BY <2>2 DEF LibraryCheck, LibraryWrite, LibrarySave, Record, Peek, Send, MarkRead, Hangup,
         Connect, Goto, Labels
    <3>2. u # t /\ pc[u] = "enter"
      BY <1>3, <3>1, AskTyped
    <3>3. arg'[u] = arg[u]
      BY <2>2, <3>2, AskTyped DEF LibraryCheck, LibraryWrite, LibrarySave, Record, Peek, Send, MarkRead,
         Hangup, Connect
    <3>. QED  BY <3>2, <3>3
  <2>. QED  BY <2>1, <2>2
<1>4. ASSUME NEW p \in Peer PROVE Behind(p)' /\ Reasons(p)' /\ queue'[p] = queue[p]
  <2>1. Behind(p) /\ Reasons(p)
    BY DEF AskInv
  <2>2. Behind(p)'
    BY <1>1, <1>2, <2>1 DEF Behind
  <2>3. ASSUME NEW u \in All, pc'[u] = "enter", p \in arg'[u][2], manifest'[p].lib = arg'[u][1]
        PROVE  p \in taken'
    <3>1. CASE pc[u] = "enter" /\ arg'[u] = arg[u]
      BY <1>1, <2>1, <2>3, <3>1 DEF Reasons
    <3>2. CASE arg'[u] = <<serial, {q \in Peer : manifest[q].lib # serial}>>
      BY <1>1, <2>3, <3>2
    <3>. QED  BY <1>3, <2>3, <3>1, <3>2
  <2>4. Reasons(p)'
    BY <1>1, <2>1, <2>3 DEF Reasons
  <2>. QED  BY <1>1, <2>2, <2>4
<1>. QED  BY <1>4

\* A library is entered: who is about to enter it as well is on record.
LEMMA PatchAsked ==
    ASSUME Typed, AskInv, NEW t \in All, LibraryPatch(t), NEW p \in Peer
    PROVE  /\ Behind(p)' /\ Reasons(p)'
           /\ p \notin taken /\ Len(queue'[p]) > Len(queue[p]) => manifest'[p] # asked[p]
<1>. DEFINE name  == arg[t][1]
            B     == arg[t][2]
            order == [q \in Peer |-> <<"control", 0, serial>>]
<1>1. /\ pc[t] = "enter" /\ pc' = [pc EXCEPT ![t] = "digest"] /\ arg' = [arg EXCEPT ![t] = None]
      /\ manifest' = [q \in Peer |-> IF q \in B THEN [manifest[q] EXCEPT !.lib = name]
                                                ELSE manifest[q]]
      /\ RequestReload(B, order) /\ UNCHANGED <<digests, keys>>
      /\ taken' = taken \cup {q \in B : \E u \in Entering(q) \ {t} : arg[u][1] = name}
  BY DEF LibraryPatch, Goto
<1>2. /\ B \in SUBSET Peer /\ name \in Nat /\ name >= 1
      /\ manifest[p].user \in Nat /\ manifest[p].lib \in Nat /\ Len(queue[p]) \in Nat
      /\ manifest[p] \in Manifest
      /\ asked[p] # None => asked[p] \in Manifest /\ asked[p].user \in Nat /\ asked[p].lib \in Nat
  <2>1. 0..MaxSerial \subseteq Nat
    BY CreReloadAssumption
  <2>2. name >= 1
    BY <1>1 DEF AskInv, Counted
  <2>. QED  BY <1>1, <2>1, <2>2, AskTyped DEF Fits
<1>3. order \in [Peer -> Reload]
  BY CreReloadAssumption DEF Reload, Typed, NamesTyped
<1>4. \/ p \in B \cap keys /\ asked'[p] = manifest'[p] /\ queue'[p] # <<>>
      \/ p \notin B \cap keys /\ asked'[p] = asked[p] /\ queue'[p] = queue[p]
  BY <1>1, <1>2, <1>3, Requested
<1>5. /\ p \in B => manifest'[p] = [manifest[p] EXCEPT !.lib = name]
      /\ p \notin B => manifest'[p] = manifest[p]
      /\ manifest'[p] # None
  <2>1. Typed'
    <3>1. Startup(t)
      BY DEF Startup
    <3>. QED  BY <3>1, StartupTyped
  <2>2. manifest' \in [Peer -> Manifest]
    BY <2>1 DEF Typed, BasesTyped
  <2>3. manifest'[p] # None
    BY <2>2, CreReloadAssumption DEF Manifest
  <2>. QED  BY <1>1, <2>3
<1>6. /\ p \in B => manifest'[p].lib = name
      /\ manifest'[p].user = manifest[p].user
  BY <1>2, <1>5 DEF Manifest
<1>7. ASSUME NEW u \in All, pc'[u] = "enter" PROVE u # t /\ pc[u] = "enter" /\ arg'[u] = arg[u]
  BY <1>1, <1>7, AskTyped
<1>8. Behind(p) /\ Reasons(p)
  BY DEF AskInv
<1>. HIDE DEF name, B, order
<1>9. Behind(p)'
  <2>1. CASE p \in B \cap keys
    <3>1. asked'[p] = manifest'[p] /\ manifest'[p].user \in Nat /\ p \in keys'
      BY <1>1, <1>2, <1>4, <1>6, <2>1
    <3>. QED  BY <3>1 DEF Behind
  <2>2. CASE p \notin B
    BY <1>1, <1>4, <1>5, <1>8, <2>2 DEF Behind
  <2>3. CASE p \notin keys
    BY <1>1, <1>2, <1>4, <1>6, <1>8, <2>3 DEF Behind
  <2>. QED  BY <2>1, <2>2, <2>3
<1>10. ASSUME NEW u \in All, pc'[u] = "enter", p \in arg'[u][2], manifest'[p].lib = arg'[u][1]
       PROVE  p \in taken'
  <2>1. u # t /\ pc[u] = "enter" /\ p \in arg[u][2] /\ manifest'[p].lib = arg[u][1]
    BY <1>7, <1>10
  <2>2. CASE p \in B
    <3>1. u \in Entering(p) \ {t} /\ arg[u][1] = name
      BY <1>6, <2>1, <2>2 DEF Entering
    <3>. QED  BY <1>1, <2>2, <3>1
  <2>3. CASE p \notin B
    BY <1>1, <1>5, <1>8, <2>1, <2>3 DEF Reasons
  <2>. QED  BY <2>2, <2>3
<1>11. ASSUME p \notin taken', queue'[p] = <<>>, digests'[p] # manifest'[p], asked'[p] = manifest'[p]
       PROVE  FALSE
  <2>1. p \notin B \cap keys /\ asked[p] = manifest'[p] /\ queue[p] = <<>> /\ p \notin taken
    BY <1>1, <1>4, <1>11
  <2>2. CASE p \notin B
    BY <1>1, <1>5, <1>8, <1>11, <2>1, <2>2 DEF Reasons
  <2>3. CASE p \in B
    <3>1. asked[p] # None /\ p \notin keys
      BY <1>5, <2>1, <2>3
    <3>2. asked[p].lib = 0 /\ manifest'[p].lib >= 1
      BY <1>2, <1>6, <1>8, <2>3, <3>1 DEF Behind
    <3>. QED  BY <2>1, <3>2
  <2>. QED  BY <2>2, <2>3
<1>12. ASSUME p \notin taken, Len(queue'[p]) > Len(queue[p]), manifest'[p] = asked[p]
       PROVE  FALSE
  <2>1. p \in B
    BY <1>2, <1>4, <1>12
  <2>2. manifest[p].lib # name
    BY <1>1, <1>8, <1>12, <2>1 DEF Reasons, B, name
  <2>3. asked[p].lib = name /\ asked[p].user = manifest[p].user /\ asked[p] # None
    BY <1>5, <1>6, <1>12, <2>1
  <2>. QED  BY <1>2, <1>8, <2>2, <2>3 DEF Behind
<1>. QED  BY <1>9, <1>10, <1>11, <1>12 DEF Reasons

LEMMA DigestAsked ==
    ASSUME Typed, AskInv, NEW t \in All, DigestCheck(t), NEW p \in Peer
    PROVE  /\ Behind(p)' /\ Reasons(p)'
           /\ p \notin taken /\ Len(queue'[p]) > Len(queue[p]) => manifest'[p] # asked[p]
<1>. DEFINE B     == Unqueued({q \in Peer : digests[q] # manifest[q]})
            order == [q \in Peer |-> <<"manifest", manifest[q].user, manifest[q].lib>>]
<1>1. /\ RequestReload(B, order) /\ UNCHANGED <<manifest, keys, arg>> /\ digests' = manifest
      /\ \E s \in Labels \ {"enter"} : pc' = [pc EXCEPT ![t] = s]
      /\ taken' = {q \in taken : Entering(q) # {}}
  BY DEF DigestCheck, Goto, Labels
<1>2. /\ B \in SUBSET Peer /\ (p \in B => digests[p] # manifest[p] /\ queue[p] = <<>>)
      /\ Len(queue[p]) \in Nat /\ manifest[p].user \in Nat
  BY AskTyped DEF Unqueued
<1>3. order \in [Peer -> Reload]
  BY AskTyped DEF Reload, Manifest
<1>4. \/ p \in B \cap keys /\ asked'[p] = manifest'[p]
      \/ p \notin B \cap keys /\ asked'[p] = asked[p] /\ queue'[p] = queue[p]
  BY <1>1, <1>2, <1>3, Requested
<1>5. Behind(p) /\ Reasons(p)
  BY DEF AskInv
<1>. HIDE DEF B, order
<1>6. Behind(p)'
  BY <1>1, <1>2, <1>4, <1>5 DEF Behind
<1>7. ASSUME NEW u \in All, pc'[u] = "enter", p \in arg'[u][2], manifest'[p].lib = arg'[u][1]
      PROVE  p \in taken'
  <2>1. pc[u] = "enter" /\ arg'[u] = arg[u] /\ manifest'[p] = manifest[p]
    BY <1>1, <1>7, AskTyped
  <2>2. p \in taken /\ u \in Entering(p)
    BY <1>5, <1>7, <2>1 DEF Reasons, Entering
  <2>. QED  BY <1>1, <2>2
<1>8. Reasons(p)'
  BY <1>1, <1>7 DEF Reasons
<1>9. ASSUME p \notin taken, Len(queue'[p]) > Len(queue[p]) PROVE manifest'[p] # asked[p]
  BY <1>1, <1>2, <1>4, <1>5, <1>9 DEF Reasons
<1>. QED  BY <1>6, <1>8, <1>9

LEMMA MarkAsked ==
    ASSUME Typed, LockInv, AskInv, NEW t \in Thread, MarkWrite(t), NEW p \in Peer
    PROVE  Behind(p)' /\ Reasons(p)'
<1>1. /\ UNCHANGED <<manifest, digests, keys, asked>> /\ pc' = [pc EXCEPT ![t] = "wait"]
      /\ arg' = [arg EXCEPT ![t] = None] /\ queue' = [queue EXCEPT ![at[t]] = arg[t][2]]
      /\ taken' = taken \cup {q \in {at[t]} : digests[q] # manifest[q]}
  BY DEF MarkWrite, Goto
<1>2. Behind(p) /\ Reasons(p)
  BY DEF AskInv
<1>3. \A u \in All : pc'[u] = "enter" => pc[u] = "enter" /\ arg'[u] = arg[u]
  BY <1>1, AskTyped DEF All
<1>4. p = at[t] \/ queue'[p] = queue[p]
  BY <1>1, AskTyped
<1>. QED  BY <1>1, <1>2, <1>3, <1>4 DEF Behind, Reasons

LEMMA RestartAsked ==
    ASSUME Typed, LockInv, AskInv, Restart, NEW p \in Peer
    PROVE  Behind(p)' /\ Reasons(p)'
<1>1. /\ digests' = disk.digests /\ keys' = disk.keys /\ queue' = [q \in Peer |-> <<>>]
      /\ pc' = [t \in All |-> IF t = Main THEN "check" ELSE "idle"] /\ taken' = taken
      /\ asked' = [q \in Peer |-> IF queue[q] = <<>> THEN asked[q] ELSE None]
  BY DEF Restart
<1>2. PICK B \in SUBSET {q \in Peer : manifest[q].user < MaxVersion} :
         manifest' = [q \in Peer |-> IF q \in B THEN [manifest[q] EXCEPT !.user = @ + 1]
                                                ELSE manifest[q]]
  BY DEF Restart
<1>3. /\ manifest[p].user \in Nat /\ manifest[p].lib \in Nat /\ manifest[p] \in Manifest
      /\ (asked[p] # None => asked[p].user \in Nat /\ asked[p].lib \in Nat)
  BY AskTyped
<1>4. /\ manifest'[p] = manifest[p] \/ manifest'[p].user = manifest[p].user + 1
      /\ manifest'[p].lib = manifest[p].lib /\ manifest[p].user <= manifest'[p].user
  BY <1>2, <1>3 DEF Manifest
<1>5. digests' = digests /\ keys' = keys
  BY <1>1 DEF LockInv
<1>6. Behind(p) /\ Reasons(p)
  BY DEF AskInv
<1>7. asked'[p] = None \/ (asked'[p] = asked[p] /\ queue[p] = <<>>)
  BY <1>1
<1>8. Behind(p)'
  BY <1>3, <1>4, <1>5, <1>6, <1>7 DEF Behind
<1>9. \A t \in All : pc'[t] # "enter"
  BY <1>1
<1>10. ASSUME p \notin taken', digests'[p] # manifest'[p] PROVE asked'[p] # manifest'[p]
  <2>1. manifest'[p] # None
    <3>1. Typed'
      BY RestartTyped
    <3>2. manifest' \in [Peer -> Manifest]
      BY <3>1 DEF Typed, BasesTyped
    <3>. QED  BY <3>2, CreReloadAssumption DEF Manifest
  <2>2. CASE asked'[p] = None
    BY <2>1, <2>2
  <2>3. CASE asked'[p] = asked[p] /\ queue[p] = <<>> /\ asked[p] # None
    <3>1. CASE manifest'[p] = manifest[p]
      BY <1>1, <1>5, <1>6, <1>10, <2>3, <3>1 DEF Reasons
    <3>2. CASE manifest'[p].user = manifest[p].user + 1
      BY <1>3, <1>6, <2>3, <3>2 DEF Behind
    <3>. QED  BY <1>4, <3>1, <3>2
  <2>. QED  BY <1>7, <2>2, <2>3
<1>. QED  BY <1>8, <1>9, <1>10 DEF Reasons

\* What a step makes of AskInv, and of the lists.
LEMMA StepAsked ==
    ASSUME Typed, LockInv, AskInv, [Next]_vars
    PROVE  /\ AskInv'
           /\ \A p \in Peer \ taken : Len(queue'[p]) > Len(queue[p]) => manifest'[p] # asked[p]
<1>. DEFINE Kept  == \A p \in Peer : Behind(p)' /\ Reasons(p)'
            Grown == \A p \in Peer \ taken : Len(queue'[p]) > Len(queue[p]) => manifest'[p] # asked[p]
<1>0. \A p \in Peer : Len(queue[p]) \in Nat /\ Len(queue'[p]) \in Nat
  <2>1. Typed'
    BY NextTyped
  <2>2. \A p \in Peer : Len(queue'[p]) \in Nat
    BY <2>1 DEF Typed, QueueTyped
  <2>. QED  BY <2>2, AskTyped
<1>1. CASE UNCHANGED vars \/ Enter \/ \E p \in Peer : Load(p)
  <2>1. UNCHANGED <<queue, pc, arg, files, serial, manifest, digests, keys, asked, taken>>
    BY <1>1 DEF vars, Enter, Load, diskVars, past
  <2>. QED  BY <1>0, <2>1 DEF AskInv, Counted, Behind, Reasons
<1>2. ASSUME NEW t \in All, Startup(t) PROVE AskInv' /\ Grown
  <2>1. Counted'
    BY <1>2, CountedKept DEF AskInv
  <2>2. CASE LibraryPatch(t) \/ DigestCheck(t)
    <3>1. Kept /\ Grown
      BY <2>2, PatchAsked, DigestAsked
    <3>. QED  BY <2>1, <3>1 DEF AskInv
  <2>3. CASE ~(LibraryPatch(t) \/ DigestCheck(t))
    <3>1. Kept /\ \A p \in Peer : queue'[p] = queue[p]
      BY <1>2, <2>3, QuietAsked DEF Startup
    <3>. QED  BY <1>0, <2>1, <3>1 DEF AskInv
  <2>. QED  BY <2>2, <2>3
<1>3. ASSUME NEW t \in Thread, Serve(t) \/ Hangup(t) \/ \E p \in Peer, a \in Address : Connect(t, p, a)
      PROVE  AskInv' /\ Grown
  <2>0. t \in All
    BY DEF All
  <2>1. Counted'
    BY <1>3, <2>0, CountedKept DEF AskInv
  <2>2. CASE MarkWrite(t)
    <3>1. Kept /\ \A p \in Peer : Len(queue'[p]) <= Len(queue[p])
      BY <2>2, MarkAsked, MarksLocked
    <3>. QED  BY <1>0, <2>1, <3>1 DEF AskInv
  <2>3. CASE ~MarkWrite(t)
    <3>1. Kept /\ \A p \in Peer : queue'[p] = queue[p]
      BY <1>3, <2>0, <2>3, QuietAsked DEF Serve
    <3>. QED  BY <1>0, <2>1, <3>1 DEF AskInv
  <2>. QED  BY <2>2, <2>3
<1>4. CASE Restart
  <2>1. Kept
    BY <1>4, RestartAsked
  <2>2. \A p \in Peer : Len(queue'[p]) = 0
    BY <1>4 DEF Restart
  <2>3. Counted'
    <3>1. /\ files' = files
          /\ pc' = [t \in All |-> IF t = Main THEN "check" ELSE "idle"]
      BY <1>4 DEF Restart
    <3>. QED  BY <3>1 DEF AskInv, Counted
  <2>. QED  BY <1>0, <2>1, <2>2, <2>3 DEF AskInv
<1>. QED  BY <1>1, <1>2, <1>3, <1>4 DEF Next

\* A base is asked to reload only when its manifest is another than at the last request
\* that no restart dropped, with any number of connection threads, unless that order was
\* taken away, or another thread entered the same library, while the digest had yet to be
\* compared (gigaset_gateway.py:2381-2466).
THEOREM AsksHaveReason == Spec => AskedOnlyIfChanged
<1>1. Init => Typed /\ LockInv /\ AskInv
  BY InitTyped, InitLocked, InitAsked
<1>2. Typed /\ LockInv /\ AskInv /\ [Next]_vars => (Typed /\ LockInv /\ AskInv)'
  BY NextTyped, LockKept, StepAsked
<1>3. Typed /\ LockInv /\ AskInv /\ [Next]_vars =>
        \A p \in Peer \ taken : Len(queue'[p]) > Len(queue[p]) => manifest'[p] # asked[p]
  BY StepAsked
<1>. QED  BY <1>1, <1>2, <1>3, PTL DEF Spec, AskedOnlyIfChanged

-----------------------------------------------------------------------------
(* No base is forgotten *)

Owed(p) == manifest[p] # loaded[p] => told[p] \/ Waiting(p) \/ Due(p)

\* A digest is never ahead of its manifest, so that a new manifest always differs.
OwedInv ==
    /\ \A p \in Peer : digests[p].user <= manifest[p].user
    /\ \A p \in Peer \ lost : Owed(p)

LEMMA InitOwed == Init => OwedInv
<1>. SUFFICES ASSUME Init, NEW p \in Peer PROVE digests[p].user <= manifest[p].user /\ Owed(p)
  BY DEF OwedInv
<1>1. /\ digests = loaded /\ digests[p].user = 0 /\ queue[p] = <<>>
      /\ manifest \in [Peer -> {[user |-> v, lib |-> 0] : v \in 0..1}]
      /\ Main \in All /\ pc[Main] = "check"
  BY DEF Init, All
<1>2. manifest[p].user >= 0
  BY <1>1
<1>. QED  BY <1>1, <1>2 DEF Owed, Due

\* A thread that goes on, and takes no list in hand, leaves what waits and what is due.
LEMMA GoesOn ==
    ASSUME Typed, NEW t \in All, NEW s \in Labels \ {"mark", "remove"}, pc' = [pc EXCEPT ![t] = s],
           pc[t] \in {"check", "write", "save", "patch", "enter"} =>
             s \in {"write", "save", "patch", "enter", "digest"},
           pc[t] # "digest", NEW p \in Peer,
           queue'[p] = queue[p], digests'[p] = digests[p], manifest'[p] = manifest[p],
           loaded'[p] = loaded[p], told'[p] = told[p],
           \A u \in All \ {t} : arg'[u] = arg[u] /\ at'[u] = at[u],
           Owed(p)
    PROVE  Owed(p)'
<1>1. \A u \in Thread : pc'[u] \in {"mark", "remove"} =>
        pc[u] = pc'[u] /\ arg'[u] = arg[u] /\ at'[u] = at[u]
  BY AskTyped DEF All
<1>2. Waiting(p) => Waiting(p)'
  <2>. SUFFICES ASSUME NEW n \in DOMAIN queue[p],
                       \A u \in Thread :
                         at[u] = p => /\ pc[u] = "mark" => arg[u] # queue[p][n]
                                      /\ pc[u] = "remove" =>
                                           \E m \in DOMAIN arg[u][2] : arg[u][2][m] = queue[p][n]
                PROVE  Waiting(p)'
    BY DEF Waiting
  <2>1. n \in DOMAIN queue'[p] /\ queue'[p][n] = queue[p][n]
    OBVIOUS
  <2>2. ASSUME NEW u \in Thread, at'[u] = p
        PROVE  /\ pc'[u] = "mark" => arg'[u] # queue'[p][n]
               /\ pc'[u] = "remove" => \E m \in DOMAIN arg'[u][2] : arg'[u][2][m] = queue'[p][n]
    <3>1. CASE pc'[u] \in {"mark", "remove"}
      <4>1. pc[u] = pc'[u] /\ arg'[u] = arg[u] /\ at[u] = p
        BY <1>1, <2>2, <3>1
      <4>2. /\ pc[u] = "mark" => arg[u] # queue[p][n]
            /\ pc[u] = "remove" => \E m \in DOMAIN arg[u][2] : arg[u][2][m] = queue[p][n]
        BY <4>1
      <4>. QED  BY <2>1, <4>1, <4>2
    <3>. QED  BY <3>1
  <2>. QED  BY <2>1, <2>2 DEF Waiting
<1>3. Due(p) => Due(p)'
  <2>. SUFFICES ASSUME NEW u \in All,
                       pc[u] \in {"check", "write", "save", "patch", "enter", "digest"}
                PROVE  pc'[u] \in {"check", "write", "save", "patch", "enter", "digest"}
    BY DEF Due
  <2>. QED  BY AskTyped
<1>. QED  BY <1>2, <1>3 DEF Owed

LEMMA QuietOwed ==
    ASSUME Typed, OwedInv, NEW t \in All,
           \/ LibraryCheck(t) \/ LibraryWrite(t) \/ LibrarySave(t) \/ LibraryCompare(t)
           \/ t \in Thread /\ \/ Record(t) \/ Peek(t) \/ Hangup(t)
                              \/ \E p \in Peer, a \in Address : Connect(t, p, a)
    PROVE  OwedInv'
<1>1. UNCHANGED <<queue, manifest, digests, loaded, told, lost>>
  BY DEF LibraryCheck, LibraryWrite, LibrarySave, LibraryCompare, Record, Peek, Hangup, Connect,
     diskVars, baseVars, past
<1>2. \A u \in All \ {t} : arg'[u] = arg[u] /\ at'[u] = at[u]
  BY AskTyped DEF LibraryCheck, LibraryWrite, LibrarySave, LibraryCompare, Record, Peek, Hangup,
     Connect, Typed, ThreadTyped
<1>3. pc[t] # "digest" /\
      \E s \in Labels \ {"mark", "remove"} :
        /\ pc' = [pc EXCEPT ![t] = s]
        /\ pc[t] \in {"check", "write", "save", "patch", "enter"} =>
             s \in {"write", "save", "patch", "enter", "digest"}
  BY DEF LibraryCheck, LibraryWrite, LibrarySave, LibraryCompare, Record, Peek, Hangup, Connect,
     Goto, Labels
<1>4. \A p \in Peer : Owed(p) => Owed(p)'
  BY <1>1, <1>2, <1>3, GoesOn
<1>. QED  BY <1>1, <1>4 DEF OwedInv

\* An order that is not swept away waits.
LEMMA OrderWaits ==
    ASSUME Typed, NEW t \in All, NEW s \in Labels \ {"mark", "remove"}, pc' = [pc EXCEPT ![t] = s],
           \A u \in All \ {t} : arg'[u] = arg[u] /\ at'[u] = at[u],
           NEW B \in SUBSET Peer, NEW what \in [Peer -> Reload], RequestReload(B, what),
           NEW p \in B \cap keys, ~Swept(p, what[p])
    PROVE  Waiting(p)'
<1>. DEFINE n == Len(queue[p]) + 1
<1>1. queue'[p][n] = what[p] /\ n \in DOMAIN queue'[p]
  BY Requested
<1>. HIDE DEF n
<1>2. ASSUME NEW u \in Thread, at'[u] = p, pc'[u] \in {"mark", "remove"}
      PROVE  pc'[u] = "mark" /\ arg'[u] # what[p]
  <2>1. u # t /\ pc[u] = pc'[u] /\ arg'[u] = arg[u] /\ at[u] = p
    BY <1>2, AskTyped DEF All
  <2>. QED  BY <1>2, <2>1 DEF Swept
<1>. QED  BY <1>1, <1>2 DEF Waiting

LEMMA PatchOwed ==
    ASSUME Typed, OwedInv, NEW t \in All, LibraryPatch(t)
    PROVE  OwedInv'
<1>. DEFINE B     == arg[t][2]
            order == [q \in Peer |-> <<"control", 0, serial>>]
<1>1. /\ pc[t] = "enter" /\ pc' = [pc EXCEPT ![t] = "digest"] /\ arg' = [arg EXCEPT ![t] = None]
      /\ manifest' = [q \in Peer |-> IF q \in B THEN [manifest[q] EXCEPT !.lib = arg[t][1]]
                                                ELSE manifest[q]]
      /\ RequestReload(B, order) /\ lost' = Missed(B, order)
      /\ UNCHANGED <<digests, loaded, told, at>>
  BY DEF LibraryPatch, Goto, baseVars
<1>2. B \in SUBSET Peer /\ order \in [Peer -> Reload]
  <2>1. B \in SUBSET Peer
    BY <1>1, AskTyped DEF Fits
  <2>2. order \in [Peer -> Reload]
    BY CreReloadAssumption DEF Reload, Typed, NamesTyped
  <2>. QED  BY <2>1, <2>2
<1>. HIDE DEF B, order
<1>3. \A u \in All \ {t} : arg'[u] = arg[u] /\ at'[u] = at[u]
  BY <1>1, AskTyped
<1>4. ASSUME NEW p \in Peer PROVE digests'[p].user <= manifest'[p].user
  <2>1. manifest'[p].user = manifest[p].user
    BY <1>1, AskTyped DEF Manifest
  <2>. QED  BY <1>1, <2>1 DEF OwedInv
<1>5. ASSUME NEW p \in Peer, p \notin lost' PROVE Owed(p)'
  <2>1. CASE p \in B
    <3>1. p \in keys /\ ~Swept(p, order[p])
      BY <1>1, <1>5, <2>1 DEF Missed
    <3>2. Waiting(p)'
      BY <1>1, <1>2, <1>3, <2>1, <3>1, OrderWaits DEF Labels
    <3>. QED  BY <3>2 DEF Owed
  <2>2. CASE p \notin B
    <3>1. p \notin lost /\ manifest'[p] = manifest[p]
      BY <1>1, <1>5, <2>2 DEF Missed
    <3>2. queue'[p] = queue[p]
      BY <1>1, <2>2 DEF RequestReload
    <3>3. Owed(p)
      BY <3>1 DEF OwedInv
    <3>. QED  BY <1>1, <1>3, <3>1, <3>2, <3>3, GoesOn DEF Labels
  <2>. QED  BY <2>1, <2>2
<1>. QED  BY <1>4, <1>5 DEF OwedInv

LEMMA DigestOwed ==
    ASSUME Typed, OwedInv, NEW t \in All, DigestCheck(t)
    PROVE  OwedInv'
<1>. DEFINE B     == Unqueued({q \in Peer : digests[q] # manifest[q]})
            order == [q \in Peer |-> <<"manifest", manifest[q].user, manifest[q].lib>>]
<1>1. /\ RequestReload(B, order) /\ lost' = Missed(B, order) /\ digests' = manifest
      /\ UNCHANGED <<manifest, loaded, told, at, arg>>
      /\ \E s \in {"idle", "record"} : pc' = [pc EXCEPT ![t] = s]
  BY DEF DigestCheck, Goto, baseVars
<1>2. B \in SUBSET Peer /\ order \in [Peer -> Reload]
  <2>1. B \in SUBSET Peer
    BY DEF Unqueued
  <2>2. order \in [Peer -> Reload]
    BY AskTyped DEF Reload, Manifest
  <2>. QED  BY <2>1, <2>2
<1>3. \A p \in Peer : p \in B <=> digests[p] # manifest[p] /\ queue[p] = <<>>
  BY DEF Unqueued
<1>. HIDE DEF B, order
<1>4. \A p \in Peer : digests'[p].user <= manifest'[p].user
  BY <1>1, AskTyped
<1>5. ASSUME NEW p \in Peer, p \notin lost' PROVE Owed(p)'
  <2>1. CASE p \in B
    <3>1. p \in keys /\ ~Swept(p, order[p])
      BY <1>1, <1>5, <2>1 DEF Missed
    <3>2. Waiting(p)'
      BY <1>1, <1>2, <2>1, <3>1, OrderWaits DEF Labels
    <3>. QED  BY <3>2 DEF Owed
  <2>2. CASE p \notin B
    <3>1. p \notin lost /\ queue'[p] = queue[p]
      BY <1>1, <1>5, <2>2 DEF Missed, RequestReload
    <3>2. Owed(p) /\ ~Due(p)
      BY <1>3, <2>2, <3>1 DEF OwedInv, Due
    <3>3. \A u \in Thread : pc'[u] \in {"mark", "remove"} => pc[u] = pc'[u]
      BY <1>1, AskTyped DEF All
    <3>4. Waiting(p) => Waiting(p)'
      BY <1>1, <3>1, <3>3 DEF Waiting
    <3>. QED  BY <1>1, <3>2, <3>4 DEF Owed
  <2>. QED  BY <2>1, <2>2
<1>. QED  BY <1>4, <1>5 DEF OwedInv

\* The order is told, or lost with the connection.
LEMMA SendOwed ==
    ASSUME Typed, OwedInv, NEW t \in Thread, Send(t)
    PROVE  OwedInv'
<1>1. /\ pc[t] = "send" /\ pc' = [pc EXCEPT ![t] = "mark"]
      /\ UNCHANGED <<queue, manifest, digests, loaded, arg, at>>
      /\ \/ arg[t][1] = "event" /\ told' = told /\ lost' = lost
         \/ told' = [told EXCEPT ![at[t]] = TRUE] /\ lost' = lost
         \/ told' = told /\ lost' = lost \cup {at[t]}
  BY DEF Send, Goto, diskVars
<1>2. t \in All /\ at[t] \in Peer /\ told \in [Peer -> BOOLEAN]
  BY <1>1, AskTyped DEF Fits, All, Typed, BasesTyped
<1>3. ASSUME NEW p \in Peer, p \notin lost' PROVE Owed(p)'
  <2>1. Owed(p)
    BY <1>1, <1>3 DEF OwedInv
  <2>2. CASE told'[p]
    BY <2>2 DEF Owed
  <2>3. CASE ~told'[p]
    <3>1. ~told[p] /\ (at[t] = p => arg[t][1] = "event")
      BY <1>1, <1>2, <1>3, <2>3
    <3>2. Due(p) => Due(p)'
      BY <1>1, <1>2, AskTyped DEF Due
    <3>3. Waiting(p) => Waiting(p)'
      <4>. SUFFICES ASSUME NEW n \in DOMAIN queue[p],
                           \A u \in Thread :
                             at[u] = p => /\ pc[u] = "mark" => arg[u] # queue[p][n]
                                          /\ pc[u] = "remove" =>
                                               \E m \in DOMAIN arg[u][2] : arg[u][2][m] = queue[p][n],
                           NEW u \in Thread, at[u] = p
                    PROVE  /\ pc'[u] = "mark" => arg[u] # queue[p][n]
                           /\ pc'[u] = "remove" =>
                                \E m \in DOMAIN arg[u][2] : arg[u][2][m] = queue[p][n]
        BY <1>1 DEF Waiting
      <4>1. CASE u = t
        <5>1. queue[p] \in Seq(Reload)
          BY AskTyped
        <5>2. queue[p][n] \in Reload
          BY <5>1
        <5>3. queue[p][n][1] # "event"
          BY <5>2 DEF Reload
        <5>. QED  BY <1>1, <1>2, <3>1, <4>1, <5>3, AskTyped
      <4>2. CASE u # t
        BY <1>1, <1>2, <4>2, AskTyped DEF All
      <4>. QED  BY <4>1, <4>2
    <3>. QED  BY <1>1, <2>1, <3>1, <3>2, <3>3 DEF Owed
  <2>. QED  BY <2>2, <2>3
<1>. QED  BY <1>1, <1>3 DEF OwedInv

\* The list r has all that s has besides c.
Others(s, r, c) == \A i \in DOMAIN s : s[i] # c => \E j \in DOMAIN r : r[j] = s[i]

LEMMA OthersKept ==
    ASSUME NEW s \in Seq(Reload), NEW c
    PROVE  Others(s, Without(s, c), c)
  BY WithoutOf DEF Others

\* The new list has the orders that wait.
LEMMA MarkReadOwed ==
    ASSUME Typed, OwedInv, NEW t \in Thread, MarkRead(t)
    PROVE  OwedInv'
<1>0. t \in All
  BY DEF All
<1>1. /\ pc[t] = "mark" /\ pc' = [pc EXCEPT ![t] = "remove"]
      /\ UNCHANGED <<queue, manifest, digests, loaded, told, lost, at>>
      /\ arg'[t][2] = Without(queue[at[t]], arg[t])
      /\ \A u \in All \ {t} : arg'[u] = arg[u]
  BY <1>0, AskTyped DEF MarkRead, Goto, diskVars, baseVars, past
<1>3. ASSUME NEW p \in Peer, NEW n \in DOMAIN queue[p], queue[p][n] # arg[t]
      PROVE  \E m \in DOMAIN Without(queue[p], arg[t]) : Without(queue[p], arg[t])[m] = queue[p][n]
  <2>2. queue[p] \in Seq(Reload)
    BY AskTyped
  <2>3. Others(queue[p], Without(queue[p], arg[t]), arg[t])
    BY <2>2, OthersKept
  <2>. QED  BY <1>3, <2>3 DEF Others
<1>2. ASSUME NEW p \in Peer, Owed(p) PROVE Owed(p)'
  <2>1. Due(p) => Due(p)'
    BY <1>0, <1>1, AskTyped DEF Due
  <2>2. Waiting(p) => Waiting(p)'
    <3>. SUFFICES ASSUME NEW n \in DOMAIN queue[p],
                         \A u \in Thread :
                           at[u] = p => /\ pc[u] = "mark" => arg[u] # queue[p][n]
                                        /\ pc[u] = "remove" =>
                                             \E m \in DOMAIN arg[u][2] : arg[u][2][m] = queue[p][n],
                         NEW u \in Thread, at[u] = p
                  PROVE  /\ pc'[u] = "mark" => arg'[u] # queue[p][n]
                         /\ pc'[u] = "remove" =>
                              \E m \in DOMAIN arg'[u][2] : arg'[u][2][m] = queue[p][n]
      BY <1>1 DEF Waiting
    <3>1. CASE u = t
      <4>. DEFINE rest == Without(queue[p], arg[t])
      <4>1. arg[t] # queue[p][n]
        BY <1>1, <3>1
      <4>2. \E m \in DOMAIN rest : rest[m] = queue[p][n]
        BY <1>3, <4>1
      <4>3. pc'[t] = "remove" /\ arg'[t][2] = rest
        BY <1>0, <1>1, <3>1, AskTyped
      <4>. HIDE DEF rest
      <4>. QED  BY <3>1, <4>2, <4>3
    <3>2. CASE u # t
      <4>1. pc'[u] = pc[u] /\ arg'[u] = arg[u]
        BY <1>1, <3>2, AskTyped DEF All
      <4>. QED  BY <4>1
    <3>. QED  BY <3>1, <3>2
  <2>. QED  BY <1>1, <1>2, <2>1, <2>2 DEF Owed
<1>. QED  BY <1>1, <1>2 DEF OwedInv

LEMMA MarkWriteOwed ==
    ASSUME Typed, LockInv, OwedInv, NEW t \in Thread, MarkWrite(t)
    PROVE  OwedInv'
<1>0. t \in All /\ pc[t] = "remove" /\ at[t] \in Peer /\ arg[t][2] \in Seq(Reload)
  BY AskTyped DEF MarkWrite, Fits, All
<1>1. /\ pc' = [pc EXCEPT ![t] = "wait"] /\ queue' = [queue EXCEPT ![at[t]] = arg[t][2]]
      /\ UNCHANGED <<manifest, digests, loaded, told, lost, at>>
      /\ arg' = [arg EXCEPT ![t] = None]
  BY DEF MarkWrite, Goto, baseVars
<1>2. /\ queue'[at[t]] = arg[t][2] /\ \A p \in Peer \ {at[t]} : queue'[p] = queue[p]
      /\ \A u \in All \ {t} : arg'[u] = arg[u]
  BY <1>0, <1>1, AskTyped
<1>3. \A u \in Thread : pc'[u] # "remove" /\ (pc'[u] = "mark" => pc[u] = "mark" /\ u # t)
  BY <1>0, <1>1, AskTyped DEF LockInv, All
<1>4. ASSUME NEW p \in Peer, Owed(p) PROVE Owed(p)'
  <2>1. CASE p # at[t]
    <3>1. queue'[p] = queue[p]
      BY <1>2, <2>1
    <3>. QED  BY <1>0, <1>1, <1>2, <1>4, <3>1, GoesOn DEF Labels
  <2>2. CASE p = at[t]
    <3>1. Waiting(p) => Waiting(p)'
      <4>. SUFFICES ASSUME NEW n \in DOMAIN queue[p],
                           \A u \in Thread :
                             at[u] = p => /\ pc[u] = "mark" => arg[u] # queue[p][n]
                                          /\ pc[u] = "remove" =>
                                               \E m \in DOMAIN arg[u][2] : arg[u][2][m] = queue[p][n]
                    PROVE  Waiting(p)'
        BY DEF Waiting
      <4>1. PICK m \in DOMAIN arg[t][2] : arg[t][2][m] = queue[p][n]
        BY <1>0, <2>2
      <4>2. m \in DOMAIN queue'[p] /\ queue'[p][m] = queue[p][n]
        BY <1>2, <2>2, <4>1
      <4>3. ASSUME NEW u \in Thread, at'[u] = p
            PROVE  /\ pc'[u] = "mark" => arg'[u] # queue'[p][m]
                   /\ pc'[u] # "remove"
        <5>1. u \in All /\ at[u] = p
          BY <1>1, <4>3 DEF All
        <5>. QED  BY <1>2, <1>3, <4>2, <5>1
      <4>. QED  BY <4>2, <4>3 DEF Waiting
    <3>2. Due(p) => Due(p)'
      <4>. SUFFICES ASSUME Due(p) PROVE Due(p)'
        OBVIOUS
      <4>1. Len(arg[t][2]) <= Len(queue[p]) /\ queue[p] = <<>>
        BY <1>0, <2>2 DEF LockInv, Due
      <4>2. queue'[p] = <<>>
        BY <1>0, <1>2, <2>2, <4>1
      <4>. QED  BY <1>0, <1>1, <4>2, AskTyped DEF Due
    <3>. QED  BY <1>1, <1>4, <3>1, <3>2 DEF Owed
  <2>. QED  BY <2>1, <2>2
<1>. QED  BY <1>1, <1>4 DEF OwedInv

LEMMA LoadOwed ==
    ASSUME Typed, OwedInv, NEW q \in Peer, Load(q)
    PROVE  OwedInv'
<1>1. /\ told' = [told EXCEPT ![q] = FALSE] /\ loaded' = [loaded EXCEPT ![q] = manifest[q]]
      /\ lost' = lost \ {q} /\ UNCHANGED <<queue, pc, at, arg, manifest, digests>>
  BY DEF Load, diskVars
<1>2. told \in [Peer -> BOOLEAN] /\ loaded \in [Peer -> Manifest]
  BY DEF Typed, BasesTyped
<1>3. ASSUME NEW p \in Peer, p \notin lost' PROVE Owed(p)'
  <2>1. CASE p = q
    BY <1>1, <1>2, <2>1 DEF Owed
  <2>2. CASE p # q
    <3>1. told'[p] = told[p] /\ loaded'[p] = loaded[p] /\ Owed(p)
      BY <1>1, <1>2, <1>3, <2>2 DEF OwedInv
    <3>. QED  BY <1>1, <3>1 DEF Owed, Waiting, Due
  <2>. QED  BY <2>1, <2>2
<1>. QED  BY <1>1, <1>3 DEF OwedInv

\* The lists are gone, but the main thread is going to compare every digest.
LEMMA RestartOwed ==
    ASSUME Typed, LockInv, OwedInv, Restart
    PROVE  OwedInv'
<1>1. /\ digests' = disk.digests /\ queue' = [q \in Peer |-> <<>>]
      /\ pc' = [t \in All |-> IF t = Main THEN "check" ELSE "idle"]
      /\ lost' = lost \cup {q \in Peer : queue[q] # <<>>} /\ UNCHANGED <<loaded, told>>
  BY DEF Restart, baseVars
<1>2. PICK B \in SUBSET {q \in Peer : manifest[q].user < MaxVersion} :
         manifest' = [q \in Peer |-> IF q \in B THEN [manifest[q] EXCEPT !.user = @ + 1]
                                                ELSE manifest[q]]
  BY DEF Restart
<1>3. digests' = digests /\ Main \in All /\ pc'[Main] = "check"
  BY <1>1 DEF LockInv, All
<1>4. ASSUME NEW p \in Peer
      PROVE  /\ digests'[p].user <= manifest'[p].user
             /\ manifest'[p] = manifest[p] \/ digests'[p] # manifest'[p]
  <2>1. /\ digests[p].user <= manifest[p].user /\ digests[p].user \in Nat /\ manifest[p].user \in Nat
        /\ manifest[p] \in Manifest
    BY AskTyped DEF OwedInv
  <2>2. manifest'[p] = manifest[p] \/ manifest'[p].user = manifest[p].user + 1
    BY <1>2, <2>1 DEF Manifest
  <2>. QED  BY <1>3, <2>1, <2>2
<1>5. ASSUME NEW p \in Peer, p \notin lost' PROVE Owed(p)'
  <2>1. queue[p] = <<>> /\ Owed(p) /\ queue'[p] = <<>>
    BY <1>1, <1>5 DEF OwedInv
  <2>2. ~Waiting(p)
    BY <2>1 DEF Waiting
  <2>3. digests'[p] # manifest'[p] => Due(p)'
    BY <1>3, <2>1 DEF Due
  <2>4. manifest[p] # loaded[p] => told[p] \/ digests[p] # manifest[p]
    BY <2>1, <2>2 DEF Owed, Due
  <2>. QED  BY <1>1, <1>3, <1>4, <2>3, <2>4 DEF Owed
<1>. QED  BY <1>4, <1>5 DEF OwedInv

LEMMA OwedKept == Typed /\ LockInv /\ OwedInv /\ [Next]_vars => OwedInv'
<1>. SUFFICES ASSUME Typed, LockInv, OwedInv, [Next]_vars PROVE OwedInv'
  OBVIOUS
<1>1. CASE UNCHANGED vars \/ Enter
  <2>1. UNCHANGED <<queue, pc, at, arg, manifest, digests, loaded, told, lost>>
    BY <1>1 DEF vars, Enter, diskVars, baseVars, past
  <2>. QED  BY <2>1 DEF OwedInv, Owed, Waiting, Due
<1>2. ASSUME NEW t \in All, Startup(t) PROVE OwedInv'
  BY <1>2, QuietOwed, PatchOwed, DigestOwed DEF Startup
<1>3. ASSUME NEW t \in Thread, Serve(t) \/ Hangup(t) \/ \E p \in Peer, a \in Address : Connect(t, p, a)
      PROVE  OwedInv'
  <2>1. t \in All
    BY DEF All
  <2>. QED  BY <1>3, <2>1, QuietOwed, SendOwed, MarkReadOwed, MarkWriteOwed DEF Serve
<1>. QED  BY <1>1, <1>2, <1>3, LoadOwed, RestartOwed DEF Next

\* A base that does not run its manifest has been told so, or is going to be, with any
\* number of connection threads, if it was known when it was to be told, and the order was
\* not lost: with the connection, in a restart, or to a thread that was just taking
\* another one away (gigaset_gateway.py:2381-2466, 3220-3229).
THEOREM NoneForgotten == Spec => []ReloadOwed
<1>1. Init => Typed /\ LockInv /\ OwedInv
  BY InitTyped, InitLocked, InitOwed
<1>2. Typed /\ LockInv /\ OwedInv /\ [Next]_vars => (Typed /\ LockInv /\ OwedInv)'
  BY NextTyped, LockKept, OwedKept
<1>3. OwedInv => ReloadOwed
  BY DEF OwedInv, Owed, ReloadOwed
<1>. QED  BY <1>1, <1>2, <1>3, PTL DEF Spec

=============================================================================
