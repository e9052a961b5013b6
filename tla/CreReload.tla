----------------------------- MODULE CreReload ------------------------------
(***************************************************************************)
(* How a base station gets to know of a new CRE manifest: the gateway       *)
(* writes its control library gwctl and enters it in every base's manifest  *)
(* (_ensure_control_library), compares each manifest with the digest on     *)
(* disk (_ensure_manifest_reload), queues configuration-changed for the     *)
(* bases concerned, and the events long poll of a base hands that over.     *)
(* The same channel carries the commands of the command file.               *)
(* Both run in Gateway.__init__, and again when a connection shows that the *)
(* gateway has another address (note_local_address), without a lock, while  *)
(* other connection threads run the same or serve the events channel.       *)
(*                                                                          *)
(* Every base has a manifest file of its own.  A manifest is the version of *)
(* the user's part and the serial number of gwctl in it; a gwctl file is    *)
(* the address it polls.                                                    *)
(***************************************************************************)
EXTENDS Naturals, Sequences, FiniteSets

CONSTANTS
    Peer,           \* base stations
    Thread, Main,   \* connection threads; the main thread, which runs __init__
    Address, None,  \* addresses of the gateway
    PollUrl,        \* is poll_url configured, so that no address is needed?
    Known,          \* bases in the saved state when the model begins
    Target,         \* of each entry of the command file: the base that saw its device
                    \* last, or None
    Bad,            \* entries that are refused
    CanLose,        \* may a dead connection swallow what was sent on it?
    MaxSerial, MaxVersion, MaxCrashes  \* bounds

ASSUME CreReloadAssumption ==
    /\ Main \notin Thread /\ None \notin Address \cup [user : Nat, lib : Nat] /\ Address # {}
    /\ Known \subseteq Peer
    /\ Target \in Seq(Peer \cup {None}) /\ Bad \subseteq DOMAIN Target
    /\ PollUrl \in BOOLEAN /\ CanLose \in BOOLEAN
    /\ {MaxSerial, MaxVersion, MaxCrashes} \subseteq Nat /\ MaxVersion > 0

VARIABLES
    local, serial,  \* local_address, control_serial
    files,          \* per serial, the gwctl file: an address, or None
    manifest,       \* per base, its manifest file
    digests, keys,  \* manifest_digests, the peers of base_keys_seen
    queue,          \* control_commands_by_peer
    entries,        \* how many entries the command file has by now
    pending, sent,  \* pending_commands, sent_command_ids: entries
    disk,           \* the saved serial, digests, keys and sent ids
    pc, at,         \* per thread: its step, its base
    arg,            \* per thread: address of the source; command; command and new queue
    told, loaded,   \* per base: has it been told to reload; the manifest it runs
    cached,         \* per base: the gwctl files it has downloaded
    asked,          \* history: per base, its manifest at the last request for it,
                    \* None if a restart dropped that
    raced,          \* history: serials entered in a manifest before their gwctl was
                    \* written and its serial saved
    taken,          \* history: bases whose order another thread took away, or gave as
                    \* well, before the digest was compared
    lost,           \* history: bases that missed their last order
    crashes

past == <<asked, raced, taken, lost>>
diskVars  == <<files, manifest, disk>>
baseVars  == <<told, loaded, cached>>
eventVars == <<entries, pending, sent>>
vars == <<local, serial, digests, keys, queue, pc, at, arg, diskVars, baseVars, past,
          eventVars, crashes>>

All == Thread \cup {Main}
Manifest == [user : 0..MaxVersion, lib : 0..MaxSerial]
Entry == DOMAIN Target
Saved(n, d, k, s) == [serial |-> n, digests |-> d, keys |-> k, sent |-> s]

Init ==
    /\ local = None /\ serial = 0 /\ files = [n \in 0..MaxSerial |-> None]
    /\ manifest \in [Peer -> {[user |-> v, lib |-> 0] : v \in 0..1}]
    /\ loaded = [p \in Peer |-> [user |-> 0, lib |-> 0]]
    /\ digests = loaded /\ keys = Known
    /\ entries = 0 /\ pending = {} /\ sent = {}
    /\ disk = Saved(0, digests, keys, {})
    /\ queue = [p \in Peer |-> <<>>]
    /\ pc = [t \in All |-> IF t = Main THEN "check" ELSE "idle"]
    /\ at = [t \in All |-> None] /\ arg = [t \in All |-> None]
    /\ told = [p \in Peer |-> FALSE]
    /\ cached = [p \in Peer |-> [n \in 0..MaxSerial |-> None]]
    /\ asked = loaded /\ raced = {} /\ taken = {} /\ lost = {} /\ crashes = 0

Goto(t, s) == pc' = [pc EXCEPT ![t] = s]
Up == pc[Main] = "idle"

-----------------------------------------------------------------------------
(* note_local_address and what it runs *)

Connect(t, p, a) ==
    /\ Up /\ pc[t] = "idle"
    /\ local' = a
    /\ Goto(t, IF a = local \/ PollUrl THEN "record" ELSE "check")
    /\ at' = [at EXCEPT ![t] = p]
    /\ UNCHANGED <<serial, digests, keys, queue, arg, diskVars, baseVars, past, eventVars, crashes>>

\* What the gwctl source depends on: nothing yet, poll_url, or the address.
Source == IF PollUrl THEN CHOOSE a \in Address : TRUE ELSE local

\* Mutant of LibraryCheck: a library of the same name is overwritten.
LibraryCheckInPlace(t) ==
    LET n == IF serial = 0 THEN 1 ELSE serial
    IN  /\ pc[t] = "check"
        /\ \/ Source = None /\ Goto(t, "digest") /\ UNCHANGED <<serial, arg>>
           \/ Source # None /\ files[serial] = Source /\ Goto(t, "patch") /\ UNCHANGED <<serial, arg>>
           \/ /\ Source # None /\ files[serial] # Source /\ serial' = n
              /\ arg' = [arg EXCEPT ![t] = <<Source, n>>] /\ Goto(t, "write")
        /\ UNCHANGED <<local, digests, keys, queue, at, diskVars, baseVars, past, eventVars, crashes>>
\* _ensure_control_library: is the file of the current serial still right?
LibraryCheck(t) ==
    /\ pc[t] = "check"
    /\ \/ Source = None /\ Goto(t, "digest") /\ UNCHANGED <<serial, arg>>
       \/ Source # None /\ files[serial] = Source /\ Goto(t, "patch") /\ UNCHANGED <<serial, arg>>
       \/ /\ Source # None /\ files[serial] # Source
          /\ serial < MaxSerial /\ serial' = serial + 1
          /\ arg' = [arg EXCEPT ![t] = <<Source, serial + 1>>] /\ Goto(t, "write")
    /\ UNCHANGED <<local, digests, keys, queue, at, diskVars, baseVars, past, eventVars, crashes>>

\* Mutant of LibraryWrite: the serial is counted up once more after the write.
LibraryWriteTwice(t) ==
    /\ pc[t] = "write" /\ Goto(t, "save") /\ serial' = serial + 1
    /\ files' = [files EXCEPT ![arg[t][2]] = arg[t][1]] /\ arg' = [arg EXCEPT ![t] = None]
    /\ UNCHANGED <<local, digests, keys, queue, at, manifest, disk, baseVars, past, eventVars, crashes>>
LibraryWrite(t) ==
    /\ pc[t] = "write" /\ Goto(t, "save")
    /\ files' = [files EXCEPT ![arg[t][2]] = arg[t][1]] /\ arg' = [arg EXCEPT ![t] = None]
    /\ UNCHANGED <<local, serial, digests, keys, queue, at, manifest, disk, baseVars, past,
                   eventVars, crashes>>

LibrarySave(t) ==
    /\ pc[t] = "save" /\ Goto(t, "patch")
    /\ disk' = Saved(serial, digests, keys, sent)
    /\ UNCHANGED <<local, serial, digests, keys, queue, at, arg, files, manifest, baseVars, past,
                   eventVars, crashes>>

\* The file gwctl is to be loaded from, by the serial of this moment, and the manifests
\* that do not name it.
LibraryCompare(t) ==
    /\ pc[t] = "patch" /\ Goto(t, "enter")
    /\ arg' = [arg EXCEPT ![t] = <<serial, {p \in Peer : manifest[p].lib # serial}>>]
    /\ UNCHANGED <<local, serial, digests, keys, queue, at, diskVars, baseVars, past, eventVars, crashes>>

\* A thread that takes p's orders away is going to take this one away unsent.
Swept(p, order) ==
    \E t \in Thread : at[t] = p /\ (pc[t] = "remove" \/ (pc[t] = "mark" /\ arg[t] = order))

\* Mutant of RequestReload: only the bases connected at this moment are told.
RequestReloadConnected(B, order) ==
    LET told_to == {p \in B \cap keys : \E t \in Thread : at[t] = p}
    IN  /\ queue' = [p \in Peer |-> IF p \in told_to THEN Append(queue[p], order[p]) ELSE queue[p]]
        /\ asked' = [p \in Peer |-> IF p \in told_to THEN manifest'[p] ELSE asked[p]]
\* _request_reload for the bases B, _peers_for_manifest_path included: only a base
\* that has been heard of is told.
RequestReload(B, order) ==
    /\ queue' = [p \in Peer |-> IF p \in B \cap keys THEN Append(queue[p], order[p]) ELSE queue[p]]
    /\ asked' = [p \in Peer |-> IF p \in B \cap keys THEN manifest'[p] ELSE asked[p]]
\* Who misses such an order: bases not heard of, and those it is swept away from.
Missed(B, order) ==
    (lost \ B) \cup (B \ keys) \cup {p \in B : Swept(p, order[p])}

\* Threads that are about to enter gwctl in the manifest of p.
Entering(p) == {u \in All : pc[u] = "enter" /\ p \in arg[u][2]}
\* Has this serial yet to be written or saved?
Unsettled(n) == n > disk.serial \/ \E u \in All : pc[u] = "write" /\ arg[u][2] = n

\* The entry for gwctl in those manifests, and a request to each of their bases.
LibraryPatch(t) ==
    LET name  == arg[t][1]
        B     == arg[t][2]
        order == [p \in Peer |-> <<"control", 0, serial>>]
    IN  /\ pc[t] = "enter" /\ Goto(t, "digest")
        /\ manifest' = [p \in Peer |-> IF p \in B THEN [manifest[p] EXCEPT !.lib = name]
                                                  ELSE manifest[p]]
        /\ RequestReload(B, order) /\ lost' = Missed(B, order)
        /\ raced' = raced \cup {n \in {name} : Unsettled(n)}
        /\ taken' = taken \cup {p \in B : \E u \in Entering(p) \ {t} : arg[u][1] = name}
        /\ arg' = [arg EXCEPT ![t] = None]
        /\ UNCHANGED <<local, serial, digests, keys, at, files, disk, baseVars, eventVars, crashes>>

\* Mutant of Unqueued: a reload that waits already is not looked for.
UnqueuedAlways(B) == B
\* The bases of B with no reload in their queue.
Unqueued(B) == {p \in B : queue[p] = <<>>}

\* _ensure_manifest_reload: the digest is recorded and saved, then told on.
DigestCheck(t) ==
    LET changed == {p \in Peer : digests[p] # manifest[p]}
        order   == [p \in Peer |-> <<"manifest", manifest[p].user, manifest[p].lib>>]
        B       == Unqueued(changed)
    IN  /\ pc[t] = "digest" /\ Goto(t, IF t = Main THEN "idle" ELSE "record")
        /\ digests' = manifest
        /\ disk' = IF changed = {} THEN disk ELSE Saved(serial, manifest, keys, sent)
        /\ UNCHANGED manifest
        /\ RequestReload(B, order) /\ lost' = Missed(B, order)
        /\ taken' = {p \in taken : Entering(p) # {}}
        /\ UNCHANGED <<local, serial, keys, at, arg, files, raced, baseVars, eventVars, crashes>>

-----------------------------------------------------------------------------
(* The rest of handle_connection: record, then the events long poll *)

Record(t) ==
    /\ pc[t] = "record" /\ Goto(t, "wait")
    /\ keys' = keys \cup {at[t]}
    /\ disk' = IF at[t] \in keys THEN disk ELSE Saved(serial, digests, keys', sent)
    /\ UNCHANGED <<local, serial, digests, queue, at, arg, files, manifest, baseVars, past,
                   eventVars, crashes>>

Free == \A u \in All : pc[u] # "remove"     \* nobody holds command_lock

\* _matches_peer: an entry whose base is unknown waits while there are two.
Matches(e, p) == IF Target[e] = None THEN Cardinality(keys) <= 1 ELSE Target[e] = p

\* _refresh_event_commands: one refused entry, and the list stays as it was.
Loaded == IF \E e \in Bad : e <= entries THEN pending ELSE (1..entries) \ sent

\* next_event_command: the first command is looked at, not taken; those for the base
\* itself go before those of the file.
Peek(t) ==
    LET p == at[t]
        mine == {e \in Loaded : Matches(e, p)}
    IN  /\ pc[t] = "wait" /\ Free /\ (queue[p] # <<>> \/ mine # {})
        /\ pending' = Loaded
        /\ arg' = [arg EXCEPT ![t] =
                     IF queue[p] # <<>> THEN Head(queue[p])
                     ELSE <<"event", CHOOSE e \in mine : \A f \in mine : e <= f, 0>>]
        /\ Goto(t, "send")
        /\ UNCHANGED <<local, serial, digests, keys, queue, at, diskVars, baseVars, past,
                       entries, sent, crashes>>

\* The answer of the long poll, which a dead connection may swallow.
Send(t) ==
    LET isEvent == arg[t][1] = "event"
    IN  /\ pc[t] = "send" /\ Goto(t, "mark")
        /\ \/ /\ told' = IF isEvent THEN told ELSE [told EXCEPT ![at[t]] = TRUE]
              /\ UNCHANGED lost
           \/ /\ CanLose /\ UNCHANGED told
              /\ lost' = IF isEvent THEN lost ELSE lost \cup {at[t]}
        /\ UNCHANGED <<local, serial, digests, keys, queue, at, arg, diskVars, loaded, cached,
                       asked, raced, taken, entries, pending, sent, crashes>>

\* The connection ends: between two long polls, or with an error of sendall.
Hangup(t) ==
    /\ pc[t] = "wait" \/ (pc[t] = "send" /\ CanLose)
    /\ Goto(t, "idle")
    /\ at' = [at EXCEPT ![t] = None] /\ arg' = [arg EXCEPT ![t] = None]
    /\ UNCHANGED <<local, serial, digests, keys, queue, diskVars, baseVars, past, eventVars,
                   crashes>>

\* What a list holds besides the command c.
Without(s, c) ==
    LET kept[n \in 0..Len(s)] ==
          IF n = 0 THEN <<>> ELSE kept[n - 1] \o (IF s[n] = c THEN <<>> ELSE <<s[n]>>)
    IN  kept[Len(s)]

\* mark_event_command_sent, under command_lock: the new list is put together from
\* the old one, then put in its place.
MarkRead(t) ==
    /\ pc[t] = "mark" /\ Free
    /\ arg' = [arg EXCEPT ![t] = <<@, Without(queue[at[t]], @)>>]
    /\ Goto(t, "remove")
    /\ UNCHANGED <<local, serial, digests, keys, queue, at, diskVars, baseVars, past, eventVars,
                   crashes>>

MarkWrite(t) ==
    LET done == IF arg[t][1][1] = "event" THEN {arg[t][1][2]} ELSE {}
    IN  /\ pc[t] = "remove" /\ Goto(t, "wait")
        /\ queue' = [queue EXCEPT ![at[t]] = arg[t][2]]
        /\ pending' = pending \ done /\ sent' = sent \cup done
        /\ arg' = [arg EXCEPT ![t] = None]
        /\ disk' = Saved(serial, digests, keys, sent')
        /\ taken' = taken \cup {p \in {at[t]} : digests[p] # manifest[p]}
        /\ UNCHANGED <<local, serial, digests, keys, at, files, manifest, baseVars, asked, raced,
                       lost, entries, crashes>>

-----------------------------------------------------------------------------
\* The base fetches its manifest and the files in it that it does not have.
Load(p) ==
    /\ told[p] /\ told' = [told EXCEPT ![p] = FALSE]
    /\ loaded' = [loaded EXCEPT ![p] = manifest[p]]
    /\ LET n == manifest[p].lib IN
         cached' = [cached EXCEPT ![p][n] = IF @ = None THEN files[n] ELSE @]
    /\ lost' = lost \ {p}
    /\ UNCHANGED <<local, serial, digests, keys, queue, pc, at, arg, diskVars, asked, raced, taken,
                   eventVars, crashes>>

\* The add-on stops or dies, and starts again; run.sh may bring a new manifest.
Restart ==
    /\ crashes < MaxCrashes /\ crashes' = crashes + 1
    /\ \E B \in SUBSET {p \in Peer : manifest[p].user < MaxVersion} :
         manifest' = [p \in Peer |-> IF p \in B THEN [manifest[p] EXCEPT !.user = @ + 1]
                                                ELSE manifest[p]]
    /\ local' = None /\ serial' = disk.serial
    /\ digests' = disk.digests /\ keys' = disk.keys /\ sent' = disk.sent
    /\ pending' = {}
    /\ queue' = [p \in Peer |-> <<>>]
    /\ pc' = [t \in All |-> IF t = Main THEN "check" ELSE "idle"]
    /\ at' = [t \in All |-> None] /\ arg' = [t \in All |-> None]
    /\ asked' = [p \in Peer |-> IF queue[p] = <<>> THEN asked[p] ELSE None]
    /\ lost' = lost \cup {p \in Peer : queue[p] # <<>>}
    /\ UNCHANGED <<files, disk, baseVars, entries, raced, taken>>

\* The user adds an entry to the command file.
Enter ==
    /\ entries < Len(Target) /\ entries' = entries + 1
    /\ UNCHANGED <<local, serial, digests, keys, queue, pc, at, arg, diskVars, baseVars, past,
                   pending, sent, crashes>>

Startup(t) ==
    \/ LibraryCheck(t) \/ LibraryWrite(t) \/ LibrarySave(t) \/ LibraryCompare(t) \/ LibraryPatch(t)
    \/ DigestCheck(t)
Serve(t) == Record(t) \/ Peek(t) \/ Send(t) \/ MarkRead(t) \/ MarkWrite(t)

Next ==
    \/ \E t \in All : Startup(t)
    \/ \E t \in Thread : Serve(t) \/ Hangup(t) \/ \E p \in Peer, a \in Address : Connect(t, p, a)
    \/ \E p \in Peer : Load(p)
    \/ Restart \/ Enter

Spec == Init /\ [][Next]_vars

-----------------------------------------------------------------------------
TypeOK ==
    /\ local \in Address \cup {None} /\ serial \in 0..MaxSerial
    /\ files \in [0..MaxSerial -> Address \cup {None}]
    /\ manifest \in [Peer -> Manifest] /\ digests \in [Peer -> Manifest]
    /\ loaded \in [Peer -> Manifest] /\ asked \in [Peer -> Manifest \cup {None}]
    /\ keys \subseteq Peer
    /\ disk \in [serial : 0..MaxSerial, digests : [Peer -> Manifest], keys : SUBSET Peer,
                sent : SUBSET Entry]
    /\ entries \in 0..Len(Target) /\ {pending, sent} \subseteq SUBSET Entry
    /\ pc \in [All -> {"idle", "check", "write", "save", "patch", "enter", "digest", "record",
                       "wait", "send", "mark", "remove"}]
    /\ at \in [All -> Peer \cup {None}] /\ told \in [Peer -> BOOLEAN]
    /\ cached \in [Peer -> [0..MaxSerial -> Address \cup {None}]]
    /\ \A p \in Peer : queue[p] \in Seq({"control", "manifest"} \X (0..MaxVersion) \X (0..MaxSerial))
    /\ raced \subseteq 0..MaxSerial /\ taken \subseteq Peer /\ lost \subseteq Peer
    /\ crashes \in 0..MaxCrashes

\* A base is asked to reload only when its manifest is another than at the last
\* request ("only asked to reload when its own manifest actually changed"), unless
\* that order was taken away, or another thread entered the same library, while the
\* digest had yet to be compared.
AskedOnlyIfChanged ==
    [][\A p \in Peer \ taken : Len(queue'[p]) > Len(queue[p]) => manifest'[p] # asked[p]]_vars

\* A gwctl file a base has downloaded never changes under its name, restarts included
\* ("the library name could collide with a version the base already cached"), unless a
\* thread entered the name in a manifest before the one that counted it up had written
\* the file and saved the serial.
CachedStaysTrue ==
    \A p \in Peer, n \in (0..MaxSerial) \ raced : cached[p][n] \in {None, files[n]}

\* An order that waits for p and stays: no thread has sent it already, or has put a list
\* together that it is not in.
Waiting(p) ==
    \E n \in DOMAIN queue[p] : \A t \in Thread :
        at[t] = p => /\ pc[t] = "mark" => arg[t] # queue[p][n]
                     /\ pc[t] = "remove" => \E m \in DOMAIN arg[t][2] : arg[t][2][m] = queue[p][n]
\* A thread has yet to compare the manifest of p with its digest, and to find no order.
Due(p) ==
    /\ digests[p] # manifest[p] /\ queue[p] = <<>>
    /\ \E t \in All : pc[t] \in {"check", "write", "save", "patch", "enter", "digest"}
\* A base that does not run its manifest has been told so, or is going to be ("bez teto
\* zpravy by na ni nova knihovna z aktualizace doplnku nikdy nedorazila"), if it was
\* known when it was to be told, and the order was not lost: with the connection, in a
\* restart, or to a thread that was just taking another one away.
ReloadOwed ==
    \A p \in Peer \ lost : manifest[p] # loaded[p] => told[p] \/ Waiting(p) \/ Due(p)
=============================================================================
