----------------------------- MODULE StateFile ------------------------------
(***************************************************************************)
(* atomic_json_write and the threads that save a document with it.          *)
(*                                                                          *)
(* Every writer of a file writes the same temporary file beside it and then *)
(* renames that over the file.  There are two files of it (file):           *)
(*   "state"    gigaset_state.json: a change and its save are one critical  *)
(*              section of Gateway.lock.                                    *)
(*   "command"  gigaset_command_state.json: no lock covers all saves.  The  *)
(*              threads that remember ids hold command_lock from the change *)
(*              to the end of the save; record() and others hold nothing.   *)
(*                                                                          *)
(* A document is the set of facts it holds, as long as it has facts: the    *)
(* devices, or the remembered ids and the routes of the devices.  The file  *)
(* system is POSIX: a thread writes to the inode it opened, wherever a      *)
(* rename has put it since.                                                 *)
(***************************************************************************)
EXTENDS Naturals, FiniteSets

CONSTANTS
    Writer,         \* threads
    Id,             \* facts that stay: remembered ids
    Device,         \* facts that come and go: devices, or their routes
    Inode, None,
    MaxFaults       \* bound on crashes and failed writes

ASSUME StateFileAssumption ==
    /\ Id \cap Device = {} /\ None \notin Inode /\ None \notin Writer
    /\ \A s \in SUBSET (Id \cup Device) : s # None
    /\ IsFiniteSet(Id) /\ IsFiniteSet(Device)
    /\ MaxFaults \in Nat

VARIABLES
    file,       \* which of the two files this is
    memory,     \* the facts in memory
    lock,       \* the writer that holds the lock, or None
    pc, doc, fd,\* of each writer: its step, its document, the inode it opened
    path, tmp,  \* the inodes the two names lead to, or None
    content,    \* per inode: what it holds, and its length
    faults,
    \* History: the writers whose save has met another one, whether the save that
    \* returned last had, what it stored, and the ids of all that returned.
    met, doubt, stored, saved

history == <<met, doubt, stored, saved>>
vars == <<file, memory, lock, pc, doc, fd, path, tmp, content, faults, history>>

Fact == Id \cup Device

\* A file of length n is readable iff it holds one whole document.
Whole(d) == [doc |-> d, len |-> 1 + Cardinality(d)]
TornShort(n) == [doc |-> None, len |-> n - 1]     \* Mutant of Torn.
Torn(n) == [doc |-> None, len |-> n]
Empty == Torn(0)
Readable(n) == n # None /\ content[n].doc # None

Init ==
    /\ file \in {"state", "command"}
    /\ memory = {} /\ lock = None /\ faults = 0
    /\ pc = [w \in Writer |-> "idle"]
    /\ doc = [w \in Writer |-> {}]
    /\ fd = [w \in Writer |-> None]
    /\ path = None /\ tmp = None
    /\ content = [n \in Inode |-> Empty]
    /\ met = {} /\ doubt = FALSE /\ stored = {} /\ saved = {}

-----------------------------------------------------------------------------
\* History: a save begins while others are under way.
Busy == {v \in Writer : pc[v] # "idle"}
Meet(w) ==
    /\ met' = IF Busy = {} THEN met ELSE met \cup Busy \cup {w}
    /\ UNCHANGED <<doubt, stored, saved>>

\* Mutant of Change: the state is changed before the lock is taken.
ChangeUnlocked(w, locked, m) ==
    /\ pc[w] = "idle"
    /\ memory' = m
    /\ pc' = [pc EXCEPT ![w] = "build"]
    /\ Meet(w)
    /\ UNCHANGED <<file, lock, doc, fd, path, tmp, content, faults>>

\* A thread changes the state and goes on to save it, holding the lock or not.
Change(w, locked, m) ==
    /\ pc[w] = "idle"
    /\ IF locked THEN lock = None /\ lock' = w ELSE UNCHANGED lock
    /\ memory' = m
    /\ pc' = [pc EXCEPT ![w] = "build"]
    /\ Meet(w)
    /\ UNCHANGED <<file, doc, fd, path, tmp, content, faults>>

\* _refresh_control_requests, under command_lock: the ids are in the second file.
Remember(w) == \E i \in Id \ memory : file = "command" /\ Change(w, TRUE, memory \cup {i})
\* record() and _forget_device: the state under Gateway.lock, the routes outside it.
See(w)      == \E d \in Device \ memory : Change(w, file = "state", memory \cup {d})
Forget(w)   == \E d \in Device \cap memory : Change(w, file = "state", memory \ {d})

\* The argument of atomic_json_write: a copy of the ids, the routes by reference.
Build(w) ==
    /\ pc[w] = "build"
    /\ doc' = [doc EXCEPT ![w] = memory \cap Id]
    /\ pc' = [pc EXCEPT ![w] = "open"]
    /\ UNCHANGED <<file, memory, lock, fd, path, tmp, content, faults, history>>

\* open("w"): truncates the temporary file, or creates it.
Open(w) ==
    /\ pc[w] = "open"
    /\ \E n \in IF tmp # None THEN {tmp} ELSE {m \in Inode : m # path /\ \A v \in Writer : fd[v] # m} :
         /\ fd' = [fd EXCEPT ![w] = n]
         /\ tmp' = n
         /\ content' = [content EXCEPT ![n] = Empty]
    /\ pc' = [pc EXCEPT ![w] = "write"]
    /\ UNCHANGED <<file, memory, lock, doc, path, faults, history>>

\* json.dump, of what is referred to as it is now, and close: over whatever the
\* inode holds, from its start.
Write(w) ==
    /\ pc[w] = "write"
    /\ doc' = [doc EXCEPT ![w] = @ \cup (memory \cap Device)]
    /\ LET new == Whole(doc'[w])
           old == content[fd[w]]
       IN content' = [content EXCEPT ![fd[w]] =
                        IF new.len >= old.len THEN new ELSE Torn(old.len)]
    /\ pc' = [pc EXCEPT ![w] = "replace"]
    /\ UNCHANGED <<file, memory, lock, fd, path, tmp, faults, history>>

\* The save is over, and with it the critical section it was in.
Done(w) ==
    /\ lock' = IF lock = w THEN None ELSE lock
    /\ pc' = [pc EXCEPT ![w] = "idle"]
    /\ doc' = [doc EXCEPT ![w] = {}]
    /\ fd' = [fd EXCEPT ![w] = None]
    /\ met' = met \ {w}

\* The rename of w's save: it returns.  Without a temporary file it raises.
Move(w) ==
    IF tmp # None
      THEN /\ path' = tmp /\ tmp' = None
           /\ doubt' = (w \in met)
           /\ stored' = doc[w]
           /\ saved' = saved \cup (doc[w] \cap Id)
      ELSE UNCHANGED <<path, tmp, doubt, stored, saved>>

\* Mutant of Replace: the file is moved before it is closed and flushed.
ReplaceEarly(w) ==
    /\ pc[w] \in {"write", "replace"}
    /\ Move(w)
    /\ Done(w)
    /\ UNCHANGED <<file, memory, content, faults>>

\* temporary.replace(path).
Replace(w) ==
    /\ pc[w] = "replace"
    /\ Move(w)
    /\ Done(w)
    /\ UNCHANGED <<file, memory, content, faults>>

\* The disk is full: the save raises where it is.
Fail(w) ==
    /\ pc[w] \in {"open", "write"} /\ faults < MaxFaults
    /\ faults' = faults + 1
    /\ Done(w)
    /\ UNCHANGED <<file, memory, path, tmp, content, doubt, stored, saved>>

\* What a start of the program would read.
OnDisk == IF Readable(path) THEN content[path].doc ELSE {}

\* The process dies; Gateway.__init__ starts from the file, or from nothing when
\* it cannot be read.  The temporary file stays behind.
Crash ==
    /\ faults < MaxFaults /\ faults' = faults + 1
    /\ memory' = OnDisk
    /\ lock' = None
    /\ pc' = [w \in Writer |-> "idle"]
    /\ doc' = [w \in Writer |-> {}]
    /\ fd' = [w \in Writer |-> None]
    /\ met' = {}
    /\ UNCHANGED <<file, path, tmp, content, doubt, stored, saved>>

Next ==
    \/ \E w \in Writer : Remember(w) \/ See(w) \/ Forget(w) \/ Build(w) \/ Open(w)
                           \/ Write(w) \/ Replace(w) \/ Fail(w)
    \/ Crash

Spec == Init /\ [][Next]_vars

-----------------------------------------------------------------------------
TypeOK ==
    /\ file \in {"state", "command"} /\ memory \subseteq Fact /\ faults \in 0..MaxFaults
    /\ lock \in Writer \cup {None}
    /\ pc \in [Writer -> {"idle", "build", "open", "write", "replace"}]
    /\ doc \in [Writer -> SUBSET Fact]
    /\ fd \in [Writer -> Inode \cup {None}]
    /\ {path, tmp} \subseteq Inode \cup {None}
    /\ content \in [Inode -> [doc : (SUBSET Fact) \cup {None}, len : Nat]]
    /\ met \subseteq Writer /\ doubt \in BOOLEAN
    /\ stored \subseteq Fact /\ saved \subseteq Id

\* The one exception below: in the second file, the save that returned last had met
\* another one.  The first file has none.
Doubtful == file = "command" /\ doubt

\* The file, once there, always holds one whole document, wherever the process
\* dies and whatever an earlier crash left in the temporary file.
FileReadable == path # None => Readable(path) \/ Doubtful

\* A restart takes the program back to what the last save that returned stored,
\* whatever died or failed since: a device removed by then is not announced again
\* ("Odparovany uzel se nesmi po restartu znovu ohlasit"), one seen by then is known.
RestartRestores == [][Crash => memory' = stored \/ Doubtful]_vars

\* What is put in place of the file is the state as it is then, never the document of
\* a save that was begun before a later change.
FileAdvances == [][OnDisk' # OnDisk => OnDisk' = memory \/ Doubtful']_vars

\* An id that a save stored is known after every later restart ("Both of these must
\* survive a gateway restart: otherwise every request still listed in the request
\* file would be executed again").
SavedSurvives == saved \subseteq memory
=============================================================================
