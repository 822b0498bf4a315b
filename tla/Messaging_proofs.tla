--------------------------- MODULE Messaging_proofs ---------------------------
(***************************************************************************)
(* Proofs about the components an event, a captured flow and a session pass *)
(* through, for any number of sessions, callers, clients and flows.  The    *)
(* components share no state: the theorems are about the specification of   *)
(* each, the last two about their composition.                             *)
(***************************************************************************)
EXTENDS MCMessaging, HookBus_proofs

-----------------------------------------------------------------------------
(* The session manager (SessionManager). *)

Contents == [scope : Scopes \cup {"none", "absent"}, of : Sessions \cup {"none"}]

AfterSave == {"end"} \cup Sessions
AfterRead == {"modules", "created", "change"}

SessionWork == [pc      : {"idle", "locked out", "opening"},
                session : Sessions \cup {"none"},
                next    : 1 .. 6,
                then    : {"none", "read"} \cup AfterSave \cup AfterRead]

SessionTyped ==
  /\ current \in Sessions \cup {"none"} /\ last \in Sessions \cup {"none"}
  /\ crawls \in Sessions \cup {"none"}
  /\ memory \in Contents /\ files \in [Sessions -> Contents]
  /\ engine \in [1 .. 5 -> Sessions \cup {"none"}]
  /\ work \in [SessionCallers -> SessionWork]
  /\ saveLock \in SessionCallers \cup {"none"}
  /\ unsaved \in BOOLEAN /\ failed \in BOOLEAN /\ entangled \in BOOLEAN /\ begun \in Nat

(* Whoever is in save() has its lock, and nobody else has. *)
LockOf(c) ==
  /\ saveLock = c <=> work[c].pc = "opening" /\ work[c].then \in AfterSave
  /\ work[c].pc = "idle" <=> work[c].then = "none"
  /\ work[c].pc = "locked out" => work[c].then \in AfterSave
  /\ work[c].then \in {"read"} \cup AfterRead => work[c].session \in Sessions

Locks == \A c \in SessionCallers : LockOf(c)

OneWork   == \A c, d \in SessionCallers : work[c].pc # "idle" /\ work[d].pc # "idle" => c = d
OwnFiles  == \A s \in Sessions : files[s] = NoFiles \/ files[s].of = s
HasFiles  == current # "none" => files[current] # NoFiles
NoneWorks == \A c \in SessionCallers : work[c].pc = "idle"

Settled ==
  /\ \A i \in 1 .. 5 : engine[i] = current
  /\ memory.of = current /\ crawls \in {current, "none"} /\ last = current

IsKept == Settled /\ (unsaved \/ memory = files[current])

(* What an operation that is alone knows: the session it opens the          *)
(* databases of is the active one; while it saves, all is as it was before; *)
(* while it loads or creates, the scope in memory is what the files say     *)
(* from the moment they are read, and all databases are open by then.       *)
WorkKnows(c) ==
  LET w == work[c]
  IN w.pc # "idle" =>
       /\ w.pc = "opening" /\ current # "none" /\ w.session = current
       /\ \A i \in 1 .. 5 : i < w.next => engine[i] = current
       /\ w.then \in AfterSave => ~failed /\ Settled /\ memory = files[current]
       /\ w.then \in Sessions => files[w.then] # NoFiles
       /\ w.then \in AfterRead => memory = files[current]
       /\ w.then \in {"modules", "change"} => w.next = 6
       /\ w.then = "change" => last = current

Alone ==
  /\ OneWork /\ OwnFiles /\ HasFiles /\ \A c \in SessionCallers : WorkKnows(c)
  /\ NoneWorks /\ current # "none" /\ ~failed => IsKept

SessionIInv == SessionTyped /\ Locks /\ (~entangled => Alone)

LEMMA SessionTags ==
  /\ "none" \notin SessionCallers /\ "none" \notin Sessions /\ "end" \notin Sessions
  /\ "read" \notin Sessions /\ "modules" \notin Sessions /\ "created" \notin Sessions
  /\ "change" \notin Sessions
BY SessionAssumption

LEMMA FiveDatabases == Len(SessionDatabases) = 5 /\ DOMAIN SessionDatabases = 1 .. 5
BY DEF SessionDatabases

LEMMA FilesTyped ==
  /\ NoFiles \in Contents /\ NoFiles.of = "none"
  /\ \A s \in Sessions \cup {"none"} : Fresh(s) \in Contents /\ Fresh(s).of = s /\ Fresh(s) # NoFiles
BY DEF NoFiles, Fresh, Contents

LEMMA WorkTyped ==
  /\ NoWork \in SessionWork
  /\ \A s \in Sessions \cup {"none"}, t \in AfterSave \cup AfterRead \cup {"read"} :
       Opening(s, t) \in SessionWork
  /\ \A t \in AfterSave :
       LET w == [NoWork EXCEPT !.pc = "locked out", !.then = t]
       IN w \in SessionWork /\ w.pc = "locked out" /\ w.then = t
<1>1. NoWork \in SessionWork
  BY DEF NoWork, SessionWork
<1>2. ASSUME NEW s \in Sessions \cup {"none"}, NEW t \in AfterSave \cup AfterRead \cup {"read"}
      PROVE  Opening(s, t) \in SessionWork
  BY DEF Opening, SessionWork
<1>3. ASSUME NEW t \in AfterSave
      PROVE  LET w == [NoWork EXCEPT !.pc = "locked out", !.then = t]
             IN w \in SessionWork /\ w.pc = "locked out" /\ w.then = t
  <2>1. PICK r \in SessionWork : r = NoWork
    BY <1>1
  <2>2. [r EXCEPT !.pc = "locked out", !.then = t] \in SessionWork
    BY DEF SessionWork
  <2>3. /\ [r EXCEPT !.pc = "locked out", !.then = t].pc = "locked out"
        /\ [r EXCEPT !.pc = "locked out", !.then = t].then = t
    BY DEF SessionWork
  <2> QED
    BY <2>1, <2>2, <2>3
<1> QED
  BY <1>1, <1>2, <1>3

(* One caller goes on, and the others stay where they are. *)
Moves(c) ==
  work' \in [SessionCallers -> SessionWork] /\ \A d \in SessionCallers \ {c} : work'[d] = work[d]

LEMMA WorkMoves ==
  ASSUME SessionTyped, NEW c \in SessionCallers, NEW w \in SessionWork,
         work' = [work EXCEPT ![c] = w]
  PROVE  Moves(c) /\ work'[c] = w
BY DEF SessionTyped, Moves

LEMMA LocksGoOn ==
  ASSUME Locks, NEW c \in SessionCallers, Moves(c), LockOf(c)',
         saveLock' = saveLock \/ {saveLock, saveLock'} \subseteq {c, "none"}
  PROVE  Locks'
<1> SUFFICES ASSUME NEW d \in SessionCallers, d # c PROVE LockOf(d)'
  BY DEF Locks
<1>1. work'[d] = work[d] /\ LockOf(d) /\ (saveLock' = d <=> saveLock = d)
  BY SessionTags DEF Moves, Locks
<1> QED
  BY <1>1 DEF LockOf

LEMMA AloneGoesOn ==
  ASSUME OneWork, NEW c \in SessionCallers, work[c].pc # "idle" \/ NoneWorks, Moves(c),
         OwnFiles', HasFiles', WorkKnows(c)',
         work'[c].pc = "idle" /\ current' # "none" /\ ~failed' => IsKept'
  PROVE  Alone'
<1>1. \A d \in SessionCallers \ {c} : work[d].pc = "idle" /\ work'[d].pc = "idle"
  BY DEF OneWork, NoneWorks, Moves
<1>2. OneWork' /\ \A d \in SessionCallers : WorkKnows(d)'
  BY <1>1 DEF OneWork, WorkKnows
<1>3. NoneWorks' => work'[c].pc = "idle"
  BY DEF NoneWorks
<1> QED
  BY <1>2, <1>3 DEF Alone

(* A request that does not suspend finds, if it is alone, nobody at work. *)
LEMMA QuietGoesOn ==
  ASSUME NoneWorks, UNCHANGED work, OwnFiles', HasFiles', current' # "none" /\ ~failed' => IsKept'
  PROVE  Alone'
BY DEF NoneWorks, Alone, OneWork, WorkKnows

LEMMA BeginMoves ==
  ASSUME SessionTyped, NEW c \in SessionCallers, NEW writes \in BOOLEAN, Begin(c, writes)
  PROVE  /\ work[c].pc = "idle" /\ begun' \in Nat /\ entangled' \in BOOLEAN
         /\ ~entangled' => ~entangled /\ ~(failed /\ writes) /\ NoneWorks
<1>1. work[c].pc = "idle" /\ begun' \in Nat
  BY DEF SessionTyped, Begin
<1>2. entangled' \in BOOLEAN /\ (~entangled' => ~entangled /\ ~(failed /\ writes) /\ ~Overlaps)
  BY Zenon DEF Begin
<1> QED
  BY <1>1, <1>2 DEF Overlaps, NoneWorks

-----------------------------------------------------------------------------
(* save() with its lock: the files of the active session are written. *)
LEMMA HasLockMoves ==
  ASSUME SessionTyped, Locks, NEW c \in SessionCallers, NEW t \in AfterSave, NEW k \in Contents,
         saveLock = "none", HasLock(c, t, k)
  PROVE  /\ Moves(c) /\ work'[c] = Opening(current, t) /\ saveLock' = c /\ Locks'
         /\ files' \in [Sessions -> Contents]
         /\ current \in Sessions =>
              files'[current] = k /\ \A s \in Sessions \ {current} : files'[s] = files[s]
<1>1. current \in Sessions \cup {"none"} /\ files \in [Sessions -> Contents]
  BY DEF SessionTyped
<1>2. Moves(c) /\ work'[c] = Opening(current, t) /\ saveLock' = c
  <2>1. Opening(current, t) \in SessionWork
    BY <1>1, WorkTyped
  <2>2. work' = [work EXCEPT ![c] = Opening(current, t)] /\ saveLock' = c
    BY DEF HasLock
  <2> QED
    BY <2>1, <2>2, WorkMoves
<1>3. LockOf(c)'
  BY <1>2, SessionTags DEF LockOf, Opening, AfterSave, AfterRead
<1>4. Locks'
  BY <1>2, <1>3, LocksGoOn
<1>5. files' = IF current \in Sessions THEN [files EXCEPT ![current] = k] ELSE files
  BY DEF HasLock
<1>6. /\ files' \in [Sessions -> Contents]
      /\ current \in Sessions =>
           files'[current] = k /\ \A s \in Sessions \ {current} : files'[s] = files[s]
  BY <1>1, <1>5
<1> QED
  BY <1>2, <1>4, <1>6

(* save() may find its lock taken, but never when nobody else works. *)
LEMMA EnterSaveMoves ==
  ASSUME SessionTyped, Locks, NEW c \in SessionCallers, work[c].pc = "idle",
         NEW t \in AfterSave, NEW k \in Contents, EnterSave(c, t, k)
  PROVE  /\ Moves(c) /\ Locks'
         /\ files' \in [Sessions -> Contents] /\ saveLock' \in SessionCallers \cup {"none"}
         /\ NoneWorks =>
              /\ work'[c] = Opening(current, t)
              /\ current \in Sessions =>
                   files'[current] = k /\ \A s \in Sessions \ {current} : files'[s] = files[s]
<1>1. CASE saveLock = "none"
  <2>1. HasLock(c, t, k)
    BY <1>1 DEF EnterSave
  <2> QED
    BY <1>1, <2>1, HasLockMoves
<1>2. CASE saveLock # "none"
  <2> DEFINE w == [NoWork EXCEPT !.pc = "locked out", !.then = t]
  <2>1. w \in SessionWork /\ w.pc = "locked out" /\ w.then = t
    BY WorkTyped
  <2>2. work' = [work EXCEPT ![c] = w] /\ UNCHANGED <<files, saveLock>>
    BY <1>2 DEF EnterSave
  <2> HIDE DEF w
  <2>3. Moves(c) /\ work'[c].pc = "locked out" /\ work'[c].then = t
    BY <2>1, <2>2, WorkMoves
  <2>4. saveLock # c
    BY DEF Locks, LockOf
  <2>5. LockOf(c)'
    BY <2>2, <2>3, <2>4, SessionTags DEF LockOf, AfterSave, AfterRead
  <2>6. Locks'
    BY <2>2, <2>3, <2>5, LocksGoOn
  <2>7. ~NoneWorks
    BY <1>2 DEF SessionTyped, Locks, LockOf, NoneWorks
  <2> QED
    BY <2>2, <2>3, <2>6, <2>7 DEF SessionTyped
<1> QED
  BY <1>1, <1>2

(* What the save of an operation that is alone leaves behind. *)
LEMMA SaveIsAlone ==
  ASSUME SessionTyped, Locks, NEW c \in SessionCallers, work[c].pc = "idle", Alone, NoneWorks,
         NEW t \in AfterSave, t \in Sessions => files[t] # NoFiles,
         NEW k \in Contents, EnterSave(c, t, k), k.of = current, memory' = k,
         current # "none", ~failed, UNCHANGED <<current, engine, last, crawls, failed>>
  PROVE  Alone'
<1>1. /\ Moves(c) /\ work'[c] = Opening(current, t)
      /\ files'[current] = k /\ \A s \in Sessions \ {current} : files'[s] = files[s]
  BY EnterSaveMoves DEF SessionTyped
<1>2. IsKept /\ OwnFiles /\ OneWork /\ current \in Sessions /\ k # NoFiles
  BY FilesTyped DEF Alone, SessionTyped
<1>3. OwnFiles' /\ HasFiles'
  BY <1>1, <1>2 DEF OwnFiles, HasFiles
<1>4. Settled'
  BY <1>2 DEF IsKept, Settled
<1>5. \A s \in Sessions : files[s] # NoFiles => files'[s] # NoFiles
  BY <1>1, <1>2
<1>6. WorkKnows(c)'
  BY <1>1, <1>4, <1>5, SessionTags DEF WorkKnows, Opening, AfterSave, AfterRead
<1>7. work'[c].pc # "idle"
  BY <1>1 DEF Opening
<1> QED
  BY <1>1, <1>2, <1>3, <1>6, <1>7, AloneGoesOn

(* save(), by a request or by the auto-save loop *)
LEMMA SaveInvariant ==
  ASSUME SessionIInv, NEW c \in SessionCallers, Save(c)
  PROVE  SessionIInv'
<1>1. /\ SessionTyped /\ Locks /\ work[c].pc = "idle" /\ Begin(c, TRUE) /\ current # "none"
      /\ EnterSave(c, "end", memory)
      /\ UNCHANGED <<current, memory, unsaved, engine, last, crawls, failed>>
  BY DEF SessionIInv, Save, Begin
<1>2. "end" \in AfterSave /\ memory \in Contents
  BY <1>1 DEF AfterSave, SessionTyped
<1>3. /\ Moves(c) /\ Locks' /\ files' \in [Sessions -> Contents]
      /\ saveLock' \in SessionCallers \cup {"none"}
  BY <1>1, <1>2, EnterSaveMoves
<1>4. /\ begun' \in Nat /\ entangled' \in BOOLEAN
      /\ ~entangled' => ~entangled /\ ~failed /\ NoneWorks
  BY <1>1, BeginMoves
<1>5. SessionTyped'
  BY <1>1, <1>3, <1>4 DEF SessionTyped, Moves
<1>6. ASSUME ~entangled' PROVE Alone'
  <2>1. Alone /\ NoneWorks /\ ~failed /\ memory.of = current
    BY <1>1, <1>4, <1>6 DEF SessionIInv, Alone, IsKept, Settled
  <2> QED
    BY <1>1, <1>2, <2>1, SaveIsAlone, SessionTags
<1> QED
  BY <1>3, <1>5, <1>6 DEF SessionIInv

(* save() gets the lock another one has left: two entangled.              *)
LEMMA AcquireInvariant ==
  ASSUME SessionIInv, NEW c \in SessionCallers, Acquire(c)
  PROVE  SessionIInv'
<1>1. /\ SessionTyped /\ Locks /\ work[c].pc = "locked out" /\ saveLock = "none"
      /\ HasLock(c, work[c].then, memory)
      /\ UNCHANGED <<current, memory, unsaved, engine, last, crawls, begun, failed, entangled>>
  BY DEF SessionIInv, Acquire
<1>2. PICK t \in AfterSave : t = work[c].then
  BY <1>1 DEF Locks, LockOf
<1>3. memory \in Contents /\ HasLock(c, t, memory)
  BY <1>1, <1>2 DEF SessionTyped
<1>4. Moves(c) /\ Locks' /\ files' \in [Sessions -> Contents] /\ saveLock' = c
  BY <1>1, <1>3, HasLockMoves
<1>5. SessionTyped'
  BY <1>1, <1>4 DEF SessionTyped, Moves
<1>6. entangled'
  BY <1>1 DEF SessionIInv, Alone, WorkKnows
<1> QED
  BY <1>4, <1>5, <1>6 DEF SessionIInv

(* update_scope(): the scope it saves is the one it has set. *)
LEMMA UpdateScopeInvariant ==
  ASSUME SessionIInv, NEW c \in SessionCallers, NEW v \in Scopes, UpdateScope(c, v)
  PROVE  SessionIInv'
<1>1. /\ SessionTyped /\ Locks /\ work[c].pc = "idle" /\ Begin(c, current # "none")
      /\ memory' = [scope |-> v, of |-> current]
      /\ UNCHANGED <<current, unsaved, engine, last, crawls>>
  BY DEF SessionIInv, UpdateScope, Begin
<1>2. PICK k \in Contents : k = memory' /\ k.of = current
  BY <1>1 DEF SessionTyped, Contents
<1>3. /\ begun' \in Nat /\ entangled' \in BOOLEAN
      /\ ~entangled' => ~entangled /\ ~(failed /\ current # "none") /\ NoneWorks
  <2>1. (current # "none") \in BOOLEAN
    OBVIOUS
  <2> QED
    BY <1>1, <2>1, BeginMoves
<1>4. CASE /\ current = "none" \/ failed'
           /\ UNCHANGED <<files, saveLock, work>> /\ failed' \in BOOLEAN
  <2>1. SessionTyped'
    BY <1>1, <1>2, <1>3, <1>4 DEF SessionTyped
  <2>2. Locks'
    BY <1>1, <1>4 DEF Locks, LockOf
  <2>3. ASSUME ~entangled' PROVE Alone'
    <3>1. Alone /\ NoneWorks
      BY <1>3, <2>3 DEF SessionIInv
    <3> QED
      BY <1>1, <1>4, <3>1 DEF Alone, OneWork, OwnFiles, HasFiles, WorkKnows, NoneWorks
  <2> QED
    BY <2>1, <2>2, <2>3 DEF SessionIInv
<1>5. CASE current # "none" /\ EnterSave(c, "end", memory') /\ UNCHANGED failed
  <2>1. EnterSave(c, "end", k) /\ "end" \in AfterSave
    BY <1>2, <1>5 DEF AfterSave
  <2>2. /\ Moves(c) /\ Locks' /\ files' \in [Sessions -> Contents]
        /\ saveLock' \in SessionCallers \cup {"none"}
    BY <1>1, <2>1, EnterSaveMoves
  <2>3. SessionTyped'
    BY <1>1, <1>2, <1>3, <1>5, <2>2 DEF SessionTyped, Moves
  <2>4. ASSUME ~entangled' PROVE Alone'
    <3>1. Alone /\ NoneWorks /\ ~failed
      BY <1>3, <1>5, <2>4 DEF SessionIInv
    <3> QED
      BY <1>1, <1>2, <1>5, <2>1, <3>1, SaveIsAlone, SessionTags
  <2> QED
    BY <2>2, <2>3, <2>4 DEF SessionIInv
<1>6. \/ current # "none" /\ EnterSave(c, "end", memory') /\ UNCHANGED failed
      \/ /\ current = "none" \/ failed'
         /\ UNCHANGED <<files, saveLock, work>> /\ failed' \in BOOLEAN
  BY <1>1 DEF UpdateScope, SessionTyped
<1> QED
  BY <1>4, <1>5, <1>6

-----------------------------------------------------------------------------
(* create() and load() *)
LEMMA CreateInvariant ==
  ASSUME SessionIInv, NEW c \in SessionCallers, NEW s \in Sessions, Create(c, s)
  PROVE  SessionIInv'
<1>1. /\ SessionTyped /\ Locks /\ Begin(c, FALSE) /\ files[s] = NoFiles
      /\ files' = [files EXCEPT ![s] = Fresh(s)]
      /\ UNCHANGED <<engine, saveLock, last, crawls, failed>>
  BY DEF SessionIInv, Create
<1>2. /\ work[c].pc = "idle" /\ begun' \in Nat /\ entangled' \in BOOLEAN
      /\ ~entangled' => ~entangled /\ NoneWorks
  BY <1>1, BeginMoves
<1>4. Fresh(s) \in Contents /\ Fresh(s).of = s /\ Fresh(s) # NoFiles
  BY FilesTyped
<1>5. /\ files' \in [Sessions -> Contents] /\ files'[s] = Fresh(s)
      /\ \A r \in Sessions \ {s} : files'[r] = files[r]
  BY <1>1, <1>4 DEF SessionTyped
<1>6. CASE UNCHANGED <<current, memory, unsaved, work>>
  <2>1. SessionTyped' /\ Locks'
    BY <1>1, <1>2, <1>5, <1>6 DEF SessionTyped, Locks, LockOf
  <2>2. ASSUME ~entangled' PROVE Alone'
    <3>1. Alone /\ NoneWorks
      BY <1>2, <2>2 DEF SessionIInv
    <3>2. OwnFiles' /\ HasFiles'
      BY <1>1, <1>4, <1>5, <1>6, <3>1 DEF Alone, OwnFiles, HasFiles, SessionTyped
    <3>3. ASSUME current' # "none", ~failed' PROVE IsKept'
      <4>1. current \in Sessions \ {s} /\ IsKept
        BY <1>1, <1>6, <3>1, <3>3 DEF Alone, HasFiles, SessionTyped
      <4> QED
        BY <1>1, <1>5, <1>6, <4>1 DEF IsKept, Settled
    <3> QED
      BY <1>6, <3>1, <3>2, <3>3, QuietGoesOn
  <2> QED
    BY <2>1, <2>2 DEF SessionIInv
<1>7. CASE /\ current' = s /\ memory' = Fresh(s) /\ unsaved' = FALSE
           /\ work' = [work EXCEPT ![c] = Opening(s, "created")]
  <2>1. Moves(c) /\ work'[c] = Opening(s, "created")
    BY <1>1, <1>7, WorkTyped, WorkMoves DEF AfterRead
  <2>2. SessionTyped'
    BY <1>1, <1>2, <1>4, <1>5, <1>7, <2>1 DEF SessionTyped, Moves
  <2>3. saveLock # c
    BY <1>1, <1>2 DEF Locks, LockOf
  <2>4. LockOf(c)'
    <3>1. work'[c].pc = "opening" /\ work'[c].then = "created" /\ work'[c].session = s
      BY <2>1 DEF Opening
    <3>2. saveLock' # c /\ "created" \notin AfterSave
      BY <1>1, <2>3, SessionTags DEF AfterSave
    <3> QED
      BY <3>1, <3>2 DEF LockOf
  <2>5. Locks'
    BY <1>1, <2>1, <2>4, LocksGoOn
  <2>6. ASSUME ~entangled' PROVE Alone'
    <3>1. OneWork /\ OwnFiles /\ NoneWorks
      BY <1>2, <2>6 DEF SessionIInv, Alone
    <3>2. OwnFiles' /\ HasFiles'
      BY <1>1, <1>4, <1>5, <1>7, <3>1 DEF OwnFiles, HasFiles
    <3>3. WorkKnows(c)'
      BY <1>1, <1>5, <1>7, <2>1, SessionTags DEF WorkKnows, Opening, AfterSave
    <3>4. work'[c].pc # "idle"
      BY <2>1 DEF Opening
    <3> QED
      BY <2>1, <3>1, <3>2, <3>3, <3>4, AloneGoesOn
  <2> QED
    BY <2>2, <2>5, <2>6 DEF SessionIInv
<1> QED
  BY <1>6, <1>7 DEF Create

(* The session is another from here on; its files are yet to be read. *)
LEMMA SwitchMoves ==
  ASSUME SessionTyped, Locks, NEW c \in SessionCallers, NEW s \in Sessions, Switch(c, s),
         saveLock' # c, saveLock' = saveLock \/ {saveLock, saveLock'} \subseteq {c, "none"},
         UNCHANGED <<files, failed>>
  PROVE  /\ Moves(c) /\ Locks' /\ current' = s
         /\ Alone /\ files[s] # NoFiles /\ (work[c].pc # "idle" \/ NoneWorks) => Alone'
<1>1. current' = s /\ Moves(c) /\ work'[c] = Opening(s, "read")
  BY WorkTyped, WorkMoves DEF Switch
<1>2. LockOf(c)'
  BY <1>1, SessionTags DEF LockOf, Opening, AfterSave, AfterRead
<1>3. Locks'
  BY <1>1, <1>2, LocksGoOn
<1>4. ASSUME Alone, files[s] # NoFiles, work[c].pc # "idle" \/ NoneWorks
      PROVE  Alone'
  <2>1. WorkKnows(c)'
    BY <1>1, SessionTags DEF WorkKnows, Opening, AfterSave, AfterRead
  <2>2. OwnFiles' /\ HasFiles' /\ OneWork /\ work'[c].pc # "idle"
    BY <1>1, <1>4 DEF Alone, OwnFiles, HasFiles, Opening
  <2> QED
    BY <1>1, <1>4, <2>1, <2>2, AloneGoesOn
<1> QED
  BY <1>1, <1>3, <1>4

LEMMA LoadInvariant ==
  ASSUME SessionIInv, NEW c \in SessionCallers, NEW s \in Sessions, Load(c, s)
  PROVE  SessionIInv'
<1>1. /\ SessionTyped /\ Locks /\ Begin(c, unsaved /\ current # "none") /\ files[s] # NoFiles
      /\ UNCHANGED <<memory, unsaved, engine, last, crawls, failed>>
  BY DEF SessionIInv, Load
<1>2. /\ work[c].pc = "idle" /\ begun' \in Nat /\ entangled' \in BOOLEAN
      /\ ~entangled' => ~entangled /\ ~(failed /\ unsaved /\ current # "none") /\ NoneWorks
  <2>1. (unsaved /\ current # "none") \in BOOLEAN
    OBVIOUS
  <2> QED
    BY <1>1, <2>1, BeginMoves
<1>3. CASE unsaved /\ current # "none"
  <2>1. EnterSave(c, s, memory) /\ current' = current /\ s \in AfterSave /\ memory \in Contents
    BY <1>1, <1>3 DEF Load, AfterSave, SessionTyped
  <2>2. /\ Moves(c) /\ Locks' /\ files' \in [Sessions -> Contents]
        /\ saveLock' \in SessionCallers \cup {"none"}
    BY <1>1, <1>2, <2>1, EnterSaveMoves
  <2>3. SessionTyped'
    BY <1>1, <1>2, <2>1, <2>2 DEF SessionTyped, Moves
  <2>4. ASSUME ~entangled' PROVE Alone'
    <3>1. Alone /\ NoneWorks /\ ~failed /\ memory.of = current
      BY <1>2, <1>3, <2>4 DEF SessionIInv, Alone, IsKept, Settled
    <3> QED
      BY <1>1, <1>2, <1>3, <2>1, <3>1, SaveIsAlone
  <2> QED
    BY <2>2, <2>3, <2>4 DEF SessionIInv
<1>4. CASE ~(unsaved /\ current # "none")
  <2>1. Switch(c, s) /\ UNCHANGED <<files, saveLock>>
    BY <1>4 DEF Load
  <2>2. saveLock # c
    BY <1>1, <1>2 DEF Locks, LockOf
  <2>3. /\ Moves(c) /\ Locks' /\ current' = s
        /\ Alone /\ files[s] # NoFiles /\ (work[c].pc # "idle" \/ NoneWorks) => Alone'
    BY <1>1, <2>1, <2>2, SwitchMoves
  <2>4. SessionTyped'
    BY <1>1, <1>2, <2>1, <2>3 DEF SessionTyped, Moves
  <2> QED
    BY <1>1, <1>2, <2>3, <2>4 DEF SessionIInv
<1> QED
  BY <1>3, <1>4

(* The end of a save; a load that waited for it goes on. *)
LEMMA SavedInvariant ==
  ASSUME SessionIInv, NEW c \in SessionCallers, Saved(c)
  PROVE  SessionIInv'
<1>1. /\ SessionTyped /\ Locks /\ Opened(c) /\ saveLock = c
      /\ unsaved' = FALSE /\ saveLock' = "none"
      /\ UNCHANGED <<memory, files, engine, last, crawls, begun, failed, entangled>>
  BY DEF SessionIInv, Saved
<1>2. work[c].pc = "opening" /\ work[c].then \in AfterSave
  BY <1>1 DEF Locks, LockOf
<1>3. CASE work[c].then = "end"
  <2>1. work' = [work EXCEPT ![c] = NoWork] /\ current' = current
    BY <1>3 DEF Saved
  <2>2. Moves(c) /\ work'[c] = NoWork
    BY <1>1, <2>1, WorkTyped, WorkMoves
  <2>3. LockOf(c)'
    BY <1>1, <2>2, SessionTags DEF LockOf, NoWork, AfterSave, AfterRead
  <2>4. Locks'
    BY <1>1, <2>2, <2>3, LocksGoOn
  <2>5. SessionTyped'
    BY <1>1, <2>1, <2>2 DEF SessionTyped, Moves
  <2>6. ASSUME ~entangled' PROVE Alone'
    <3>1. OneWork /\ OwnFiles /\ HasFiles /\ Settled /\ memory = files[current]
      BY <1>1, <1>2, <2>6 DEF SessionIInv, Alone, WorkKnows
    <3>2. OwnFiles' /\ HasFiles' /\ IsKept'
      BY <1>1, <2>1, <3>1 DEF OwnFiles, HasFiles, IsKept, Settled
    <3>3. WorkKnows(c)'
      BY <2>2 DEF WorkKnows, NoWork
    <3> QED
      BY <1>2, <2>2, <3>1, <3>2, <3>3, AloneGoesOn
  <2> QED
    BY <2>4, <2>5, <2>6 DEF SessionIInv
<1>4. CASE work[c].then # "end"
  <2>1. PICK s \in Sessions : s = work[c].then /\ Switch(c, s)
    BY <1>2, <1>4 DEF Saved, AfterSave
  <2>2. /\ Moves(c) /\ Locks' /\ current' = s
        /\ Alone /\ files[s] # NoFiles /\ (work[c].pc # "idle" \/ NoneWorks) => Alone'
    BY <1>1, <2>1, SwitchMoves, SessionTags
  <2>3. SessionTyped'
    BY <1>1, <2>2 DEF SessionTyped, Moves
  <2>4. ASSUME ~entangled' PROVE Alone'
    <3>1. Alone /\ files[s] # NoFiles
      BY <1>1, <1>2, <2>1, <2>4 DEF SessionIInv, Alone, WorkKnows
    <3> QED
      BY <1>2, <2>2, <3>1
  <2> QED
    BY <2>2, <2>3, <2>4 DEF SessionIInv
<1> QED
  BY <1>3, <1>4

-----------------------------------------------------------------------------
(* _point_engines() opens another database of the session. *)
LEMMA OpenInvariant ==
  ASSUME SessionIInv, NEW c \in SessionCallers, Open(c)
  PROVE  SessionIInv'
<1> DEFINE s == work[c].session
           n == work[c].next
<1>1. /\ SessionTyped /\ Locks /\ work[c].pc = "opening" /\ n <= Len(SessionDatabases)
      /\ engine' = [engine EXCEPT ![n] = s]
      /\ files' = IF s \in Sessions /\ files[s] = NoFiles
                    THEN [files EXCEPT ![s] = Fresh(s)] ELSE files
      /\ work' = [work EXCEPT ![c].next = @ + 1]
      /\ UNCHANGED <<current, memory, unsaved, saveLock, last, crawls, begun, failed, entangled>>
  BY DEF SessionIInv, Open
<1>2. work[c] \in SessionWork /\ s \in Sessions \cup {"none"} /\ n \in 1 .. 5 /\ n + 1 \in 1 .. 6
  <2>1. work[c] \in SessionWork
    BY <1>1 DEF SessionTyped
  <2>2. s \in Sessions \cup {"none"} /\ n \in 1 .. 6
    BY <2>1 DEF SessionWork
  <2>3. n <= 5
    BY <1>1, FiveDatabases
  <2> QED
    BY <2>1, <2>2, <2>3
<1>3. /\ Moves(c)
      /\ work'[c].pc = "opening" /\ work'[c].next = n + 1
      /\ work'[c].then = work[c].then /\ work'[c].session = s
  BY <1>1, <1>2 DEF SessionTyped, SessionWork, Moves
<1>4. LockOf(c)'
  BY <1>1, <1>3 DEF Locks, LockOf
<1>5. Locks'
  BY <1>1, <1>3, <1>4, LocksGoOn
<1>6. /\ engine' \in [1 .. 5 -> Sessions \cup {"none"}] /\ engine'[n] = s
      /\ \A i \in 1 .. 5 : i # n => engine'[i] = engine[i]
  BY <1>1, <1>2 DEF SessionTyped
<1>7. files' \in [Sessions -> Contents]
  BY <1>1, <1>2, FilesTyped DEF SessionTyped
<1>8. SessionTyped'
  BY <1>1, <1>3, <1>6, <1>7 DEF SessionTyped, Moves
<1>9. ASSUME ~entangled' PROVE Alone'
  <2>1. /\ OneWork /\ OwnFiles /\ HasFiles /\ WorkKnows(c)
        /\ current # "none" /\ s = current /\ files[s] # NoFiles
    BY <1>1, <1>9 DEF SessionIInv, Alone, WorkKnows, HasFiles
  <2>2. files' = files
    BY <1>1, <2>1
  <2>3. OwnFiles' /\ HasFiles'
    BY <1>1, <2>1, <2>2 DEF OwnFiles, HasFiles
  <2>4. \A i \in 1 .. 5 : i < n + 1 => engine'[i] = current
    <3> SUFFICES ASSUME NEW i \in 1 .. 5, i < n + 1 PROVE engine'[i] = current
      OBVIOUS
    <3>1. i < n \/ i = n
      BY <1>2
    <3> QED
      BY <1>1, <1>6, <2>1, <3>1 DEF WorkKnows
  <2>5. Settled => Settled'
    BY <1>1, <1>6, <2>1 DEF Settled
  <2>6. work[c].then \notin {"modules", "change"}
    BY <1>2, <2>1, <1>1 DEF WorkKnows
  <2>7. WorkKnows(c)'
    BY <1>1, <1>3, <2>1, <2>2, <2>4, <2>5, <2>6 DEF WorkKnows
  <2> QED
    BY <1>1, <1>3, <2>1, <2>3, <2>7, AloneGoesOn
<1> QED
  BY <1>5, <1>8, <1>9 DEF SessionIInv

(* What follows the databases in a load or a create, until it is over. *)
LEMMA AfterOpening ==
  ASSUME SessionIInv, NEW c \in SessionCallers,
         \/ ReadFiles(c) \/ ModulesApplied(c) \/ ProxyRestarted(c) \/ ChangeNotified(c)
  PROVE  SessionIInv'
<1>1. /\ SessionTyped /\ Locks /\ UNCHANGED <<current, files, engine, saveLock, begun, entangled>>
      /\ work[c] \in SessionWork /\ work[c].then \in {"read"} \cup AfterRead
  BY DEF SessionIInv, SessionTyped, ReadFiles, ModulesApplied, ProxyRestarted, ChangeNotified,
         AfterRead
<1>2. /\ work[c].session \in Sessions /\ work[c].pc = "opening" /\ saveLock # c
      /\ work[c].next \in 1 .. 6
  BY <1>1, SessionTags DEF Locks, LockOf, AfterSave, AfterRead, SessionWork
<1>3. Opened(c) => work[c].next = 6
  BY <1>2, FiveDatabases DEF Opened
<1>4. CASE ReadFiles(c)
  <2>1. /\ memory' = IF files[work[c].session] = NoFiles
                      THEN Fresh(work[c].session) ELSE files[work[c].session]
        /\ work' = [work EXCEPT ![c].then = "modules"]
        /\ UNCHANGED <<unsaved, last, crawls, failed>> /\ Opened(c)
    BY <1>4 DEF ReadFiles
  <2>2. /\ Moves(c) /\ work'[c].pc = "opening" /\ work'[c].then = "modules"
        /\ work'[c].session = work[c].session /\ work'[c].next = work[c].next
    BY <1>1, <1>2, <2>1 DEF SessionTyped, SessionWork, Moves, AfterRead
  <2>3. memory' \in Contents
    BY <1>1, <1>2, <2>1, FilesTyped DEF SessionTyped
  <2>4. SessionTyped'
    BY <1>1, <2>1, <2>2, <2>3 DEF SessionTyped, Moves
  <2>5. LockOf(c)'
    BY <1>1, <1>2, <2>2, SessionTags DEF LockOf, AfterSave, AfterRead
  <2>6. Locks'
    BY <1>1, <2>2, <2>5, LocksGoOn
  <2>7. ASSUME ~entangled' PROVE Alone'
    <3>1. OneWork /\ OwnFiles /\ HasFiles /\ WorkKnows(c)
      BY <1>1, <2>7 DEF SessionIInv, Alone
    <3>2. OwnFiles' /\ HasFiles'
      BY <1>1, <3>1 DEF OwnFiles, HasFiles
    <3>3. WorkKnows(c)'
      BY <1>1, <1>2, <1>3, <2>1, <2>2, <3>1, SessionTags
         DEF WorkKnows, AfterSave, AfterRead, HasFiles
    <3> QED
      BY <1>2, <2>2, <3>1, <3>2, <3>3, AloneGoesOn
  <2> QED
    BY <2>4, <2>6, <2>7 DEF SessionIInv
<1>5. CASE ModulesApplied(c) \/ ProxyRestarted(c)
  <2>1. PICK t \in {"created", "change"} : work' = [work EXCEPT ![c].then = t]
    BY <1>5 DEF ModulesApplied, ProxyRestarted
  <2>2. /\ unsaved' \in BOOLEAN /\ last' \in Sessions \cup {"none"}
        /\ UNCHANGED <<memory, crawls, failed>>
    BY <1>1, <1>2, <1>5 DEF ModulesApplied, ProxyRestarted, SessionTyped
  <2>3. /\ Moves(c) /\ work'[c].pc = "opening" /\ work'[c].then = t
        /\ work'[c].session = work[c].session /\ work'[c].next = work[c].next
    BY <1>1, <1>2, <2>1 DEF SessionTyped, SessionWork, Moves, AfterRead
  <2>4. SessionTyped'
    BY <1>1, <2>2, <2>3 DEF SessionTyped, Moves
  <2>5. LockOf(c)'
    BY <1>1, <1>2, <2>3, SessionTags DEF LockOf, AfterSave, AfterRead
  <2>6. Locks'
    BY <1>1, <2>3, <2>5, LocksGoOn
  <2>7. t = "change" => last' = work[c].session /\ work[c].next = 6 /\ work[c].then = "created"
    <3>1. CASE ModulesApplied(c)
      <4>1. work' = [work EXCEPT ![c].then = "created"]
        BY <3>1 DEF ModulesApplied
      <4>2. work'[c].then = "created"
        BY <1>1, <4>1 DEF SessionTyped, SessionWork
      <4> QED
        BY <2>3, <4>2
    <3>2. CASE ProxyRestarted(c)
      BY <1>3, <3>2 DEF ProxyRestarted
    <3> QED
      BY <1>5, <3>1, <3>2
  <2>8. work[c].then \in AfterRead
    BY <1>5 DEF ModulesApplied, ProxyRestarted, AfterRead
  <2>9. ASSUME ~entangled' PROVE Alone'
    <3>1. OneWork /\ OwnFiles /\ HasFiles /\ WorkKnows(c)
      BY <1>1, <2>9 DEF SessionIInv, Alone
    <3>2. OwnFiles' /\ HasFiles'
      BY <1>1, <3>1 DEF OwnFiles, HasFiles
    <3>3. WorkKnows(c)'
      BY <1>1, <1>2, <2>2, <2>3, <2>7, <2>8, <3>1, SessionTags DEF WorkKnows, AfterSave, AfterRead
    <3> QED
      BY <1>2, <2>3, <3>1, <3>2, <3>3, AloneGoesOn
  <2> QED
    BY <2>4, <2>6, <2>9 DEF SessionIInv
<1>6. CASE ChangeNotified(c)
  <2>1. /\ crawls' \in {current, "none"} /\ work' = [work EXCEPT ![c] = NoWork]
        /\ UNCHANGED <<memory, unsaved, last>> /\ failed' = FALSE /\ work[c].then = "change"
    BY <1>6 DEF ChangeNotified
  <2>2. Moves(c) /\ work'[c] = NoWork
    BY <1>1, <2>1, WorkTyped, WorkMoves
  <2>3. SessionTyped'
    BY <1>1, <2>1, <2>2 DEF SessionTyped, Moves
  <2>4. LockOf(c)'
    BY <1>1, <1>2, <2>2, SessionTags DEF LockOf, NoWork, AfterSave, AfterRead
  <2>5. Locks'
    BY <1>1, <2>2, <2>4, LocksGoOn
  <2>6. ASSUME ~entangled' PROVE Alone'
    <3>1. /\ OneWork /\ OwnFiles /\ HasFiles /\ current \in Sessions
          /\ memory = files[current] /\ last = current
          /\ \A i \in 1 .. 5 : i < work[c].next => engine[i] = current
      BY <1>1, <1>2, <2>1, <2>6 DEF SessionIInv, Alone, WorkKnows, AfterRead
    <3>2. work[c].next = 6
      BY <1>3, <1>6 DEF ChangeNotified
    <3>3. IsKept'
      <4>1. \A i \in 1 .. 5 : i < work[c].next
        BY <3>2
      <4>2. \A i \in 1 .. 5 : engine'[i] = current'
        BY <1>1, <3>1, <4>1
      <4>3. files[current] # NoFiles /\ files[current].of = current
        BY <3>1, SessionTags DEF OwnFiles, HasFiles
      <4> QED
        BY <1>1, <2>1, <3>1, <4>2, <4>3 DEF IsKept, Settled
    <3>4. OwnFiles' /\ HasFiles' /\ WorkKnows(c)'
      BY <1>1, <2>2, <3>1 DEF OwnFiles, HasFiles, WorkKnows, NoWork
    <3> QED
      BY <1>2, <2>2, <3>1, <3>3, <3>4, AloneGoesOn
  <2> QED
    BY <2>3, <2>5, <2>6 DEF SessionIInv
<1> QED
  BY <1>4, <1>5, <1>6

(* An operation fails: what a save had under way is as it was before. *)
LEMMA FailsInvariant ==
  ASSUME SessionIInv, NEW c \in SessionCallers, Fails(c)
  PROVE  SessionIInv'
<1>1. /\ SessionTyped /\ Locks /\ work[c].pc # "idle"
      /\ saveLock' = IF saveLock = c THEN "none" ELSE saveLock
      /\ failed' = (failed \/ saveLock # c)
      /\ work' = [work EXCEPT ![c] = NoWork]
      /\ UNCHANGED <<current, memory, unsaved, files, engine, last, crawls, begun, entangled>>
  BY DEF SessionIInv, Fails
<1>2. Moves(c) /\ work'[c] = NoWork
  BY <1>1, WorkTyped, WorkMoves
<1>3. saveLock' \in SessionCallers \cup {"none"} /\ saveLock' # c
  BY <1>1, SessionTags DEF SessionTyped
<1>9. saveLock' = saveLock \/ {saveLock, saveLock'} \subseteq {c, "none"}
  BY <1>1
<1>4. failed' \in BOOLEAN
  BY <1>1 DEF SessionTyped
<1>5. SessionTyped'
  BY <1>1, <1>2, <1>3, <1>4 DEF SessionTyped, Moves
<1>6. LockOf(c)'
  BY <1>2, <1>3, SessionTags DEF LockOf, NoWork, AfterSave, AfterRead
<1>7. Locks'
  BY <1>1, <1>2, <1>6, <1>9, LocksGoOn
<1>8. ASSUME ~entangled' PROVE Alone'
  <2>1. OneWork /\ OwnFiles /\ HasFiles /\ WorkKnows(c)
    BY <1>1, <1>8 DEF SessionIInv, Alone
  <2>2. OwnFiles' /\ HasFiles' /\ WorkKnows(c)'
    BY <1>1, <1>2, <2>1 DEF OwnFiles, HasFiles, WorkKnows, NoWork
  <2>3. ASSUME ~failed' PROVE IsKept'
    <3>1. saveLock = c
      BY <1>1, <2>3
    <3>2. Settled /\ memory = files[current]
      BY <1>1, <2>1, <3>1 DEF Locks, LockOf, WorkKnows
    <3> QED
      BY <1>1, <3>2 DEF IsKept, Settled
  <2> QED
    BY <1>1, <1>2, <2>1, <2>2, <2>3, AloneGoesOn
<1> QED
  BY <1>5, <1>7, <1>8 DEF SessionIInv

-----------------------------------------------------------------------------
(* The requests that do not suspend. *)
LEMMA OverlapMoves ==
  ASSUME NEW x \in BOOLEAN, entangled' = (entangled \/ x \/ Overlaps)
  PROVE  entangled' \in BOOLEAN /\ (~entangled' => ~entangled /\ ~x /\ NoneWorks)
<1>1. entangled' \in BOOLEAN /\ (~entangled' => ~entangled /\ ~x /\ ~Overlaps)
  BY Zenon
<1> QED
  BY <1>1 DEF Overlaps, NoneWorks

LEMMA DeleteInvariant ==
  ASSUME SessionIInv, NEW s \in Sessions, Delete(s)
  PROVE  SessionIInv'
<1>1. /\ SessionTyped /\ Locks /\ begun' = begun + 1
      /\ files' = [files EXCEPT ![s] = NoFiles]
      /\ IF current = s THEN current' = "none" /\ unsaved' = FALSE
                        ELSE UNCHANGED <<current, unsaved>>
      /\ entangled' = (entangled \/ Overlaps)
      /\ UNCHANGED <<memory, engine, saveLock, work, last, crawls, failed>>
  BY DEF SessionIInv, Delete
<1>2. entangled' = (entangled \/ FALSE \/ Overlaps)
  BY <1>1
<1>3. entangled' \in BOOLEAN /\ (~entangled' => ~entangled /\ NoneWorks)
  BY <1>2, OverlapMoves
<1>4. /\ files' \in [Sessions -> Contents] /\ files'[s] = NoFiles
      /\ \A r \in Sessions \ {s} : files'[r] = files[r]
  BY <1>1, FilesTyped DEF SessionTyped
<1>5. SessionTyped'
  <2>1. current' \in Sessions \cup {"none"} /\ begun' \in Nat
    BY <1>1 DEF SessionTyped
  <2>2. unsaved' = FALSE \/ unsaved' = unsaved
    BY <1>1
  <2> QED
    BY <1>1, <1>3, <1>4, <2>1, <2>2 DEF SessionTyped
<1>6. Locks'
  BY <1>1 DEF Locks, LockOf
<1>7. ASSUME ~entangled' PROVE Alone'
  <2>1. Alone /\ NoneWorks
    BY <1>3, <1>7 DEF SessionIInv
  <2>2. OwnFiles' /\ HasFiles'
    BY <1>1, <1>4, <2>1 DEF Alone, OwnFiles, HasFiles, SessionTyped
  <2>3. ASSUME current' # "none", ~failed' PROVE IsKept'
    <3>1. current # s /\ current' = current /\ unsaved' = unsaved /\ current \in Sessions
      BY <1>1, <2>3 DEF SessionTyped
    <3> QED
      BY <1>1, <1>4, <2>1, <2>3, <3>1 DEF Alone, IsKept, Settled
  <2> QED
    BY <1>1, <2>1, <2>2, <2>3, QuietGoesOn
<1> QED
  BY <1>5, <1>6, <1>7 DEF SessionIInv

LEMMA RenameInvariant ==
  ASSUME SessionIInv, NEW old \in Sessions, NEW new \in Sessions, Rename(old, new)
  PROVE  SessionIInv'
<1> DEFINE Of(m) == IF m.of = old THEN [m EXCEPT !.of = new] ELSE m
<1>1. /\ SessionTyped /\ Locks /\ begun' = begun + 1
      /\ files[old] # NoFiles /\ files[new] = NoFiles
      /\ files' = [files EXCEPT ![new] = Of(files[old]), ![old] = NoFiles]
      /\ memory' = Of(memory)
      /\ current' = IF current = old THEN new ELSE current
      /\ entangled' = (entangled \/ current = old \/ Overlaps)
      /\ UNCHANGED <<unsaved, engine, saveLock, work, last, crawls, failed>>
  BY DEF SessionIInv, Rename
<1>2. entangled' \in BOOLEAN /\ (~entangled' => ~entangled /\ current # old /\ NoneWorks)
  <2>1. (current = old) \in BOOLEAN
    OBVIOUS
  <2> QED
    BY <1>1, <2>1, OverlapMoves
<1>3. \A m \in Contents : Of(m) \in Contents /\ (m.of = old => Of(m).of = new) /\ (m.of # old => Of(m) = m)
  BY DEF Contents
<1>4. memory \in Contents /\ files[old] \in Contents /\ files \in [Sessions -> Contents]
  BY <1>1 DEF SessionTyped
<1>5. PICK f \in Contents : f = Of(files[old]) /\ (files[old].of = old => f.of = new)
  BY <1>3, <1>4
<1> HIDE DEF Of
<1>6. /\ files' \in [Sessions -> Contents] /\ files'[old] = NoFiles /\ files'[new] = f
      /\ \A r \in Sessions \ {old, new} : files'[r] = files[r]
  <2>1. files' = [files EXCEPT ![new] = f, ![old] = NoFiles] /\ old # new /\ NoFiles \in Contents
    BY <1>1, <1>5, FilesTyped
  <2> QED
    BY <1>4, <2>1
<1>7. SessionTyped'
  <2>1. memory' \in Contents
    BY <1>1, <1>3, <1>4
  <2> QED
    BY <1>1, <1>2, <1>6, <2>1 DEF SessionTyped
<1>8. Locks'
  BY <1>1 DEF Locks, LockOf
<1>9. ASSUME ~entangled' PROVE Alone'
  <2>1. Alone /\ NoneWorks /\ current # old /\ current' = current
    BY <1>1, <1>2, <1>9 DEF SessionIInv
  <2>2. files[old].of = old
    BY <1>1, <2>1 DEF Alone, OwnFiles
  <2>3. OwnFiles'
    BY <1>5, <1>6, <2>1, <2>2 DEF Alone, OwnFiles
  <2>4. current # "none" => current \in Sessions \ {old, new}
    BY <1>1, <2>1 DEF SessionTyped, Alone, HasFiles
  <2>5. HasFiles'
    BY <1>6, <2>1, <2>4 DEF Alone, HasFiles
  <2>6. ASSUME current' # "none", ~failed' PROVE IsKept'
    <3>1. memory.of = current /\ memory' = memory
      BY <1>1, <1>3, <1>4, <2>1, <2>6 DEF Alone, IsKept, Settled
    <3> QED
      BY <1>1, <1>6, <2>1, <2>4, <2>6, <3>1 DEF Alone, IsKept, Settled
  <2> QED
    BY <1>1, <2>1, <2>3, <2>5, <2>6, QuietGoesOn
<1> QED
  BY <1>7, <1>8, <1>9 DEF SessionIInv

LEMMA MarkUnsavedInvariant ==
  ASSUME SessionIInv, MarkUnsaved
  PROVE  SessionIInv'
<1>1. /\ SessionTyped /\ Locks /\ unsaved' = TRUE
      /\ UNCHANGED <<current, memory, files, engine, saveLock, work, last, crawls, begun, failed, entangled>>
  BY DEF SessionIInv, MarkUnsaved
<1>2. SessionTyped' /\ Locks'
  BY <1>1 DEF SessionTyped, Locks, LockOf
<1>3. Alone => Alone'
  BY <1>1 DEF Alone, OneWork, OwnFiles, HasFiles, WorkKnows, NoneWorks, IsKept, Settled
<1> QED
  BY <1>1, <1>2, <1>3 DEF SessionIInv

(* The scope is written in memory, and left to the auto-save. *)
LEMMA ScopeWrittenInvariant ==
  ASSUME SessionIInv, NEW v \in Scopes, OutscopeFlow(v) \/ ImportScope(v)
  PROVE  SessionIInv'
<1>1. /\ SessionTyped /\ Locks
      /\ memory' = [memory EXCEPT !.scope = v] /\ unsaved' = TRUE
      /\ entangled' = (entangled \/ Overlaps)
      /\ UNCHANGED <<current, files, engine, saveLock, work, last, begun, failed>>
      /\ crawls' \in {crawls, current, "none"}
      /\ current # "none" /\ crawls \in {current, "none"} => crawls' \in {current, "none"}
  BY DEF SessionIInv, OutscopeFlow, ImportScope
<1>2. entangled' = (entangled \/ FALSE \/ Overlaps)
  BY <1>1
<1>3. entangled' \in BOOLEAN /\ (~entangled' => ~entangled /\ NoneWorks)
  BY <1>2, OverlapMoves
<1>4. memory' \in Contents /\ memory'.of = memory.of
  BY <1>1 DEF SessionTyped, Contents
<1>5. SessionTyped'
  BY <1>1, <1>3, <1>4 DEF SessionTyped
<1>6. Locks'
  BY <1>1 DEF Locks, LockOf
<1>7. ASSUME ~entangled' PROVE Alone'
  <2>1. Alone /\ NoneWorks
    BY <1>3, <1>7 DEF SessionIInv
  <2>2. OwnFiles' /\ HasFiles'
    BY <1>1, <2>1 DEF Alone, OwnFiles, HasFiles
  <2>3. current' # "none" /\ ~failed' => IsKept'
    BY <1>1, <1>4, <2>1 DEF Alone, IsKept, Settled
  <2> QED
    BY <1>1, <2>1, <2>2, <2>3, QuietGoesOn
<1> QED
  BY <1>5, <1>6, <1>7 DEF SessionIInv

(* The process ends, and another one loads the last session. *)
LEMMA RestartInvariant ==
  ASSUME SessionIInv, Restart
  PROVE  SessionIInv'
<1>1. PICK found : found = IF last # "none" /\ files[last] # NoFiles THEN last ELSE "none"
  OBVIOUS
<1>2. /\ SessionTyped /\ begun' = begun + 1 /\ current' = found
      /\ memory' = IF found = "none" THEN Fresh("none") ELSE files[found]
      /\ engine' = [i \in DOMAIN SessionDatabases |-> found]
      /\ crawls' \in {found, "none"}
      /\ unsaved' = FALSE /\ failed' = FALSE /\ saveLock' = "none"
      /\ work' = [c \in SessionCallers |-> NoWork]
      /\ UNCHANGED <<files, last, entangled>>
  BY <1>1 DEF SessionIInv, Restart
<1>3. found \in Sessions \cup {"none"} /\ (found # "none" => found = last /\ files[found] # NoFiles)
  BY <1>1, <1>2 DEF SessionTyped
<1>4. memory' \in Contents
  BY <1>2, <1>3, FilesTyped DEF SessionTyped
<1>5. engine' \in [1 .. 5 -> Sessions \cup {"none"}] /\ \A i \in 1 .. 5 : engine'[i] = found
  BY <1>2, <1>3, FiveDatabases
<1>6. work' \in [SessionCallers -> SessionWork] /\ \A c \in SessionCallers : work'[c] = NoWork
  BY <1>2, WorkTyped
<1>7. SessionTyped'
  <2>1. current' \in Sessions \cup {"none"} /\ crawls' \in Sessions \cup {"none"}
    BY <1>2, <1>3
  <2>2. /\ saveLock' = "none" /\ unsaved' = FALSE /\ failed' = FALSE /\ begun' = begun + 1
        /\ UNCHANGED <<files, last, entangled>> /\ SessionTyped
    BY <1>2
  <2>3. begun' \in Nat
    BY <2>2 DEF SessionTyped
  <2>4. unsaved' \in BOOLEAN /\ failed' \in BOOLEAN
    BY <2>2
  <2>5. entangled' \in BOOLEAN
    BY <2>2 DEF SessionTyped
  <2>6. files' \in [Sessions -> Contents] /\ last' \in Sessions \cup {"none"}
    BY <2>2 DEF SessionTyped
  <2> QED
    BY <1>4, <1>5, <1>6, <2>1, <2>2, <2>3, <2>4, <2>5, <2>6 DEF SessionTyped
<1>8. Locks'
  BY <1>2, <1>6, SessionTags DEF Locks, LockOf, NoWork, AfterSave, AfterRead
<1>9. ASSUME ~entangled' PROVE Alone'
  <2>1. OwnFiles
    BY <1>2, <1>9 DEF SessionIInv, Alone
  <2>2. OwnFiles' /\ HasFiles'
    BY <1>2, <1>3, <2>1 DEF OwnFiles, HasFiles
  <2>3. current' # "none" => IsKept'
    BY <1>2, <1>3, <1>5, <2>1, SessionTags DEF OwnFiles, IsKept, Settled
  <2>4. OneWork' /\ \A c \in SessionCallers : WorkKnows(c)'
    BY <1>6 DEF OneWork, WorkKnows, NoWork
  <2> QED
    BY <2>2, <2>3, <2>4 DEF Alone
<1> QED
  BY <1>7, <1>8, <1>9 DEF SessionIInv

LEMMA SessionInitInvariant == SessionInit => SessionIInv
<1> SUFFICES ASSUME SessionInit PROVE SessionIInv
  OBVIOUS
<1>1. work \in [SessionCallers -> SessionWork] /\ \A c \in SessionCallers : work[c] = NoWork
  BY WorkTyped DEF SessionInit
<1>2. engine \in [1 .. 5 -> Sessions \cup {"none"}] /\ memory \in Contents /\ files \in [Sessions -> Contents]
  <2>1. \A s \in Sessions : {NoFiles} \cup {Fresh(r) : r \in Sessions} \subseteq Contents
    BY FilesTyped
  <2>2. files \in [Sessions -> {NoFiles} \cup {Fresh(r) : r \in Sessions}]
    BY DEF SessionInit
  <2>3. files \in [Sessions -> Contents]
    BY <2>1, <2>2
  <2> QED
    BY <2>3, FiveDatabases, FilesTyped DEF SessionInit
<1>3. SessionTyped
  BY <1>1, <1>2 DEF SessionInit, SessionTyped
<1>6. OwnFiles
  BY FilesTyped DEF SessionInit, OwnFiles
<1>4. Locks
  BY <1>1, SessionTags DEF SessionInit, Locks, LockOf, NoWork, AfterSave, AfterRead
<1>5. Alone
  BY <1>1, <1>6 DEF SessionInit, Alone, OneWork, HasFiles, WorkKnows, NoWork
<1> QED
  BY <1>3, <1>4, <1>5 DEF SessionIInv

LEMMA SessionNextInvariant ==
  ASSUME SessionIInv, [SessionNext]_sessionVars
  PROVE  SessionIInv'
<1>1. CASE SessionNext
  <2>1. ASSUME NEW c \in SessionCallers,
               \/ \E s \in Sessions : Create(c, s) \/ Load(c, s)
               \/ \E scope \in Scopes : UpdateScope(c, scope)
               \/ Save(c) \/ AutoSave(c) \/ Acquire(c) \/ Open(c) \/ Saved(c)
               \/ ReadFiles(c) \/ ModulesApplied(c) \/ ProxyRestarted(c) \/ ChangeNotified(c) \/ Fails(c)
        PROVE  SessionIInv'
    BY <2>1, CreateInvariant, LoadInvariant, UpdateScopeInvariant, SaveInvariant, AcquireInvariant,
       OpenInvariant, SavedInvariant, AfterOpening, FailsInvariant DEF AutoSave
  <2>2. ASSUME NEW s \in Sessions, Delete(s) \/ \E t \in Sessions : Rename(s, t)
        PROVE  SessionIInv'
    BY <2>2, DeleteInvariant, RenameInvariant
  <2> QED
    BY <1>1, <2>1, <2>2, MarkUnsavedInvariant, RestartInvariant, ScopeWrittenInvariant
       DEF SessionNext
<1>2. CASE UNCHANGED sessionVars
  BY ZenonT(30), <1>2
  DEF sessionVars, SessionIInv, SessionTyped, Locks, LockOf, Alone, OneWork, OwnFiles,
              HasFiles, WorkKnows, NoneWorks, IsKept, Settled
<1> QED
  BY <1>1, <1>2

LEMMA SessionInvariant == SessionSpec => []SessionIInv
BY SessionInitInvariant, SessionNextInvariant, PTL DEF SessionSpec

(* The active session, the databases that are open, the files of each and   *)
(* what each request does hold values of their types.                      *)
THEOREM SessionTypeCorrect == SessionSpec => []SessionTypeOK
<1>1. SessionIInv => SessionTypeOK
  <2> SUFFICES ASSUME SessionTyped PROVE SessionTypeOK
    BY DEF SessionIInv
  <2>1. \A s \in Sessions : files[s].scope \in Scopes \cup {"none", "absent"}
    BY DEF SessionTyped, Contents
  <2>2. \A c \in SessionCallers :
          /\ work[c].pc \in {"idle", "locked out", "opening"}
          /\ work[c].next \in 1 .. Len(SessionDatabases) + 1
    <3> SUFFICES ASSUME NEW c \in SessionCallers
                 PROVE  /\ work[c].pc \in {"idle", "locked out", "opening"}
                        /\ work[c].next \in 1 .. Len(SessionDatabases) + 1
      OBVIOUS
    <3>1. work[c] \in SessionWork
      BY DEF SessionTyped
    <3>2. 1 .. Len(SessionDatabases) + 1 = 1 .. 6
      BY FiveDatabases
    <3> QED
      BY <3>1, <3>2 DEF SessionWork
  <2>3. engine \in [DOMAIN SessionDatabases -> Sessions \cup {"none"}]
    BY FiveDatabases DEF SessionTyped
  <2> QED
    BY <2>1, <2>2, <2>3 DEF SessionTyped, SessionTypeOK
<1> QED
  BY <1>1, SessionInvariant, PTL

(* However many sessions are created, loaded, saved, renamed, deleted and   *)
(* restarted on, and whichever of these fail in the middle, as long as no   *)
(* two overlap and no session is written after a failure: no session's      *)
(* files are another's, and whenever the manager is idle and the last       *)
(* create, load or start went through, the five databases, the scope in     *)
(* memory, the crawler worker and last_session are all those of the active  *)
(* session, and nothing of it is lost that the next save would not write.   *)
THEOREM SessionsStayApart == SessionSpec => []OneSessionAtATime
<1>1. SessionIInv => OneSessionAtATime
  <2> SUFFICES ASSUME SessionTyped, Alone
               PROVE  /\ \A s \in Sessions : files[s] = NoFiles \/ files[s].of = s
                      /\ NoneWorks /\ ~failed /\ current # "none" =>
                           /\ \A i \in DOMAIN engine : engine[i] = current
                           /\ memory.of = current /\ (unsaved \/ memory = files[current])
                           /\ crawls \in {current, "none"} /\ last = current
    BY DEF SessionIInv, OneSessionAtATime, NoneWorks
  <2>1. DOMAIN engine = 1 .. 5
    BY DEF SessionTyped
  <2> QED
    BY <2>1 DEF Alone, OwnFiles, IsKept, Settled
<1> QED
  BY <1>1, SessionInvariant, PTL

-----------------------------------------------------------------------------
(* The bridge between two processes (EventBridge). *)

(* What the choice of a queue looks at: whether IMPORTANT has data, and how *)
(* often the lower queues were passed over.                                *)
AgesTyped ==
  /\ DOMAIN queue = QosClass
  /\ {"items", "retry"} \subseteq DOMAIN queue["important"]
  /\ queue["important"].items \in Seq(QosMessage)
  /\ published \in Seq(QosMessage)
  /\ starve \in [Lower -> Nat] /\ bypassed \in [Lower -> Nat]

Consuming == consumer \in {"loop", "sleeping", "waiting", "draining"}

(* IMPORTANT is passed over only while it has data, each time counts for    *)
(* its age, and a consumer that sleeps has left nothing behind.            *)
AgeCoversBypass ==
  Consuming =>
    /\ bypassed["important"] <= starve["important"]
    /\ bypassed["important"] > 0 => HasData(queue["important"])
    /\ consumer = "sleeping" => bypassed["important"] = 0

BridgeIInv == AgesTyped /\ AgeCoversBypass /\ ImportantIsServed

(* What is put into the IMPORTANT queue leaves it with data. *)
LEMMA PutKeepsData ==
  ASSUME NEW q, {"items", "retry"} \subseteq DOMAIN q, q.items \in Seq(QosMessage),
         NEW m \in QosMessage, NEW size \in Nat
  PROVE  LET p == Put("important", q, m, size)
         IN /\ {"items", "retry"} \subseteq DOMAIN p
            /\ p.items \in Seq(QosMessage)
            /\ HasData(q) => HasData(p)
<1> DEFINE replaced == [i \in DOMAIN q.items |->
                          IF i \in {j \in DOMAIN q.items : KeyOf[q.items[j].topic] = KeyOf[m.topic]}
                            THEN m ELSE q.items[i]]
           dropped == EnqueueDrop(q, m, size)
<1>1. replaced \in Seq(QosMessage) /\ (q.items # <<>> => replaced # <<>>)
  <2>1. PICK n \in Nat : q.items \in [1 .. n -> QosMessage]
    BY SeqDef
  <2>2. replaced \in [1 .. n -> QosMessage]
    BY <2>1
  <2>3. replaced \in Seq(QosMessage)
    BY <2>2, SeqDef
  <2>4. Len(replaced) = n /\ Len(q.items) = n
    BY <2>1, <2>2, <2>3, LenProperties
  <2> QED
    BY <2>3, <2>4, EmptySeq
<1>2. /\ Append(q.items, m) \in Seq(QosMessage) /\ Append(q.items, m) # <<>>
  OBVIOUS
<1>3. /\ {"items", "retry"} \subseteq DOMAIN dropped /\ dropped.items \in Seq(QosMessage)
      /\ HasData(q) => HasData(dropped)
  BY <1>2 DEF EnqueueDrop, HasData
<1>4. Put("important", q, m, size) = EnqueueCoalesce(q, m, size)
  BY DEF Put
<1>5. \/ EnqueueCoalesce(q, m, size) = dropped
      \/ EnqueueCoalesce(q, m, size) = [q EXCEPT !.items = replaced, !.coalesced = @ + 1]
  BY DEF EnqueueCoalesce
<1> DEFINE p == [q EXCEPT !.items = replaced, !.coalesced = @ + 1]
<1>6. DOMAIN p = DOMAIN q /\ p.items = replaced /\ p.retry = q.retry
  <2> HIDE DEF replaced
  <2> QED OBVIOUS
<1>7. /\ {"items", "retry"} \subseteq DOMAIN p /\ p.items \in Seq(QosMessage)
      /\ HasData(q) => HasData(p)
  <2> HIDE DEF replaced, p
  <2> QED BY <1>1, <1>6 DEF HasData
<1> HIDE DEF p, dropped, replaced
<1> QED
  BY <1>3, <1>4, <1>5, <1>7 DEF p

LEMMA FreshAges ==
  /\ {"items", "retry"} \subseteq DOMAIN FreshQueue /\ FreshQueue.items \in Seq(QosMessage)
  /\ Zero \in [Lower -> Nat] /\ Zero["important"] = 0 /\ 0 < StarvationLimit
<1>1. FreshQueue.items = <<>> /\ {"items", "retry"} \subseteq DOMAIN FreshQueue
  BY DEF FreshQueue
<1>2. Zero \in [Lower -> Nat] /\ Zero["important"] = 0
  BY DEF Zero, Lower
<1>3. 0 < StarvationLimit
  BY BridgeAssumption
<1> QED
  BY <1>1, <1>2, <1>3, EmptySeq

LEMMA BridgeInitInvariant == BridgeInit => BridgeIInv
<1> SUFFICES ASSUME BridgeInit PROVE BridgeIInv
  OBVIOUS
<1>1. DOMAIN queue = QosClass /\ queue["important"] = FreshQueue
  BY DEF BridgeInit, NoQueues, QosClass
<1>2. published \in Seq(QosMessage) /\ consumer = "none"
  BY EmptySeq DEF BridgeInit
<1> QED
  BY <1>1, <1>2, FreshAges DEF BridgeInit, BridgeIInv, AgesTyped, AgeCoversBypass, Consuming,
     ImportantIsServed

(* What puts nothing into the IMPORTANT queue, takes nothing from it, and   *)
(* leaves the ages alone.                                                  *)
LEMMA BridgeGoesOn ==
  ASSUME BridgeIInv, DOMAIN queue' = QosClass,
         \/ queue'["important"] = queue["important"]
         \/ queue'["important"] = FreshQueue /\ ~Consuming',
         Consuming' => Consuming,
         consumer' = "sleeping" => consumer = "sleeping" \/ bypassed["important"] = 0,
         published' \in Seq(QosMessage), UNCHANGED <<starve, bypassed>>
  PROVE  BridgeIInv'
<1>1. AgesTyped'
  BY FreshAges DEF BridgeIInv, AgesTyped
<1>2. AgeCoversBypass'
  BY DEF BridgeIInv, AgeCoversBypass
<1> QED
  BY <1>1, <1>2 DEF BridgeIInv, ImportantIsServed

LEMMA BridgePublishInvariant ==
  ASSUME BridgeIInv, NEW topic \in Topics, BridgePublish(topic)
  PROVE  BridgeIInv'
<1> DEFINE m == [topic |-> topic, n |-> Len(published) + 1]
<1>1. m \in QosMessage /\ published' \in Seq(QosMessage)
  BY LenProperties DEF BridgeIInv, AgesTyped, BridgePublish, QosMessage
<1>2. QosOf[topic] \in QosClass /\ MaxSize["important"] \in Nat
  BY BridgeAssumption DEF QosClass
<1>3. CASE link = "open" /\ QosOf[topic] = "important"
  <2> DEFINE p == Put("important", queue["important"], m, MaxSize["important"])
  <2>1. /\ queue' = [queue EXCEPT !["important"] = p]
        /\ UNCHANGED <<consumer, starve, bypassed>>
    BY <1>3 DEF BridgePublish
  <2>2. /\ {"items", "retry"} \subseteq DOMAIN p /\ p.items \in Seq(QosMessage)
        /\ HasData(queue["important"]) => HasData(p)
    BY <1>1, <1>2, PutKeepsData DEF BridgeIInv, AgesTyped
  <2>3. DOMAIN queue' = QosClass /\ queue'["important"] = p
    BY <2>1 DEF BridgeIInv, AgesTyped, QosClass
  <2> HIDE DEF p
  <2>4. AgesTyped'
    BY <1>1, <2>1, <2>2, <2>3 DEF BridgeIInv, AgesTyped
  <2>5. AgeCoversBypass'
    BY <2>1, <2>2, <2>3 DEF BridgeIInv, AgeCoversBypass, Consuming
  <2> QED
    BY <2>1, <2>4, <2>5 DEF BridgeIInv, ImportantIsServed
<1>4. CASE ~(link = "open" /\ QosOf[topic] = "important")
  <2>1. /\ DOMAIN queue' = QosClass
        /\ \/ queue'["important"] = queue["important"] /\ UNCHANGED consumer
           \/ queue'["important"] = FreshQueue /\ consumer' = "none"
        /\ UNCHANGED <<starve, bypassed>>
    BY <1>2, <1>4 DEF BridgeIInv, AgesTyped, BridgePublish, NoQueues, QosClass
  <2> QED
    BY <1>1, <2>1, BridgeGoesOn DEF Consuming
<1> QED
  BY <1>3, <1>4

LEMMA ConnectInvariant ==
  ASSUME BridgeIInv, Connect
  PROVE  BridgeIInv'
<1>1. DOMAIN queue' = QosClass /\ queue'["important"] = FreshQueue
  BY DEF Connect, NoQueues, QosClass
<1>2. published' \in Seq(QosMessage) /\ consumer' = "loop"
  BY DEF Connect, BridgeIInv, AgesTyped
<1> QED
  BY <1>1, <1>2, FreshAges DEF Connect, BridgeIInv, AgesTyped, AgeCoversBypass, ImportantIsServed

LEMMA WakeUpInvariant ==
  ASSUME BridgeIInv, WakeUp
  PROVE  BridgeIInv'
<1>1. /\ DOMAIN queue' = QosClass /\ queue'["important"] = queue["important"]
      /\ UNCHANGED <<published, bypassed>> /\ starve' = Zero /\ consumer = "sleeping"
  BY DEF BridgeIInv, AgesTyped, WakeUp, QosClass
<1>2. bypassed["important"] = 0
  BY <1>1 DEF BridgeIInv, AgeCoversBypass, Consuming
<1>3. Zero \in [Lower -> Nat] /\ Zero["important"] = 0
  BY DEF Zero, Lower
<1>4. AgesTyped'
  BY <1>1, <1>3 DEF BridgeIInv, AgesTyped
<1>5. AgeCoversBypass'
  BY <1>1, <1>2, <1>3 DEF AgeCoversBypass
<1> QED
  BY <1>1, <1>4, <1>5 DEF BridgeIInv, ImportantIsServed

(* A queue is served before IMPORTANT only while CRITICAL has data and     *)
(* IMPORTANT has not yet waited for as long as the limit.                  *)
LEMMA ChoiceIsDue ==
  ASSUME AgesTyped, AnyData
  PROVE  /\ Aged \in [Lower -> Nat] /\ Choice \in QosClass
         /\ HasData(queue["important"]) /\ Choice # "important" =>
              /\ Aged["important"] = starve["important"] + 1
              /\ Aged["important"] < StarvationLimit
<1>1. /\ Aged \in [Lower -> Nat]
      /\ \A qos \in Lower : Aged[qos] = IF HasData(queue[qos]) /\ HasData(queue["critical"])
                                          THEN starve[qos] + 1 ELSE 0
  BY DEF AgesTyped, Aged
<1>2. Choice \in QosClass
  BY DEF Choice, ByPriority, QosClass
<1>3. ASSUME HasData(queue["important"]), Choice # "important"
      PROVE  /\ Aged["important"] = starve["important"] + 1
             /\ Aged["important"] < StarvationLimit
  <2>1. "important" \notin Overdue
    <3> SUFFICES ASSUME "important" \in Overdue PROVE Choice = "important"
      BY <1>3
    <3> QED
      BY DEF Choice
  <2>2. ~(Aged["important"] >= StarvationLimit)
    BY <1>3, <2>1 DEF Overdue, Lower
  <2>3. HasData(queue["critical"])
    <3> SUFFICES ASSUME ~HasData(queue["critical"]) PROVE FALSE
      OBVIOUS
    <3>1. \A qos \in Lower : Aged[qos] = 0
      BY <1>1
    <3>2. Overdue = {}
      BY <3>1, BridgeAssumption DEF Overdue
    <3> QED
      BY <1>3, <3>2 DEF Choice, ByPriority
  <2>4. Aged["important"] = starve["important"] + 1 /\ Aged["important"] \in Nat
    BY <1>1, <1>3, <2>3 DEF Lower
  <2> QED
    BY <2>2, <2>4, BridgeAssumption
<1> QED
  BY <1>1, <1>2, <1>3

LEMMA CycleInvariant ==
  ASSUME BridgeIInv, Cycle
  PROVE  BridgeIInv'
<1>1. /\ AgesTyped /\ AgeCoversBypass /\ ImportantIsServed /\ AnyData /\ consumer = "loop"
      /\ starve' = [qos \in Lower |-> IF qos = Choice /\ qos \in Overdue THEN 0 ELSE Aged[qos]]
      /\ bypassed' = [q \in Lower |-> IF q = Choice \/ ~HasData(queue[q]) THEN 0 ELSE bypassed[q] + 1]
      /\ consumer' \in {"draining", "waiting"}
      /\ UNCHANGED published
  BY DEF BridgeIInv, Cycle, CountBypass, Serve
<1>2. /\ starve' \in [Lower -> Nat] /\ bypassed' \in [Lower -> Nat]
      /\ starve'["important"] = IF "important" = Choice /\ "important" \in Overdue
                                  THEN 0 ELSE Aged["important"]
      /\ bypassed'["important"] = IF "important" = Choice \/ ~HasData(queue["important"])
                                    THEN 0 ELSE bypassed["important"] + 1
  BY <1>1, ChoiceIsDue DEF AgesTyped, Lower
<1>3. /\ bypassed["important"] \in Nat /\ starve["important"] \in Nat
      /\ bypassed["important"] <= starve["important"]
      /\ starve'["important"] \in Nat /\ Aged["important"] \in Nat
  BY <1>1, <1>2, ChoiceIsDue DEF AgesTyped, AgeCoversBypass, Consuming, Lower
<1>4. ImportantIsServed' /\ bypassed'["important"] <= starve'["important"]
  <2>1. CASE "important" = Choice \/ ~HasData(queue["important"])
    <3>1. bypassed'["important"] = 0
      BY <1>2, <2>1
    <3> QED
      BY <1>3, <3>1, BridgeAssumption DEF ImportantIsServed
  <2>2. CASE ~("important" = Choice \/ ~HasData(queue["important"]))
    <3>1. /\ Aged["important"] = starve["important"] + 1
          /\ Aged["important"] < StarvationLimit
      BY <1>1, <2>2, ChoiceIsDue
    <3>2. bypassed'["important"] = bypassed["important"] + 1
          /\ starve'["important"] = Aged["important"]
      BY <1>2, <2>2
    <3> QED
      BY <1>3, <3>1, <3>2, BridgeAssumption DEF ImportantIsServed
  <2> QED
    BY <2>1, <2>2
<1>5. /\ DOMAIN queue' = QosClass
      /\ "important" # Choice => queue'["important"] = queue["important"]
  BY <1>1, ChoiceIsDue DEF Cycle, Serve, AgesTyped, QosClass
<1>6. /\ {"items", "retry"} \subseteq DOMAIN queue'["important"]
      /\ queue'["important"].items \in Seq(QosMessage)
  <2>1. CASE "important" # Choice \/ ~CanGet(queue[Choice])
    BY <1>1, <1>5, <2>1 DEF AgesTyped, Cycle
  <2>2. CASE "important" = Choice /\ CanGet(queue[Choice])
    <3>1. queue'["important"] = AfterGet(queue["important"])
      BY <1>1, <2>2 DEF Cycle, Serve, AgesTyped, QosClass
    <3> QED
      BY <1>1, <2>2, <3>1 DEF AgesTyped, AfterGet, CanGet
  <2> QED
    BY <2>1, <2>2
<1>7. AgesTyped'
  BY <1>1, <1>2, <1>5, <1>6 DEF AgesTyped
<1>8. bypassed'["important"] > 0 => HasData(queue'["important"])
  BY <1>2, <1>5
<1>9. AgeCoversBypass'
  BY <1>1, <1>4, <1>8 DEF AgeCoversBypass
<1> QED
  BY <1>4, <1>7, <1>9 DEF BridgeIInv

LEMMA BridgeNextInvariant ==
  ASSUME BridgeIInv, [BridgeNext]_bridgeVars
  PROVE  BridgeIInv'
<1>1. CASE BridgeNext
  <2>1. CASE Disconnect
    BY <2>1, BridgeGoesOn
       DEF Disconnect, Consuming, NoQueues, QosClass, BridgeIInv, AgesTyped
  <2>2. CASE LinkLost \/ ConsumerStops \/ Drained
    BY <2>2, BridgeGoesOn DEF LinkLost, ConsumerStops, Drained, Consuming, BridgeIInv, AgesTyped
  <2>3. CASE FallAsleep
    <3>1. bypassed["important"] = 0
      BY <2>3 DEF FallAsleep, AnyData, QosClass, BridgeIInv, AgesTyped, AgeCoversBypass, Consuming,
                  Lower
    <3> QED
      BY <2>3, <3>1, BridgeGoesOn DEF FallAsleep, Consuming, BridgeIInv, AgesTyped
  <2>4. CASE WaitEnds \/ TimePasses
    <3>1. /\ DOMAIN queue' = QosClass /\ queue'["important"] = queue["important"]
          /\ UNCHANGED <<published, starve, bypassed>> /\ published \in Seq(QosMessage)
      BY <2>4 DEF WaitEnds, TimePasses, Serve, BridgeIInv, AgesTyped, QosClass
    <3>2. consumer' # "sleeping" \/ consumer' = consumer
      BY <2>4 DEF WaitEnds, TimePasses, Serve
    <3>3. Consuming' => Consuming
      BY <2>4 DEF WaitEnds, TimePasses, Serve, Consuming
    <3> QED
      BY <3>1, <3>2, <3>3, BridgeGoesOn
  <2> QED
    BY <1>1, <2>1, <2>2, <2>3, <2>4, BridgePublishInvariant, ConnectInvariant, WakeUpInvariant,
       CycleInvariant DEF BridgeNext
<1>2. CASE UNCHANGED bridgeVars
  BY <1>2 DEF bridgeVars, BridgeIInv, AgesTyped, AgeCoversBypass, ImportantIsServed, Consuming
<1> QED
  BY <1>1, <1>2

LEMMA BridgeInvariant == BridgeSpec => []BridgeIInv
BY BridgeInitInvariant, BridgeNextInvariant, PTL DEF BridgeSpec

(* ClassifiedQueue.dequeue(), whatever is published, lost, retried or       *)
(* reconnected: while IMPORTANT has something to send, fewer than           *)
(* StarvationLimit messages of other classes go before it.                 *)
THEOREM ImportantIsNotStarved == BridgeSpec => []ImportantIsServed
<1>1. BridgeIInv => ImportantIsServed
  BY DEF BridgeIInv
<1> QED
  BY <1>1, BridgeInvariant, PTL

-----------------------------------------------------------------------------
(* retry_tick() *)
LEMMA TickIsSound ==
  ASSUME NEW C, NEW q, Sound(q, C)
  PROVE  /\ Sound(RetryTick(q), C) /\ RetryTick(q).items = q.items
         /\ Len(RetryTick(q).retry) <= Len(q.retry)
<1> DEFINE s == q.retry
           P == {i \in DOMAIN s : s[i].attempts < MaxRetries}
           kept == Kept(s, P)
           t == [i \in DOMAIN kept |-> [kept[i] EXCEPT !.wait = RetryDelay[kept[i].attempts + 1],
                                                      !.attempts = @ + 1]]
           p == RetryTick(q)
<1>1. s \in Seq(RetryEntry) /\ Len(s) \in Nat /\ DOMAIN s = 1 .. Len(s) /\ q \in QueueContents
  BY LenProperties DEF Sound, QueueContents
<1>2. P \in SUBSET DOMAIN s /\ \A i \in P : s[i].attempts < MaxRetries
  OBVIOUS
<1> HIDE DEF P
<1>3. PICK e : /\ kept \in Seq(RetryEntry) /\ Len(kept) = Cardinality(P)
               /\ Picks(e, kept, s, P)
  BY <1>1, <1>2, KeptIsPicked
<1>4. Len(kept) \in Nat /\ Len(kept) <= Len(s) /\ DOMAIN kept = 1 .. Len(kept)
  <2>1. IsFiniteSet(1 .. Len(s)) /\ Cardinality(1 .. Len(s)) = Len(s)
    BY <1>1, PositionsAreFinite
  <2>2. Cardinality(P) <= Len(s)
    BY <1>1, <1>2, <2>1, FS_Subset
  <2> QED
    BY <1>3, <2>2, LenProperties
<1> HIDE DEF kept
<1>5. \A i \in DOMAIN kept : e[i] \in P /\ kept[i] = s[e[i]] /\ kept[i] \in RetryEntry
                             /\ kept[i].attempts < MaxRetries
  BY <1>2, <1>3, <1>4, ElementOfSeq DEF Picks
<1>6. ASSUME NEW i \in DOMAIN kept
      PROVE  t[i] \in RetryEntry /\ t[i].msg = kept[i].msg
  <2>1. PICK r \in RetryEntry : r = kept[i] /\ r.attempts < MaxRetries
    BY <1>5
  <2>2. r.attempts + 1 \in 1 .. MaxRetries /\ r.attempts + 1 \in {2, 3}
    BY <2>1 DEF RetryEntry, MaxRetries
  <2>3. RetryDelay[r.attempts + 1] \in 0 .. 4
    BY <2>2 DEF RetryDelay
  <2>4. t[i] = [r EXCEPT !.wait = RetryDelay[r.attempts + 1], !.attempts = @ + 1]
    BY <2>1
  <2> HIDE DEF t
  <2> QED
    BY <2>1, <2>2, <2>3, <2>4 DEF RetryEntry
<1>7. t \in [1 .. Len(kept) -> RetryEntry] /\ DOMAIN t = 1 .. Len(kept)
  BY <1>4, <1>6
<1> HIDE DEF t
<1>8. t \in Seq(RetryEntry) /\ Len(t) = Len(kept)
  BY <1>4, <1>7, SeqDef, LenProperties
<1>9. /\ p = [q EXCEPT !.retry = t, !.dropped = @ + Len(s) - Len(kept)]
      /\ q.dropped + Len(s) - Len(kept) \in Nat
  <2>1. p = [q EXCEPT !.retry = t, !.dropped = @ + Len(s) - Len(kept)]
    BY DEF RetryTick, t, kept, P
  <2>2. q.dropped \in Nat
    BY <1>1 DEF QueueContents
  <2> QED
    BY <1>1, <1>4, <2>1, <2>2
<1>10. p \in QueueContents /\ p.items = q.items /\ p.retry = t
  BY <1>1, <1>8, <1>9 DEF QueueContents
<1>11. \A i, j \in DOMAIN kept : e[i] = e[j] => i = j
  <2>1. \A i \in DOMAIN kept : i \in Nat /\ e[i] \in Nat
    BY <1>1, <1>2, <1>4, <1>5
  <2> SUFFICES ASSUME NEW i \in DOMAIN kept, NEW j \in DOMAIN kept, e[i] = e[j], i < j
               PROVE  FALSE
    BY <2>1
  <2>2. e[i] < e[j]
    BY <1>3, <1>4 DEF Picks
  <2> QED
    BY <2>1, <2>2
<1>12. AgedFrom(e, t, s)
  <2>1. e \in [DOMAIN t -> DOMAIN s]
    BY <1>2, <1>3, <1>4, <1>7 DEF Picks
  <2> QED
    BY <2>1, <1>4, <1>5, <1>6, <1>7, <1>11 DEF AgedFrom
<1> HIDE DEF p
<1>13. Sound(p, C)
  BY <1>10, <1>12, AgedIsSound
<1> QED
  BY <1>4, <1>8, <1>10, <1>13 DEF p

-----------------------------------------------------------------------------
(* Events published and not yet sent to the client, by class. *)
Unsent(qos) == {m \in ToSet(published) : QosOf[m.topic] = qos} \ ToSet(written)

(* Events are numbered as they are published, and sent once. *)
EventsKnown ==
  /\ published \in Seq(QosMessage) /\ Len(published) <= MaxPublished
  /\ \A i \in DOMAIN published : published[i].n = i
  /\ written \in Seq(QosMessage) /\ ToSet(written) \subseteq ToSet(published)
  /\ \A i, j \in DOMAIN written : written[i] = written[j] => i = j

(* The queues hold what was not sent, within their limits; a consumer waits *)
(* for retries.                                                            *)
QueuesSound ==
  /\ DOMAIN queue = QosClass
  /\ \A qos \in QosClass :
       /\ Sound(queue[qos], Unsent(qos))
       /\ Len(queue[qos].items) <= MaxSize[qos]
       /\ Len(queue[qos].retry) <= IF qos = "critical" THEN RetryLimit ELSE 0
  /\ consumer = "waiting" => HasData(queue["critical"])

(* Of each key one event waits at most, and it is later than those sent. *)
KeysInOrder ==
  LET items == queue["important"].items
  IN /\ OneOfKey(queue["important"])
     /\ \A i, j \in DOMAIN written :
          KeyOf[written[i].topic] = KeyOf[written[j].topic] /\ KeyOf[written[i].topic] # NoKey /\ i < j
          => written[i].n < written[j].n
     /\ \A i \in DOMAIN written, j \in DOMAIN items :
          KeyOf[written[i].topic] = KeyOf[items[j].topic] /\ KeyOf[items[j].topic] # NoKey
          => written[i].n < items[j].n

(* When the client connected. *)
SinceKnown == since \in 0 .. Len(published)

DeliveryIInv == EventsKnown /\ SinceKnown /\ QueuesSound /\ KeysInOrder /\ LossesAreCounted

LEMMA Sizes ==
  /\ \A qos \in QosClass : MaxSize[qos] \in Nat \ {0}
  /\ RetryLimit \in Nat \ {0} /\ MaxPublished \in Nat
  /\ Lower \subseteq QosClass /\ "critical" \in QosClass /\ "important" \in QosClass
BY BridgeAssumption, QosAssumption DEF Lower, QosClass

(* What EventsKnown says of the numbers. *)
LEMMA Numbers ==
  ASSUME EventsKnown
  PROVE  /\ Len(published) \in Nat /\ DOMAIN published = 1 .. Len(published)
         /\ \A m \in ToSet(published) : m \in QosMessage /\ m.n \in 1 .. Len(published)
         /\ Len(written) \in Nat /\ DOMAIN written = 1 .. Len(written)
<1>1. Len(published) \in Nat /\ DOMAIN published = 1 .. Len(published)
      /\ Len(written) \in Nat /\ DOMAIN written = 1 .. Len(written)
  BY LenProperties DEF EventsKnown
<1>2. ASSUME NEW m \in ToSet(published)
      PROVE  m \in QosMessage /\ m.n \in 1 .. Len(published)
  <2>1. PICK i \in DOMAIN published : m = published[i]
    BY DEF ToSet
  <2> QED
    BY <1>1, <2>1, ElementOfSeq DEF EventsKnown
<1> QED
  BY <1>1, <1>2

(* An event is appended to those published. *)
LEMMA PublishedGrows ==
  ASSUME EventsKnown, NEW topic \in Topics, Len(published) < MaxPublished,
         NEW m, m = [topic |-> topic, n |-> Len(published) + 1],
         published' = Append(published, m), UNCHANGED written
  PROVE  /\ EventsKnown' /\ m \in QosMessage
         /\ ToSet(published') = ToSet(published) \cup {m}
         /\ m \notin ToSet(published) /\ m \notin ToSet(written)
         /\ Len(published') = Len(published) + 1
         /\ \A i \in DOMAIN published : published'[i] = published[i]
         /\ published'[Len(published) + 1] = m
<1>1. m \in QosMessage /\ m.n = Len(published) + 1
  BY Numbers DEF QosMessage
<1>2. /\ published' \in Seq(QosMessage) /\ Len(published') = Len(published) + 1
      /\ DOMAIN published' = 1 .. Len(published')
      /\ \A i \in DOMAIN published : published'[i] = published[i]
      /\ published'[Len(published) + 1] = m
  BY <1>1, AppendProperties, LenProperties, Numbers DEF EventsKnown
<1>3. \A i \in DOMAIN published' : i \in DOMAIN published \/ i = Len(published) + 1
  BY <1>2, Numbers
<1>4. DOMAIN published \subseteq DOMAIN published' /\ Len(published) + 1 \in DOMAIN published'
  BY <1>2, Numbers
<1>5. ToSet(published') = ToSet(published) \cup {m}
  BY <1>2, <1>3, <1>4 DEF ToSet
<1>6. m \notin ToSet(published)
  BY <1>1, Numbers
<1>7. Len(published') <= MaxPublished
  BY <1>2, Numbers, Sizes
<1>8. \A i \in DOMAIN published' : published'[i].n = i
  BY <1>1, <1>2, <1>3 DEF EventsKnown
<1>9. EventsKnown'
  BY <1>2, <1>5, <1>7, <1>8 DEF EventsKnown
<1> QED
  BY <1>1, <1>2, <1>5, <1>6, <1>9 DEF EventsKnown

LEMMA PutIsCountedBelow ==
  ASSUME NEW qos \in Lower, NEW C, NEW q, Sound(q, C), NEW m \in QosMessage, m \notin C,
         qos = "important" => OneOfKey(q),
         Len(q.items) <= MaxSize[qos], Len(q.retry) <= IF qos = "critical" THEN RetryLimit ELSE 0
  PROVE  LET p == Put(qos, q, m, MaxSize[qos])
         IN /\ Sound(p, C \cup {m})
            /\ Len(p.items) + p.dropped + p.coalesced = Len(q.items) + q.dropped + q.coalesced + 1
<1>1. qos \in QosClass /\ MaxSize[qos] \in Nat
  BY Sizes
<1>2. qos # "critical"
  BY DEF Lower
<1> QED
  BY <1>1, <1>2, PutIsSound

-----------------------------------------------------------------------------
(* What each step does to the events and the queues. *)

(* The queues go with the connection. *)
LEMMA EmptiedQueues ==
  ASSUME queue' = NoQueues, consumer' # "waiting"
  PROVE  QueuesSound' /\ OneOfKey(queue'["important"])
<1>1. DOMAIN queue' = QosClass /\ \A qos \in QosClass : queue'[qos] = FreshQueue
  BY DEF NoQueues
<1>2. FreshQueue.items = <<>> /\ FreshQueue.retry = <<>> /\ Len(<<>>) = 0 /\ DOMAIN <<>> = {}
  BY DEF FreshQueue
<1>3. ASSUME NEW qos \in QosClass
      PROVE  /\ Sound(queue'[qos], Unsent(qos)')
             /\ Len(queue'[qos].items) <= MaxSize[qos]
             /\ Len(queue'[qos].retry) <= IF qos = "critical" THEN RetryLimit ELSE 0
  BY <1>1, <1>2, FreshIsSound, Sizes
<1> QED
  BY <1>1, <1>2, <1>3, Sizes DEF QueuesSound, OneOfKey

(* An event is published, and put into the queue of its class. *)
LEMMA PutKeepsQueues ==
  ASSUME EventsKnown, QueuesSound, OneOfKey(queue["important"]),
         NEW topic \in Topics, Len(published) < MaxPublished,
         NEW m, m = [topic |-> topic, n |-> Len(published) + 1],
         published' = Append(published, m), UNCHANGED <<written, consumer>>,
         queue' = [queue EXCEPT ![QosOf[topic]] = Put(QosOf[topic], @, m, MaxSize[QosOf[topic]])]
  PROVE  QueuesSound'
<1> DEFINE c == QosOf[topic]
           p == Put(c, queue[c], m, MaxSize[c])
<1>1. /\ m \in QosMessage /\ m.topic = topic /\ m \notin ToSet(written)
      /\ ToSet(published') = ToSet(published) \cup {m} /\ m \notin ToSet(published)
  BY PublishedGrows
<1>2. c \in QosClass
  BY BridgeAssumption
<1>3. \A qos \in QosClass : Unsent(qos)' = IF qos = c THEN Unsent(qos) \cup {m} ELSE Unsent(qos)
  BY <1>1 DEF Unsent
<1>4. m \notin Unsent(c)
  BY <1>1 DEF Unsent
<1>5. /\ DOMAIN queue' = QosClass /\ queue'[c] = p
      /\ \A qos \in QosClass \ {c} : queue'[qos] = queue[qos]
  BY <1>2 DEF QueuesSound
<1>6. /\ Sound(p, Unsent(c) \cup {m}) /\ Len(p.items) <= MaxSize[c]
      /\ Len(p.retry) <= IF c = "critical" THEN RetryLimit ELSE 0
      /\ c = "critical" => HasData(p)
  BY <1>1, <1>2, <1>4, Sizes, PutIsSound DEF QueuesSound
<1> HIDE DEF p, c
<1>7. ASSUME NEW qos \in QosClass
      PROVE  /\ Sound(queue'[qos], Unsent(qos)')
             /\ Len(queue'[qos].items) <= MaxSize[qos]
             /\ Len(queue'[qos].retry) <= IF qos = "critical" THEN RetryLimit ELSE 0
  <2>1. CASE qos = c
    BY <1>3, <1>5, <1>6, <2>1
  <2>2. CASE qos # c
    BY <1>3, <1>5, <2>2 DEF QueuesSound
  <2> QED
    BY <2>1, <2>2
<1>8. consumer' = "waiting" => HasData(queue'["critical"])
  BY <1>5, <1>6, Sizes DEF QueuesSound
<1> QED
  BY <1>5, <1>7, <1>8 DEF QueuesSound

(* An event of a queue is sent, and the retries grow older. *)
LEMMA SendKeepsQueues ==
  ASSUME EventsKnown, QueuesSound, NEW c \in QosClass, NEW x, NEW q,
         x \in Unsent(c), Sound(q, Unsent(c) \ {x}),
         Len(q.items) <= Len(queue[c].items), Len(q.retry) <= Len(queue[c].retry),
         written' = Append(written, x), UNCHANGED published, consumer' # "waiting",
         DOMAIN queue' = QosClass,
         \A qos \in QosClass \ {"critical"} : queue'[qos] = IF qos = c THEN q ELSE queue[qos],
         queue'["critical"] = RetryTick(IF c = "critical" THEN q ELSE queue["critical"])
  PROVE  EventsKnown' /\ QueuesSound'
<1>1. x \in ToSet(published) /\ x \notin ToSet(written) /\ x \in QosMessage /\ QosOf[x.topic] = c
  BY Numbers DEF Unsent
<1>2. /\ written' \in Seq(QosMessage) /\ Len(written') = Len(written) + 1
      /\ DOMAIN written' = 1 .. Len(written')
      /\ \A i \in DOMAIN written : written'[i] = written[i]
      /\ written'[Len(written) + 1] = x
  BY <1>1, AppendProperties, LenProperties, Numbers DEF EventsKnown
<1>3. \A i \in DOMAIN written' : i \in DOMAIN written \/ i = Len(written) + 1
  BY <1>2, Numbers
<1>4. DOMAIN written \subseteq DOMAIN written' /\ Len(written) + 1 \in DOMAIN written'
  BY <1>2, Numbers
<1>5. ToSet(written') = ToSet(written) \cup {x}
  BY <1>2, <1>3, <1>4 DEF ToSet
<1>6. \A i \in DOMAIN written : written[i] # x
  BY <1>1 DEF ToSet
<1>7. \A i, j \in DOMAIN written' : written'[i] = written'[j] => i = j
  BY <1>2, <1>3, <1>6 DEF EventsKnown
<1>8. EventsKnown'
  BY <1>1, <1>2, <1>5, <1>7 DEF EventsKnown
<1>9. \A qos \in QosClass : Unsent(qos)' = IF qos = c THEN Unsent(qos) \ {x} ELSE Unsent(qos)
  BY <1>1, <1>5 DEF Unsent
<1> DEFINE before(qos) == IF qos = c THEN q ELSE queue[qos]
<1>10. ASSUME NEW qos \in QosClass
       PROVE  /\ Sound(before(qos), Unsent(qos)')
              /\ Len(before(qos).items) <= MaxSize[qos]
              /\ Len(before(qos).retry) <= IF qos = "critical" THEN RetryLimit ELSE 0
  <2>1. CASE qos = c
    <3>1. /\ Sound(queue[c], Unsent(c))
          /\ Len(queue[c].items) <= MaxSize[c]
          /\ Len(queue[c].retry) <= IF c = "critical" THEN RetryLimit ELSE 0
      BY DEF QueuesSound
    <3>2. /\ Len(queue[c].items) \in Nat /\ Len(queue[c].retry) \in Nat
          /\ Len(q.items) \in Nat /\ Len(q.retry) \in Nat
      BY <3>1, LenProperties DEF Sound, QueueContents
    <3>3. MaxSize[c] \in Nat /\ (IF c = "critical" THEN RetryLimit ELSE 0) \in Nat
      BY Sizes
    <3>4. Len(q.items) <= MaxSize[c] /\ Len(q.retry) <= IF c = "critical" THEN RetryLimit ELSE 0
      BY <3>1, <3>2, <3>3
    <3> QED
      BY <1>9, <2>1, <3>4
  <2>2. CASE qos # c
    BY <1>9, <2>2 DEF QueuesSound
  <2> QED
    BY <2>1, <2>2
<1> HIDE DEF before
<1>11. ASSUME NEW qos \in QosClass
       PROVE  /\ Sound(queue'[qos], Unsent(qos)')
              /\ Len(queue'[qos].items) <= MaxSize[qos]
              /\ Len(queue'[qos].retry) <= IF qos = "critical" THEN RetryLimit ELSE 0
  <2>1. CASE qos = "critical"
    <3>1. queue'[qos] = RetryTick(before(qos))
      BY <2>1 DEF before
    <3>2. /\ Sound(before(qos), Unsent(qos)') /\ Len(before(qos).items) <= MaxSize[qos]
          /\ Len(before(qos).retry) <= RetryLimit
      BY <1>10, <2>1
    <3>3. /\ Sound(RetryTick(before(qos)), Unsent(qos)')
          /\ RetryTick(before(qos)).items = before(qos).items
          /\ Len(RetryTick(before(qos)).retry) <= Len(before(qos).retry)
      BY <3>2, TickIsSound
    <3>4. Len(RetryTick(before(qos)).retry) \in Nat /\ Len(before(qos).retry) \in Nat
      BY <3>2, <3>3, LenProperties DEF Sound, QueueContents
    <3>5. Len(RetryTick(before(qos)).retry) <= RetryLimit
      BY <3>2, <3>3, <3>4, Sizes
    <3> QED
      BY <2>1, <3>1, <3>2, <3>3, <3>5
  <2>2. CASE qos # "critical"
    <3>1. queue'[qos] = before(qos)
      BY <2>2 DEF before
    <3> QED
      BY <1>10, <3>1
  <2> QED
    BY <2>1, <2>2
<1>12. QueuesSound'
  BY <1>11 DEF QueuesSound
<1> QED
  BY <1>8, <1>12

(* Time, or a tick, for the retries of CRITICAL. *)
LEMMA AgingKeepsQueues ==
  ASSUME QueuesSound, UNCHANGED <<published, written>>,
         DOMAIN queue' = QosClass, \A qos \in QosClass \ {"critical"} : queue'[qos] = queue[qos],
         \/ queue'["critical"] = RetryTick(queue["critical"]) /\ consumer' # "waiting"
         \/ queue'["critical"] = Elapse(queue["critical"]) /\ UNCHANGED consumer
  PROVE  QueuesSound'
<1> DEFINE q == queue["critical"]
           p == queue'["critical"]
<1>1. \A qos \in QosClass : Unsent(qos)' = Unsent(qos)
  BY DEF Unsent
<1>2. /\ Sound(q, Unsent("critical")) /\ Len(q.items) <= MaxSize["critical"]
      /\ Len(q.retry) <= RetryLimit
  BY Sizes DEF QueuesSound
<1>3. /\ Sound(p, Unsent("critical")) /\ p.items = q.items /\ Len(p.retry) <= Len(q.retry)
  <2>1. CASE queue'["critical"] = RetryTick(queue["critical"])
    BY <1>2, <2>1, TickIsSound
  <2>2. CASE queue'["critical"] = Elapse(queue["critical"])
    <3>1. /\ Sound(Elapse(q), Unsent("critical")) /\ Elapse(q).items = q.items
          /\ Len(Elapse(q).retry) = Len(q.retry)
      BY <1>2, ElapseIsSound
    <3>2. Len(q.retry) \in Nat
      BY <1>2, LenProperties DEF Sound, QueueContents
    <3> QED
      BY <2>2, <3>1, <3>2
  <2> QED
    BY <2>1, <2>2
<1>4. /\ p.retry \in Seq(RetryEntry) /\ q.retry \in Seq(RetryEntry)
      /\ Len(p.retry) \in Nat /\ Len(q.retry) \in Nat
  BY <1>2, <1>3, LenProperties DEF Sound, QueueContents
<1>5. Len(p.retry) <= RetryLimit
  BY <1>2, <1>3, <1>4, Sizes
<1>6. ASSUME NEW qos \in QosClass
      PROVE  /\ Sound(queue'[qos], Unsent(qos)')
             /\ Len(queue'[qos].items) <= MaxSize[qos]
             /\ Len(queue'[qos].retry) <= IF qos = "critical" THEN RetryLimit ELSE 0
  <2>1. CASE qos = "critical"
    BY <1>1, <1>2, <1>3, <1>5, <2>1
  <2>2. CASE qos # "critical"
    BY <1>1, <2>2 DEF QueuesSound
  <2> QED
    BY <2>1, <2>2
<1>7. consumer' = "waiting" => HasData(p)
  <2> SUFFICES ASSUME consumer' = "waiting" PROVE HasData(p)
    OBVIOUS
  <2>1. p = Elapse(q) /\ HasData(q)
    BY DEF QueuesSound
  <2>2. Len(p.retry) = Len(q.retry)
    BY <1>2, <2>1, ElapseIsSound
  <2> QED
    BY <1>3, <1>4, <2>1, <2>2 DEF HasData
<1> QED
  BY <1>6, <1>7 DEF QueuesSound

(* An event that is published is later than those sent. *)
LEMMA PutKeepsKeys ==
  ASSUME EventsKnown, QueuesSound, KeysInOrder,
         NEW topic \in Topics, Len(published) < MaxPublished,
         NEW m, m = [topic |-> topic, n |-> Len(published) + 1],
         published' = Append(published, m), UNCHANGED written,
         queue' = [queue EXCEPT ![QosOf[topic]] = Put(QosOf[topic], @, m, MaxSize[QosOf[topic]])]
  PROVE  KeysInOrder'
<1> DEFINE q == queue["important"]
           p == queue'["important"]
<1>1. m \in QosMessage /\ m.n = Len(published) + 1
  BY PublishedGrows
<1>2. OneOfKey(p) /\ ToSet(p.items) \subseteq ToSet(q.items) \cup {m}
  <2>1. CASE QosOf[topic] = "important"
    <3>1. p = EnqueueCoalesce(q, m, MaxSize["important"])
      BY <2>1, Sizes DEF QueuesSound, Put
    <3>2. q \in QueueContents /\ OneOfKey(q)
      BY Sizes DEF QueuesSound, Sound, KeysInOrder
    <3> HIDE DEF q
    <3>3. LET e == EnqueueCoalesce(q, m, MaxSize["important"])
          IN OneOfKey(e) /\ ToSet(e.items) \subseteq ToSet(q.items) \cup {m}
      BY <1>1, <3>2, CoalesceKeepsKeys
    <3> DEFINE e == EnqueueCoalesce(q, m, MaxSize["important"])
    <3>4. OneOfKey(e) /\ ToSet(e.items) \subseteq ToSet(q.items) \cup {m} /\ p = e
      BY <3>1, <3>3
    <3> HIDE DEF e, p
    <3> QED
      BY <3>4
  <2>2. CASE QosOf[topic] # "important"
    <3>1. p = q
      BY <2>2, Sizes DEF QueuesSound
    <3> QED
      BY <3>1 DEF KeysInOrder
  <2> QED
    BY <2>1, <2>2
<1>3. \A i \in DOMAIN written : written[i].n \in Nat /\ written[i].n < m.n
  <2> TAKE i \in DOMAIN written
  <2>1. written[i] \in ToSet(published)
    BY DEF EventsKnown, ToSet
  <2> QED
    BY <1>1, <2>1, Numbers
<1>4. ASSUME NEW i \in DOMAIN written, NEW j \in DOMAIN p.items,
             KeyOf[written[i].topic] = KeyOf[p.items[j].topic], KeyOf[p.items[j].topic] # NoKey
      PROVE  written[i].n < p.items[j].n
  <2>1. p.items[j] \in ToSet(q.items) \/ p.items[j] = m
    BY <1>2 DEF ToSet
  <2>2. CASE p.items[j] = m
    BY <1>3, <2>2
  <2>3. CASE p.items[j] \in ToSet(q.items)
    <3>1. PICK k \in DOMAIN q.items : p.items[j] = q.items[k]
      BY <2>3 DEF ToSet
    <3> QED
      BY <1>4, <3>1 DEF KeysInOrder
  <2> QED
    BY <2>1, <2>2, <2>3
<1> HIDE DEF p
<1>5. /\ OneOfKey(p)
      /\ \A i \in DOMAIN written, j \in DOMAIN p.items :
           KeyOf[written[i].topic] = KeyOf[p.items[j].topic] /\ KeyOf[p.items[j].topic] # NoKey
           => written[i].n < p.items[j].n
  BY <1>2, <1>4
<1> QED
  BY <1>5 DEF KeysInOrder, p

(* What get() returns from a queue below CRITICAL: its first event. *)
LEMMA LowerServes ==
  ASSUME QueuesSound, NEW c \in Lower, HasData(queue[c])
  PROVE  LET q == queue[c]
             a == AfterGet(q)
         IN /\ CanGet(q) /\ 1 \in DOMAIN q.items /\ NextItem(q) = q.items[1]
            /\ Len(q.items) \in Nat /\ Len(a.items) \in Nat /\ Len(q.items) = Len(a.items) + 1
            /\ a.dropped = q.dropped /\ a.coalesced = q.coalesced
            /\ \A j \in DOMAIN a.items : j \in Nat \ {0} /\ j + 1 \in DOMAIN q.items /\ a.items[j] = q.items[j + 1]
<1> DEFINE q == queue[c]
           a == AfterGet(q)
<1>1. /\ q \in QueueContents /\ Len(q.retry) <= 0
      /\ q.items \in Seq(QosMessage) /\ q.retry \in Seq(RetryEntry) /\ Len(q.retry) \in Nat
      /\ DOMAIN q.items = 1 .. Len(q.items) /\ DOMAIN q.retry = 1 .. Len(q.retry)
      /\ Len(q.items) \in Nat
  BY Sizes, LenProperties DEF QueuesSound, Sound, QueueContents, Lower
<1>2. Len(q.retry) = 0
  BY <1>1
<1>3. q.retry = <<>> /\ Due(q) = {}
  BY <1>1, <1>2, EmptySeq DEF Due
<1>4. q.items # <<>> /\ CanGet(q)
  BY <1>3 DEF HasData, CanGet
<1>5. NextItem(q) = Head(q.items) /\ a = [q EXCEPT !.items = Tail(@)]
  BY <1>3 DEF NextItem, AfterGet
<1>6. a.items = Tail(q.items) /\ a.dropped = q.dropped /\ a.coalesced = q.coalesced
  BY <1>1, <1>5 DEF QueueContents
<1>7. /\ Head(q.items) = q.items[1] /\ Tail(q.items) \in Seq(QosMessage)
      /\ Len(Tail(q.items)) = Len(q.items) - 1
      /\ \A i \in 1 .. Len(Tail(q.items)) : Tail(q.items)[i] = q.items[i + 1]
      /\ Len(q.items) # 0
  BY <1>1, <1>4, HeadTailProperties, EmptySeq
<1>8. DOMAIN a.items = 1 .. Len(a.items) /\ Len(a.items) \in Nat
  BY <1>6, <1>7, LenProperties
<1> HIDE DEF a
<1>9. /\ 1 \in DOMAIN q.items /\ NextItem(q) = q.items[1] /\ Len(q.items) = Len(a.items) + 1
      /\ \A j \in DOMAIN a.items : j \in Nat \ {0} /\ j + 1 \in DOMAIN q.items /\ a.items[j] = q.items[j + 1]
  BY <1>1, <1>5, <1>6, <1>7, <1>8
<1> QED
  BY <1>1, <1>4, <1>6, <1>8, <1>9 DEF a

(* An event of IMPORTANT is sent: the first of its key. *)
LEMMA SendKeepsKeys ==
  ASSUME EventsKnown, QueuesSound, KeysInOrder, HasData(queue["important"]),
         queue'["important"] = AfterGet(queue["important"]),
         written' = Append(written, NextItem(queue["important"]))
  PROVE  KeysInOrder'
<1> DEFINE q == queue["important"]
           p == queue'["important"]
           a == AfterGet(q)
<1>1. /\ CanGet(q) /\ 1 \in DOMAIN q.items /\ NextItem(q) = q.items[1]
      /\ \A j \in DOMAIN p.items : j \in Nat \ {0} /\ j + 1 \in DOMAIN q.items /\ p.items[j] = q.items[j + 1]
  <2>1. /\ CanGet(q) /\ 1 \in DOMAIN q.items /\ NextItem(q) = q.items[1]
        /\ \A j \in DOMAIN a.items : j \in Nat \ {0} /\ j + 1 \in DOMAIN q.items /\ a.items[j] = q.items[j + 1]
    BY LowerServes DEF Lower
  <2> QED
    BY <2>1
<1>2. \A j \in DOMAIN p.items : j + 1 # 1
  BY <1>1
<1>3. DOMAIN q.items \subseteq Nat
  BY Sizes, LenProperties DEF QueuesSound, Sound, QueueContents
<1> DEFINE x == q.items[1]
<1>4. x \in QosMessage
  BY <1>1, Sizes, ElementOfSeq, LenProperties DEF QueuesSound, Sound, QueueContents
<1>5. /\ DOMAIN written = 1 .. Len(written) /\ Len(written) \in Nat
      /\ DOMAIN written' = 1 .. (Len(written) + 1) /\ written'[Len(written) + 1] = x
      /\ \A i \in DOMAIN written : written'[i] = written[i]
  BY <1>1, <1>4, AppendProperties, LenProperties DEF EventsKnown
<1> HIDE DEF x, q, p, a
<1>6. \A i \in DOMAIN written' : i \in DOMAIN written \/ i = Len(written) + 1
  BY <1>5
<1>7. OneOfKey(p)
  <2> SUFFICES ASSUME NEW i \in DOMAIN p.items, NEW j \in DOMAIN p.items,
                      KeyOf[p.items[i].topic] = KeyOf[p.items[j].topic], KeyOf[p.items[i].topic] # NoKey
               PROVE  i = j
    BY DEF OneOfKey
  <2>1. i + 1 = j + 1
    BY <1>1 DEF KeysInOrder, OneOfKey, q
  <2> QED
    BY <1>1, <2>1
<1>8. ASSUME NEW i \in DOMAIN written', NEW j \in DOMAIN written',
             KeyOf[written'[i].topic] = KeyOf[written'[j].topic], KeyOf[written'[i].topic] # NoKey, i < j
      PROVE  written'[i].n < written'[j].n
  <2>1. i \in DOMAIN written
    BY <1>5, <1>8
  <2>2. CASE j \in DOMAIN written
    BY <1>5, <1>8, <2>1, <2>2 DEF KeysInOrder
  <2>3. CASE j = Len(written) + 1
    BY <1>1, <1>5, <1>8, <2>1, <2>3 DEF KeysInOrder, q, x
  <2> QED
    BY <1>6, <2>2, <2>3
<1>9. ASSUME NEW i \in DOMAIN written', NEW j \in DOMAIN p.items,
             KeyOf[written'[i].topic] = KeyOf[p.items[j].topic], KeyOf[p.items[j].topic] # NoKey
      PROVE  written'[i].n < p.items[j].n
  <2>1. CASE i \in DOMAIN written
    <3>1. j + 1 \in DOMAIN q.items /\ p.items[j] = q.items[j + 1] /\ written'[i] = written[i]
      BY <1>1, <1>5, <2>1
    <3> DEFINE k == j + 1
    <3>2. k \in DOMAIN q.items /\ p.items[j] = q.items[k]
      BY <3>1
    <3> HIDE DEF k
    <3> QED
      BY <1>9, <2>1, <3>1, <3>2 DEF KeysInOrder, q
  <2>2. CASE i = Len(written) + 1
    <3>1. j + 1 = 1
      BY <1>1, <1>5, <1>9, <2>2 DEF KeysInOrder, OneOfKey, q, x
    <3> QED
      BY <1>2, <3>1
  <2> QED
    BY <1>6, <2>1, <2>2
<1> QED
  BY <1>7, <1>8, <1>9 DEF KeysInOrder, p

(* An event of another class has no key. *)
LEMMA SendOtherKeepsKeys ==
  ASSUME EventsKnown, KeysInOrder, NEW x \in QosMessage, QosOf[x.topic] # "important",
         queue'["important"].items = queue["important"].items, written' = Append(written, x)
  PROVE  KeysInOrder'
<1>1. /\ DOMAIN written = 1 .. Len(written) /\ Len(written) \in Nat
      /\ DOMAIN written' = 1 .. (Len(written) + 1) /\ written'[Len(written) + 1] = x
      /\ \A i \in DOMAIN written : written'[i] = written[i]
  BY AppendProperties, LenProperties DEF EventsKnown
<1>2. \A i \in DOMAIN written' : i \in DOMAIN written \/ i = Len(written) + 1
  BY <1>1
<1>3. KeyOf[x.topic] = NoKey
  BY BridgeAssumption DEF QosMessage
<1>4. \A i \in DOMAIN written' : KeyOf[written'[i].topic] # NoKey => i \in DOMAIN written /\ written'[i] = written[i]
  BY <1>1, <1>2, <1>3
<1> QED
  BY <1>4 DEF KeysInOrder, OneOfKey

(* The connection is new, or gone. *)
LEMMA EmptiedKeys ==
  ASSUME queue' = NoQueues, KeysInOrder, written' = written \/ written' = <<>>
  PROVE  KeysInOrder'
<1>1. queue'["important"].items = <<>> /\ DOMAIN <<>> = {}
  BY Sizes DEF NoQueues, FreshQueue
<1> QED
  BY <1>1 DEF KeysInOrder, OneOfKey

LEMMA CountsAreNumbers ==
  ASSUME EventsKnown, SinceKnown, NEW qos
  PROVE  /\ IsFiniteSet(PublishedTo(qos)) /\ Cardinality(PublishedTo(qos)) \in Nat
         /\ IsFiniteSet(SentOf(qos)) /\ Cardinality(SentOf(qos)) \in Nat
<1>1. Len(published) \in Nat /\ since \in Nat /\ DOMAIN written = 1 .. Len(written) /\ Len(written) \in Nat
  BY Numbers DEF SinceKnown
<1>2. IsFiniteSet((since + 1) .. Len(published))
  <2>1. since + 1 \in Int /\ Len(published) \in Int
    BY <1>1
  <2> QED
    BY <2>1, FS_Interval
<1>3. IsFiniteSet(1 .. Len(written))
  BY <1>1, PositionsAreFinite
<1>4. PublishedTo(qos) \subseteq (since + 1) .. Len(published) /\ SentOf(qos) \subseteq 1 .. Len(written)
  BY <1>1 DEF PublishedTo, SentOf
<1>5. IsFiniteSet(PublishedTo(qos)) /\ IsFiniteSet(SentOf(qos))
  BY <1>2, <1>3, <1>4, FS_Subset
<1> QED
  BY <1>5, FS_CardinalityType

(* An event is published to the client. *)
LEMMA PutIsCounted ==
  ASSUME EventsKnown, SinceKnown, QueuesSound, KeysInOrder, LossesAreCounted,
         NEW topic \in Topics, Len(published) < MaxPublished,
         NEW m, m = [topic |-> topic, n |-> Len(published) + 1],
         published' = Append(published, m), UNCHANGED <<link, since, written>>,
         queue' = [queue EXCEPT ![QosOf[topic]] = Put(QosOf[topic], @, m, MaxSize[QosOf[topic]])]
  PROVE  LossesAreCounted'
<1> SUFFICES ASSUME link = "open", NEW qos \in Lower
             PROVE  Cardinality(PublishedTo(qos)') =
                      Cardinality(SentOf(qos)') + Len(queue'[qos].items) + queue'[qos].dropped
                        + queue'[qos].coalesced
  BY DEF LossesAreCounted
<1> DEFINE c == QosOf[topic]
           n == Len(published) + 1
           q == queue[qos]
           p == queue'[qos]
<1>1. /\ m \in QosMessage /\ m.topic = topic /\ Len(published') = n /\ published'[n] = m
      /\ \A i \in DOMAIN published : published'[i] = published[i]
  BY PublishedGrows
<1>2. /\ Len(published) \in Nat /\ DOMAIN published = 1 .. Len(published)
      /\ since \in Nat /\ since <= Len(published)
  BY Numbers DEF SinceKnown
<1>3. SentOf(qos)' = SentOf(qos)
  BY DEF SentOf
<1>4. /\ Cardinality(SentOf(qos)) \in Nat
      /\ IsFiniteSet(PublishedTo(qos)) /\ Cardinality(PublishedTo(qos)) \in Nat
  BY CountsAreNumbers
<1>5. Sound(q, Unsent(qos)) /\ qos \in QosClass /\ c \in QosClass
  BY Sizes, BridgeAssumption DEF QueuesSound
<1>6. Len(q.items) \in Nat /\ q.dropped \in Nat /\ q.coalesced \in Nat
  BY <1>5, LenProperties DEF Sound, QueueContents
<1>7. Cardinality(PublishedTo(qos)) = Cardinality(SentOf(qos)) + Len(q.items) + q.dropped + q.coalesced
  BY DEF LossesAreCounted
<1>8. /\ \A i \in (since + 1) .. n : i \in (since + 1) .. Len(published) \/ i = n
      /\ n \in (since + 1) .. n /\ n \notin (since + 1) .. Len(published)
      /\ (since + 1) .. Len(published) \subseteq (since + 1) .. n
      /\ (since + 1) .. Len(published) \subseteq DOMAIN published
  BY <1>2
<1>9. CASE qos = c
  <2>1. n \notin PublishedTo(qos)
    BY <1>8 DEF PublishedTo
  <2>2. PublishedTo(qos)' = PublishedTo(qos) \cup {n}
    <3> HIDE DEF n
    <3> QED
      BY <1>1, <1>8, <1>9 DEF PublishedTo
  <2>3. Cardinality(PublishedTo(qos)') = Cardinality(PublishedTo(qos)) + 1
    BY <1>4, <2>1, <2>2, FS_AddElement
  <2>4. p = Put(qos, q, m, MaxSize[qos])
    BY <1>5, <1>9 DEF QueuesSound
  <2>5. m \notin Unsent(qos)
    BY PublishedGrows DEF Unsent
  <2>6. /\ Len(q.items) <= MaxSize[qos] /\ Len(q.retry) <= IF qos = "critical" THEN RetryLimit ELSE 0
        /\ qos = "important" => OneOfKey(q)
    BY <1>5 DEF QueuesSound, KeysInOrder
  <2> HIDE DEF q
  <2>7. LET r == Put(qos, q, m, MaxSize[qos])
        IN /\ Sound(r, Unsent(qos) \cup {m})
           /\ Len(r.items) + r.dropped + r.coalesced = Len(q.items) + q.dropped + q.coalesced + 1
    BY <1>1, <1>5, <2>5, <2>6, PutIsCountedBelow
  <2>8. Len(p.items) + p.dropped + p.coalesced = Len(q.items) + q.dropped + q.coalesced + 1
    BY <2>4, <2>7
  <2>9. Sound(p, Unsent(qos) \cup {m})
    BY <2>4, <2>7
  <2>10. Len(p.items) \in Nat /\ p.dropped \in Nat /\ p.coalesced \in Nat
    BY <2>9, LenProperties DEF Sound, QueueContents
  <2> HIDE DEF p
  <2>11. PICK a \in Nat, b \in Nat, d \in Nat, e \in Nat, f \in Nat, g \in Nat, h \in Nat :
           /\ a = Cardinality(SentOf(qos)) /\ b = Len(q.items) /\ d = q.dropped /\ e = q.coalesced
           /\ f = Len(p.items) /\ g = p.dropped /\ h = p.coalesced
    BY <1>4, <1>6, <2>10
  <2>12. f + g + h = b + d + e + 1
    BY <2>8, <2>11
  <2>13. a + f + g + h = a + b + d + e + 1
    BY SMTT(30), <2>12
  <2>14. Cardinality(PublishedTo(qos)') = a + f + g + h
    BY <1>7, <2>3, <2>11, <2>13
  <2> QED
    BY <1>3, <2>11, <2>14 DEF p
<1>10. CASE qos # c
  <2>1. PublishedTo(qos)' = PublishedTo(qos)
    <3> HIDE DEF n
    <3> QED
      BY <1>1, <1>8, <1>10 DEF PublishedTo
  <2>2. p = q
    BY <1>5, <1>10 DEF QueuesSound
  <2> QED
    BY <1>3, <1>7, <2>1, <2>2
<1> QED
  BY <1>9, <1>10

(* An event is sent. *)
LEMMA SendIsCounted ==
  ASSUME EventsKnown, SinceKnown, QueuesSound, LossesAreCounted,
         NEW x \in QosMessage, written' = Append(written, x), UNCHANGED <<link, since, published>>,
         \A qos \in Lower :
           /\ Len(queue'[qos].items) \in Nat
           /\ Len(queue[qos].items) = Len(queue'[qos].items) + IF QosOf[x.topic] = qos THEN 1 ELSE 0
           /\ queue'[qos].dropped = queue[qos].dropped /\ queue'[qos].coalesced = queue[qos].coalesced
  PROVE  LossesAreCounted'
<1> SUFFICES ASSUME link = "open", NEW qos \in Lower
             PROVE  Cardinality(PublishedTo(qos)') =
                      Cardinality(SentOf(qos)') + Len(queue'[qos].items) + queue'[qos].dropped
                        + queue'[qos].coalesced
  BY DEF LossesAreCounted
<1> DEFINE q == queue[qos]
           p == queue'[qos]
           n == Len(written) + 1
<1>1. /\ DOMAIN written = 1 .. Len(written) /\ Len(written) \in Nat
      /\ DOMAIN written' = 1 .. n /\ written'[n] = x
      /\ \A i \in DOMAIN written : written'[i] = written[i]
  BY AppendProperties, LenProperties DEF EventsKnown
<1>2. /\ \A i \in DOMAIN written' : i \in DOMAIN written \/ i = n
      /\ n \in DOMAIN written' /\ n \notin DOMAIN written /\ DOMAIN written \subseteq DOMAIN written'
  BY <1>1
<1>3. PublishedTo(qos)' = PublishedTo(qos)
  BY DEF PublishedTo
<1>4. /\ Cardinality(SentOf(qos)) \in Nat /\ IsFiniteSet(SentOf(qos))
  BY CountsAreNumbers
<1>5. q.dropped \in Nat /\ q.coalesced \in Nat
  BY Sizes DEF QueuesSound, Sound, QueueContents
<1>6. Cardinality(PublishedTo(qos)) = Cardinality(SentOf(qos)) + Len(q.items) + q.dropped + q.coalesced
  BY DEF LossesAreCounted
<1> HIDE DEF n
<1>7. CASE QosOf[x.topic] = qos
  <2>1. n \notin SentOf(qos)
    BY <1>2 DEF SentOf
  <2>2. SentOf(qos)' = SentOf(qos) \cup {n}
    BY <1>1, <1>2, <1>7 DEF SentOf
  <2>3. Cardinality(SentOf(qos)') = Cardinality(SentOf(qos)) + 1
    BY <1>4, <2>1, <2>2, FS_AddElement
  <2>4. Len(q.items) = Len(p.items) + 1 /\ Len(p.items) \in Nat
    BY <1>7
  <2>5. p.dropped = q.dropped /\ p.coalesced = q.coalesced
    OBVIOUS
  <2> HIDE DEF p, q
  <2>6. PICK a \in Nat, b \in Nat, d \in Nat, e \in Nat :
          a = Cardinality(SentOf(qos)) /\ b = Len(p.items) /\ d = q.dropped /\ e = q.coalesced
    BY <1>4, <1>5, <2>4
  <2>7. a + (b + 1) + d + e = (a + 1) + b + d + e
    OBVIOUS
  <2>8. Cardinality(PublishedTo(qos)) = (a + 1) + b + d + e
    BY <1>6, <2>4, <2>6, <2>7
  <2> QED
    BY <1>3, <2>3, <2>5, <2>6, <2>8 DEF p
<1>8. CASE QosOf[x.topic] # qos
  <2>1. SentOf(qos)' = SentOf(qos)
    BY <1>1, <1>2, <1>8 DEF SentOf
  <2>2. Len(q.items) = Len(p.items) + 0 /\ Len(p.items) \in Nat
    BY <1>8
  <2>3. p.dropped = q.dropped /\ p.coalesced = q.coalesced
    OBVIOUS
  <2> HIDE DEF p, q
  <2>4. Len(q.items) = Len(p.items)
    BY <2>2
  <2> QED
    BY <1>3, <1>6, <2>1, <2>3, <2>4 DEF p
<1> QED
  BY <1>7, <1>8

(* A client has lost nothing yet. *)
LEMMA ConnectIsCounted ==
  ASSUME EventsKnown, queue' = NoQueues, since' = Len(published), written' = <<>>, UNCHANGED published
  PROVE  LossesAreCounted'
<1> SUFFICES ASSUME NEW qos \in Lower
             PROVE  Cardinality(PublishedTo(qos)') =
                      Cardinality(SentOf(qos)') + Len(queue'[qos].items) + queue'[qos].dropped
                        + queue'[qos].coalesced
  BY DEF LossesAreCounted
<1>1. queue'[qos].items = <<>> /\ queue'[qos].dropped = 0 /\ queue'[qos].coalesced = 0
  BY Sizes DEF NoQueues, FreshQueue
<1>2. Len(published) \in Nat
  BY Numbers
<1>3. PublishedTo(qos)' = {}
  BY <1>2 DEF PublishedTo
<1>4. SentOf(qos)' = {}
  <2>1. DOMAIN <<>> = {}
    OBVIOUS
  <2> QED
    BY <2>1 DEF SentOf
<1>5. Cardinality({}) = 0 /\ Len(<<>>) = 0
  BY FS_EmptySet
<1> QED
  BY <1>1, <1>3, <1>4, <1>5

LEMMA CountGoesOn ==
  ASSUME LossesAreCounted, UNCHANGED <<since, published, written>>, link' = "open" => link = "open",
         \A qos \in Lower :
           /\ queue'[qos].items = queue[qos].items
           /\ queue'[qos].dropped = queue[qos].dropped /\ queue'[qos].coalesced = queue[qos].coalesced
  PROVE  LossesAreCounted'
BY DEF LossesAreCounted, PublishedTo, SentOf

LEMMA UnsentEvent ==
  ASSUME EventsKnown, NEW c, NEW x \in Unsent(c)
  PROVE  x \in QosMessage /\ QosOf[x.topic] = c
BY Numbers DEF Unsent

LEMMA LowerLengths ==
  ASSUME QueuesSound, NEW qos \in QosClass
  PROVE  /\ queue[qos].items \in Seq(QosMessage) /\ Len(queue[qos].items) \in Nat
         /\ Sound(queue[qos], Unsent(qos))
BY LenProperties DEF QueuesSound, Sound, QueueContents

(* The event get() returns is written. *)
LEMMA ServeInvariant ==
  ASSUME DeliveryIInv, NEW c \in QosClass, HasData(queue[c]), CanGet(queue[c]),
         Serve(c), UNCHANGED <<link, since, published>>
  PROVE  DeliveryIInv'
<1> DEFINE q == queue[c]
           x == NextItem(q)
           a == AfterGet(q)
<1>1. EventsKnown /\ SinceKnown /\ QueuesSound /\ KeysInOrder /\ LossesAreCounted
  BY DEF DeliveryIInv
<1>2. Sound(q, Unsent(c))
  BY <1>1, LowerLengths
<1>3. /\ x \in Unsent(c) /\ Sound(a, Unsent(c) \ {x})
      /\ Len(a.items) <= Len(q.items) /\ Len(a.retry) <= Len(q.retry)
  <2> HIDE DEF q
  <2>1. CanGet(q)
    BY DEF q
  <2> QED
    BY <1>2, <2>1, GetIsSound
<1>4. /\ DOMAIN queue' = QosClass /\ written' = Append(written, x) /\ consumer' # "waiting"
      /\ \A qos \in QosClass \ {"critical"} : queue'[qos] = IF qos = c THEN a ELSE queue[qos]
      /\ queue'["critical"] = RetryTick(IF c = "critical" THEN a ELSE queue["critical"])
  BY <1>1, Sizes DEF QueuesSound, Serve
<1>5. x \in QosMessage /\ QosOf[x.topic] = c
  BY <1>1, <1>3, UnsentEvent
<1>6. SinceKnown'
  BY <1>1 DEF SinceKnown
<1> HIDE DEF a, x
<1>7. EventsKnown' /\ QueuesSound'
  BY <1>1, <1>3, <1>4, SendKeepsQueues
<1>8. KeysInOrder'
  <2>1. CASE c = "important"
    <3>1. queue'["important"] = AfterGet(queue["important"])
      BY <1>4, <2>1, Sizes DEF a
    <3>2. written' = Append(written, NextItem(queue["important"])) /\ HasData(queue["important"])
      BY <1>4, <2>1 DEF x
    <3> QED
      BY <1>1, <3>1, <3>2, SendKeepsKeys
  <2>2. CASE c # "important"
    <3>1. queue'["important"] = queue["important"]
      BY <1>4, <2>2, Sizes
    <3> QED
      BY <1>1, <1>4, <1>5, <2>2, <3>1, SendOtherKeepsKeys
  <2> QED
    BY <2>1, <2>2
<1>9. LossesAreCounted'
  <2>1. ASSUME NEW qos \in Lower
        PROVE  /\ Len(queue'[qos].items) \in Nat
               /\ Len(queue[qos].items) = Len(queue'[qos].items) + IF QosOf[x.topic] = qos THEN 1 ELSE 0
               /\ queue'[qos].dropped = queue[qos].dropped /\ queue'[qos].coalesced = queue[qos].coalesced
    <3>1. qos \in QosClass \ {"critical"}
      BY Sizes DEF Lower, QosClass
    <3>2. CASE qos = c
      <4>1. queue'[qos] = a
        BY <1>4, <3>1, <3>2
      <4>2. /\ Len(a.items) \in Nat /\ Len(q.items) = Len(a.items) + 1
            /\ a.dropped = q.dropped /\ a.coalesced = q.coalesced
        BY <1>1, <3>2, LowerServes DEF a
      <4>3. (IF QosOf[x.topic] = qos THEN 1 ELSE 0) = 1
        BY <1>5, <3>2
      <4> QED
        BY <3>2, <4>1, <4>2, <4>3
    <3>3. CASE qos # c
      <4>1. queue'[qos] = queue[qos] /\ Len(queue[qos].items) \in Nat
        BY <1>1, <1>4, <3>1, <3>3, LowerLengths
      <4>2. (IF QosOf[x.topic] = qos THEN 1 ELSE 0) = 0
        BY <1>5, <3>3
      <4>3. \A n \in Nat : n + 0 = n
        OBVIOUS
      <4>4. Len(queue[qos].items) + 0 = Len(queue[qos].items)
        BY <4>1, <4>3
      <4>5. Len(queue[qos].items) = Len(queue'[qos].items) + IF QosOf[x.topic] = qos THEN 1 ELSE 0
        BY <4>1, <4>2, <4>4
      <4> QED
        BY <4>1, <4>5
    <3> QED
      BY <3>2, <3>3
  <2> QED
    BY <1>1, <1>4, <1>5, <2>1, SendIsCounted
<1> QED
  BY <1>6, <1>7, <1>8, <1>9 DEF DeliveryIInv

(* A queue that is chosen has something to send. *)
LEMMA ChosenHasData ==
  ASSUME AnyData
  PROVE  Choice \in QosClass /\ HasData(queue[Choice])
<1>1. \A qos \in Overdue : HasData(queue[qos])
  BY DEF Overdue
<1>2. HasData(queue["critical"]) \/ HasData(queue["important"]) \/ HasData(queue["best_effort"])
  BY DEF AnyData, QosClass
<1>3. ByPriority \in QosClass /\ HasData(queue[ByPriority])
  BY <1>2 DEF ByPriority, QosClass
<1>4. CASE "important" \in Overdue
  BY <1>1, <1>4 DEF Choice, QosClass
<1>5. CASE "important" \notin Overdue /\ "best_effort" \in Overdue
  BY <1>1, <1>5 DEF Choice, QosClass
<1>6. CASE "important" \notin Overdue /\ "best_effort" \notin Overdue
  BY <1>3, <1>6 DEF Choice
<1> QED
  BY <1>4, <1>5, <1>6

(* Neither the events nor the queues change. *)
LEMMA HoldsGoesOn ==
  ASSUME DeliveryIInv, UNCHANGED <<queue, published, since, written>>,
         link' = "open" => link = "open",
         consumer' = "waiting" => HasData(queue["critical"])
  PROVE  DeliveryIInv'
<1>1. EventsKnown /\ SinceKnown /\ QueuesSound /\ KeysInOrder /\ LossesAreCounted
  BY DEF DeliveryIInv
<1>2. EventsKnown' /\ SinceKnown' /\ KeysInOrder'
  BY <1>1 DEF EventsKnown, SinceKnown, KeysInOrder, OneOfKey
<1>3. \A qos \in QosClass : Unsent(qos)' = Unsent(qos)
  BY DEF Unsent
<1>4. QueuesSound'
  BY <1>1, <1>3 DEF QueuesSound
<1>5. LossesAreCounted'
  BY <1>1, CountGoesOn
<1> QED
  BY <1>2, <1>4, <1>5 DEF DeliveryIInv

LEMMA CycleHolds ==
  ASSUME DeliveryIInv, Cycle
  PROVE  DeliveryIInv'
<1>1. Choice \in QosClass /\ HasData(queue[Choice]) /\ UNCHANGED <<link, published, since>>
  BY ChosenHasData DEF Cycle
<1>2. CASE CanGet(queue[Choice])
  BY <1>1, <1>2, ServeInvariant DEF Cycle
<1>3. CASE ~CanGet(queue[Choice])
  <2>1. consumer' = "waiting" /\ UNCHANGED <<queue, written>>
    BY <1>3 DEF Cycle
  <2>2. Choice \notin Lower
    BY <1>1, <1>3, LowerServes DEF DeliveryIInv
  <2>3. HasData(queue["critical"])
    BY <1>1, <2>2 DEF QosClass, Lower
  <2> QED
    BY <1>1, <2>1, <2>3, HoldsGoesOn
<1> QED
  BY <1>2, <1>3

(* Sooner a new event of CRITICAL than its retries. *)
LEMMA WaitEndsHolds ==
  ASSUME DeliveryIInv, WaitEnds
  PROVE  DeliveryIInv'
<1>1. EventsKnown /\ SinceKnown /\ QueuesSound /\ KeysInOrder /\ LossesAreCounted
  BY DEF DeliveryIInv
<1> DEFINE q == queue["critical"]
<1>2. /\ Sound(q, Unsent("critical")) /\ HasData(q) /\ consumer = "waiting"
      /\ UNCHANGED <<link, since, published>>
  BY <1>1, Sizes DEF QueuesSound, WaitEnds
<1>3. CASE q.items # <<>> /\ ~Serve("critical")
  <2> DEFINE x == Head(q.items)
             a == [q EXCEPT !.items = Tail(@)]
  <2>1. /\ written' = Append(written, x) /\ queue' = [queue EXCEPT !["critical"] = RetryTick(a)]
        /\ consumer' # "waiting"
    BY <1>3 DEF WaitEnds
  <2>2. x \in Unsent("critical") /\ Sound(a, Unsent("critical") \ {x})
    <3> HIDE DEF q
    <3> QED
      BY <1>2, <1>3, TailIsSound
  <2>3. Len(a.items) <= Len(q.items) /\ Len(a.retry) <= Len(q.retry)
    <3>1. /\ q \in QueueContents /\ q.items \in Seq(QosMessage) /\ q.retry \in Seq(RetryEntry)
          /\ Len(q.items) \in Nat /\ Len(q.retry) \in Nat
      BY <1>2, LenProperties DEF Sound, QueueContents
    <3>2. Len(Tail(q.items)) = Len(q.items) - 1
      BY <1>3, <3>1, HeadTailProperties
    <3>3. a.items = Tail(q.items) /\ a.retry = q.retry
      BY <3>1 DEF QueueContents
    <3> QED
      BY <3>1, <3>2, <3>3
  <2> HIDE DEF a, x
  <2>4. /\ DOMAIN queue' = QosClass /\ queue'["critical"] = RetryTick(a)
        /\ \A qos \in QosClass \ {"critical"} : queue'[qos] = queue[qos]
    BY <1>1, <2>1, Sizes DEF QueuesSound
  <2>5. EventsKnown' /\ QueuesSound'
    <3>1. \A qos \in QosClass \ {"critical"} : queue'[qos] = IF qos = "critical" THEN a ELSE queue[qos]
      BY <2>4
    <3>2. queue'["critical"] = RetryTick(IF "critical" = "critical" THEN a ELSE queue["critical"])
      BY <2>4
    <3> QED
      BY <1>1, <1>2, <2>1, <2>2, <2>3, <2>4, <3>1, <3>2, Sizes, SendKeepsQueues
  <2>6. x \in QosMessage /\ QosOf[x.topic] = "critical"
    BY <1>1, <2>2, UnsentEvent
  <2>7. KeysInOrder'
    BY <1>1, <2>1, <2>4, <2>6, Sizes, SendOtherKeepsKeys
  <2>8. LossesAreCounted'
    <3>1. ASSUME NEW qos \in Lower
          PROVE  /\ Len(queue'[qos].items) \in Nat
                 /\ Len(queue[qos].items) = Len(queue'[qos].items) + IF QosOf[x.topic] = qos THEN 1 ELSE 0
                 /\ queue'[qos].dropped = queue[qos].dropped /\ queue'[qos].coalesced = queue[qos].coalesced
      <4>1. qos \in QosClass \ {"critical"}
        BY DEF Lower, QosClass
      <4>2. queue'[qos] = queue[qos] /\ Len(queue[qos].items) \in Nat
        BY <1>1, <2>4, <4>1, LowerLengths
      <4>3. (IF QosOf[x.topic] = qos THEN 1 ELSE 0) = 0
        BY <2>6, <4>1
      <4>4. \A n \in Nat : n + 0 = n
        OBVIOUS
      <4>5. Len(queue[qos].items) + 0 = Len(queue[qos].items)
        BY <4>2, <4>4
      <4>6. Len(queue[qos].items) = Len(queue'[qos].items) + IF QosOf[x.topic] = qos THEN 1 ELSE 0
        BY <4>2, <4>3, <4>5
      <4> QED
        BY <4>2, <4>6
    <3> QED
      BY <1>1, <1>2, <2>1, <2>6, <3>1, SendIsCounted
  <2> QED
    BY <1>1, <1>2, <2>5, <2>7, <2>8 DEF DeliveryIInv, SinceKnown
<1>4. CASE Serve("critical") /\ q.items = <<>>
  <2>1. q.retry # <<>> /\ \A i \in DOMAIN q.retry : q.retry[i].wait = 0
    BY <1>2, <1>4 DEF WaitEnds, HasData
  <2>2. q.retry \in Seq(RetryEntry)
    BY <1>2 DEF Sound, QueueContents
  <2>3. 1 \in DOMAIN q.retry
    BY <2>1, <2>2, EmptySeq, LenProperties
  <2>4. CanGet(q)
    BY <2>1, <2>3 DEF CanGet, Due
  <2> QED
    BY <1>2, <1>4, <2>4, Sizes, ServeInvariant
<1>5. CASE Serve("critical") /\ q.items # <<>>
  <2>1. CanGet(q)
    BY <1>5 DEF CanGet
  <2> QED
    BY <1>2, <1>5, <2>1, Sizes, ServeInvariant
<1> QED
  BY <1>3, <1>4, <1>5 DEF WaitEnds

LEMMA PublishHolds ==
  ASSUME DeliveryIInv, NEW topic \in Topics, BridgePublish(topic)
  PROVE  DeliveryIInv'
<1> DEFINE m == [topic |-> topic, n |-> Len(published) + 1]
<1>1. EventsKnown /\ SinceKnown /\ QueuesSound /\ KeysInOrder /\ LossesAreCounted
  BY DEF DeliveryIInv
<1>2. /\ Len(published) < MaxPublished /\ published' = Append(published, m)
      /\ UNCHANGED <<link, since, written>>
  BY DEF BridgePublish
<1>3. m = [topic |-> topic, n |-> Len(published) + 1]
  OBVIOUS
<1> HIDE DEF m
<1>4. /\ EventsKnown' /\ ToSet(published') = ToSet(published) \cup {m}
      /\ Len(published') = Len(published) + 1 /\ Len(published) \in Nat
  BY <1>1, <1>2, <1>3, PublishedGrows, Numbers
<1>5. SinceKnown'
  BY <1>1, <1>2, <1>4 DEF SinceKnown
<1>6. CASE /\ queue' = [queue EXCEPT ![QosOf[topic]] = Put(QosOf[topic], @, m, MaxSize[QosOf[topic]])]
           /\ UNCHANGED consumer
  <2>1. OneOfKey(queue["important"])
    BY <1>1 DEF KeysInOrder
  <2>2. QueuesSound'
    BY <1>1, <1>2, <1>3, <1>6, <2>1, PutKeepsQueues
  <2>3. KeysInOrder'
    BY <1>1, <1>2, <1>3, <1>6, PutKeepsKeys
  <2>4. LossesAreCounted'
    BY <1>1, <1>2, <1>3, <1>6, PutIsCounted
  <2> QED
    BY <1>4, <1>5, <2>2, <2>3, <2>4 DEF DeliveryIInv
<1>7. CASE link = "closing" /\ consumer' = "none" /\ queue' = NoQueues
  <2>1. LossesAreCounted'
    BY <1>2, <1>7 DEF LossesAreCounted
  <2> QED
    BY <1>1, <1>2, <1>4, <1>5, <1>7, <2>1, EmptiedQueues, EmptiedKeys DEF DeliveryIInv
<1>8. CASE link = "none" /\ UNCHANGED <<consumer, queue>>
  <2>1. LossesAreCounted'
    BY <1>2, <1>8 DEF LossesAreCounted
  <2>2. KeysInOrder'
    BY <1>1, <1>2, <1>8 DEF KeysInOrder, OneOfKey
  <2>3. \A qos \in QosClass : Unsent(qos) \subseteq Unsent(qos)'
    BY <1>2, <1>4 DEF Unsent
  <2>4. \A qos \in QosClass : Sound(queue[qos], Unsent(qos)')
    BY <1>1, <2>3 DEF QueuesSound, Sound
  <2>5. QueuesSound'
    BY <1>1, <1>8, <2>4 DEF QueuesSound
  <2> QED
    BY <1>4, <1>5, <2>1, <2>2, <2>5 DEF DeliveryIInv
<1> QED
  BY <1>6, <1>7, <1>8 DEF BridgePublish, m

(* The queues go with the connection, or come with it. *)
LEMMA ConnectionHolds ==
  ASSUME DeliveryIInv, Connect \/ Disconnect
  PROVE  DeliveryIInv'
<1>1. EventsKnown /\ SinceKnown /\ QueuesSound /\ KeysInOrder /\ LossesAreCounted
  BY DEF DeliveryIInv
<1>2. /\ queue' = NoQueues /\ consumer' # "waiting" /\ UNCHANGED published
      /\ written' = written \/ written' = <<>>
  BY DEF Connect, Disconnect
<1>3. QueuesSound' /\ KeysInOrder'
  BY <1>1, <1>2, EmptiedQueues, EmptiedKeys
<1>4. EventsKnown'
  <2>1. <<>> \in Seq(QosMessage) /\ DOMAIN <<>> = {} /\ ToSet(<<>>) = {}
    BY DEF ToSet
  <2>2. CASE written' = <<>>
    BY <1>1, <1>2, <2>1, <2>2 DEF EventsKnown
  <2>3. CASE written' = written
    BY <1>1, <1>2, <2>3 DEF EventsKnown
  <2> QED
    BY <1>2, <2>2, <2>3
<1>5. SinceKnown' /\ LossesAreCounted'
  <2>1. CASE Connect
    <3>1. LossesAreCounted'
      BY <1>1, <2>1, ConnectIsCounted DEF Connect
    <3>2. SinceKnown'
      BY <1>1, <2>1, Numbers DEF SinceKnown, Connect
    <3> QED
      BY <3>1, <3>2
  <2>2. CASE Disconnect
    BY <1>1, <2>2 DEF Disconnect, LossesAreCounted, SinceKnown
  <2> QED
    BY <2>1, <2>2
<1> QED
  BY <1>3, <1>4, <1>5 DEF DeliveryIInv

(* The retries grow older. *)
LEMMA AgingHolds ==
  ASSUME DeliveryIInv, WakeUp \/ TimePasses
  PROVE  DeliveryIInv'
<1>1. EventsKnown /\ SinceKnown /\ QueuesSound /\ KeysInOrder /\ LossesAreCounted
  BY DEF DeliveryIInv
<1>2. /\ UNCHANGED <<link, published, since, written>>
      /\ \/ queue' = [queue EXCEPT !["critical"] = RetryTick(@)] /\ consumer' # "waiting"
         \/ queue' = [queue EXCEPT !["critical"] = Elapse(@)] /\ UNCHANGED consumer
  BY DEF WakeUp, TimePasses
<1>3. /\ DOMAIN queue' = QosClass
      /\ \A qos \in QosClass \ {"critical"} : queue'[qos] = queue[qos]
      /\ \/ queue'["critical"] = RetryTick(queue["critical"]) /\ consumer' # "waiting"
         \/ queue'["critical"] = Elapse(queue["critical"]) /\ UNCHANGED consumer
  BY <1>1, <1>2, Sizes DEF QueuesSound
<1>4. QueuesSound'
  BY <1>1, <1>2, <1>3, AgingKeepsQueues
<1>5. \A qos \in Lower : queue'[qos] = queue[qos]
  BY <1>3 DEF Lower, QosClass
<1>6. KeysInOrder'
  BY <1>1, <1>2, <1>5 DEF KeysInOrder, OneOfKey, Lower
<1>7. LossesAreCounted'
  BY <1>1, <1>2, <1>5, CountGoesOn
<1> QED
  BY <1>1, <1>2, <1>4, <1>6, <1>7 DEF DeliveryIInv, EventsKnown, SinceKnown

LEMMA DeliveryInitInvariant == BridgeInit => DeliveryIInv
<1> SUFFICES ASSUME BridgeInit PROVE DeliveryIInv
  OBVIOUS
<1>1. /\ queue = NoQueues /\ consumer = "none" /\ link = "none" /\ since = 0
      /\ published = <<>> /\ written = <<>>
  BY DEF BridgeInit
<1>2. <<>> \in Seq(QosMessage) /\ DOMAIN <<>> = {} /\ ToSet(<<>>) = {} /\ Len(<<>>) = 0
  BY DEF ToSet
<1>3. EventsKnown /\ SinceKnown
  BY <1>1, <1>2, Sizes DEF EventsKnown, SinceKnown
<1>4. DOMAIN queue = QosClass /\ \A qos \in QosClass : queue[qos] = FreshQueue
  BY <1>1 DEF NoQueues
<1>5. FreshQueue.items = <<>> /\ FreshQueue.retry = <<>>
  BY DEF FreshQueue
<1>6. QueuesSound
  BY <1>1, <1>2, <1>4, <1>5, FreshIsSound, Sizes DEF QueuesSound
<1>7. KeysInOrder
  BY <1>1, <1>2, <1>4, <1>5, Sizes DEF KeysInOrder, OneOfKey
<1>8. LossesAreCounted
  BY <1>1 DEF LossesAreCounted
<1> QED
  BY <1>3, <1>6, <1>7, <1>8 DEF DeliveryIInv

LEMMA DeliveryNextInvariant ==
  ASSUME DeliveryIInv, [BridgeNext]_bridgeVars
  PROVE  DeliveryIInv'
<1>1. CASE \E topic \in Topics : BridgePublish(topic)
  BY <1>1, PublishHolds
<1>2. CASE Connect \/ Disconnect
  BY <1>2, ConnectionHolds
<1>3. CASE WakeUp \/ TimePasses
  BY <1>3, AgingHolds
<1>4. CASE LinkLost \/ ConsumerStops \/ FallAsleep \/ Drained \/ UNCHANGED bridgeVars
  <2>1. /\ UNCHANGED <<queue, published, since, written>>
        /\ link' = "open" => link = "open"
        /\ consumer' = "waiting" => consumer = "waiting"
    BY <1>4 DEF LinkLost, ConsumerStops, FallAsleep, Drained, bridgeVars
  <2>2. consumer' = "waiting" => HasData(queue["critical"])
    BY <2>1 DEF DeliveryIInv, QueuesSound
  <2> QED
    BY <2>1, <2>2, HoldsGoesOn
<1> QED
  BY <1>1, <1>2, <1>3, <1>4, CycleHolds, WaitEndsHolds DEF BridgeNext

LEMMA DeliveryInvariant == BridgeSpec => []DeliveryIInv
BY DeliveryInitInvariant, DeliveryNextInvariant, PTL DEF BridgeSpec

LEMMA HoldsCounts == DeliveryIInv => LossesAreCounted
BY DEF DeliveryIInv

(* The counters of the two queues below CRITICAL tell every loss.          *)
THEOREM LossesBelowCriticalAreCounted == BridgeSpec => []LossesAreCounted
BY DeliveryInvariant, HoldsCounts, PTL

LEMMA HoldsProgress == DeliveryIInv => ProgressNeverGoesBack
<1> SUFFICES ASSUME DeliveryIInv PROVE ProgressNeverGoesBack
  OBVIOUS
<1> DEFINE items == queue["important"].items
           all == written \o items
           w == Len(written)
<1>1. EventsKnown /\ QueuesSound /\ KeysInOrder
  BY DEF DeliveryIInv
<1>2. /\ written \in Seq(QosMessage) /\ items \in Seq(QosMessage)
      /\ w \in Nat /\ Len(items) \in Nat
      /\ DOMAIN written = 1 .. w /\ DOMAIN items = 1 .. Len(items)
  BY <1>1, Sizes, LowerLengths, LenProperties DEF EventsKnown
<1>3. /\ DOMAIN all = 1 .. (w + Len(items))
      /\ \A i \in DOMAIN all : \/ i \in DOMAIN written /\ i <= w /\ all[i] = written[i]
                               \/ i > w /\ i - w \in DOMAIN items /\ all[i] = items[i - w]
  <2>1. /\ all \in Seq(QosMessage) /\ Len(all) = w + Len(items)
        /\ \A i \in 1 .. Len(all) : all[i] = IF i <= w THEN written[i] ELSE items[i - w]
    BY <1>2, ConcatProperties
  <2>2. DOMAIN all = 1 .. (w + Len(items))
    BY <2>1, LenProperties
  <2> HIDE DEF items, all, w
  <2>3. ASSUME NEW i \in DOMAIN all
        PROVE  \/ i \in DOMAIN written /\ i <= w /\ all[i] = written[i]
               \/ i > w /\ i - w \in DOMAIN items /\ all[i] = items[i - w]
    <3>1. CASE i <= w
      BY <1>2, <2>1, <2>2, <3>1
    <3>2. CASE ~(i <= w)
      BY <1>2, <2>1, <2>2, <3>2
    <3> QED
      BY <3>1, <3>2
  <2> QED
    BY <2>2, <2>3
<1>4. /\ OneOfKey(queue["important"])
      /\ \A i, j \in DOMAIN written :
           KeyOf[written[i].topic] = KeyOf[written[j].topic] /\ KeyOf[written[i].topic] # NoKey /\ i < j
           => written[i].n < written[j].n
      /\ \A i \in DOMAIN written, j \in DOMAIN items :
           KeyOf[written[i].topic] = KeyOf[items[j].topic] /\ KeyOf[items[j].topic] # NoKey
           => written[i].n < items[j].n
  BY <1>1 DEF KeysInOrder
<1>5. \A i, j \in DOMAIN items :
        KeyOf[items[i].topic] = KeyOf[items[j].topic] /\ KeyOf[items[i].topic] # NoKey => i = j
  BY <1>4 DEF OneOfKey
<1> HIDE DEF items, all, w
<1>6. ASSUME NEW i \in DOMAIN all, NEW j \in DOMAIN all,
             KeyOf[all[i].topic] = KeyOf[all[j].topic], KeyOf[all[i].topic] # NoKey, i < j
      PROVE  all[i].n < all[j].n /\ i <= w
  <2>1. i \in Nat /\ j \in Nat
    BY <1>2, <1>3
  <2>2. CASE i <= w
    <3>1. i \in DOMAIN written /\ all[i] = written[i]
      BY <1>2, <1>3, <2>1, <2>2
    <3>2. CASE j <= w
      <4>1. j \in DOMAIN written /\ all[j] = written[j]
        BY <1>2, <1>3, <2>1, <3>2
      <4> QED
        BY <1>4, <1>6, <2>2, <3>1, <4>1
    <3>3. CASE j > w
      <4>1. PICK k \in DOMAIN items : all[j] = items[k]
        BY <1>2, <1>3, <2>1, <3>3
      <4> QED
        BY <1>4, <1>6, <2>2, <3>1, <4>1
    <3> QED
      BY <1>2, <2>1, <3>2, <3>3
  <2>3. CASE i > w
    <3>1. i - w \in DOMAIN items /\ all[i] = items[i - w] /\ j - w \in DOMAIN items /\ all[j] = items[j - w]
      BY <1>2, <1>3, <1>6, <2>1, <2>3
    <3>2. i - w = j - w
      BY <1>5, <1>6, <3>1
    <3> QED
      BY <1>2, <1>6, <2>1, <3>2
  <2> QED
    BY <1>2, <2>1, <2>2, <2>3
<1> QED
  BY <1>6 DEF ProgressNeverGoesBack, all, items, w

(* What a client is told of a job or a finding never goes back.            *)
THEOREM ProgressGoesForward == BridgeSpec => []ProgressNeverGoesBack
BY DeliveryInvariant, HoldsProgress, PTL

LEMMA HoldsOnce == DeliveryIInv => AtMostOnce
<1> SUFFICES ASSUME DeliveryIInv PROVE AtMostOnce
  OBVIOUS
<1> DEFINE c == queue["critical"].items
           i == queue["important"].items
           b == queue["best_effort"].items
           r == Retrying
           M == QosMessage
<1>1. EventsKnown /\ QueuesSound
  BY DEF DeliveryIInv
<1>2. /\ written \in Seq(M) /\ Distinct(written)
  BY <1>1 DEF EventsKnown, Distinct
<1>3. \A qos \in QosClass :
        /\ queue[qos].items \in Seq(M) /\ Distinct(queue[qos].items)
        /\ ToSet(queue[qos].items) \subseteq Unsent(qos)
  BY <1>1 DEF QueuesSound, Sound, Distinct, QueueContents
<1>4. /\ c \in Seq(M) /\ Distinct(c) /\ ToSet(c) \subseteq Unsent("critical")
      /\ i \in Seq(M) /\ Distinct(i) /\ ToSet(i) \subseteq Unsent("important")
      /\ b \in Seq(M) /\ Distinct(b) /\ ToSet(b) \subseteq Unsent("best_effort")
  BY <1>3 DEF QosClass
<1>5. /\ r \in Seq(M) /\ Distinct(r) /\ ToSet(r) \subseteq Unsent("critical")
      /\ ToSet(c) \cap ToSet(r) = {}
  <2> DEFINE s == queue["critical"].retry
  <2>1. Sound(queue["critical"], Unsent("critical"))
    BY <1>1 DEF QueuesSound, QosClass
  <2>2. s \in Seq(RetryEntry)
    BY <2>1 DEF Sound, QueueContents
  <2>3. DOMAIN r = DOMAIN s /\ \A k \in DOMAIN s : r[k] = s[k].msg
    BY DEF Retrying
  <2>4. PICK n \in Nat : s \in [1 .. n -> RetryEntry]
    BY <2>2, SeqDef
  <2>5. \A k \in 1 .. n : s[k].msg \in M
    BY <2>4 DEF RetryEntry
  <2>6. r \in [1 .. n -> M]
    BY <2>4, <2>5 DEF Retrying
  <2>7. r \in Seq(M)
    BY <2>6, SeqDef
  <2>8. ToSet(r) = Retried(queue["critical"])
    BY <2>3 DEF ToSet, Retried
  <2>9. Distinct(r)
    BY <2>1, <2>3 DEF Sound, Distinct
  <2> QED
    BY <2>1, <2>7, <2>8, <2>9 DEF Sound
<1>6. /\ Unsent("critical") \cap ToSet(written) = {}
      /\ Unsent("important") \cap ToSet(written) = {}
      /\ Unsent("best_effort") \cap ToSet(written) = {}
      /\ Unsent("critical") \cap Unsent("important") = {}
      /\ Unsent("critical") \cap Unsent("best_effort") = {}
      /\ Unsent("important") \cap Unsent("best_effort") = {}
  BY DEF Unsent
<1> HIDE DEF c, i, b, r, M
<1> DEFINE s1 == written \o c
           s2 == s1 \o r
           s3 == s2 \o i
           s4 == s3 \o b
<1>7. s1 \in Seq(M) /\ Distinct(s1) /\ ToSet(s1) = ToSet(written) \cup ToSet(c)
  <2>1. ToSet(written) \cap ToSet(c) = {}
    BY <1>4, <1>6
  <2> QED
    BY <1>2, <1>4, <2>1, ConcatIsDistinct
<1> HIDE DEF s1
<1>8. s2 \in Seq(M) /\ Distinct(s2) /\ ToSet(s2) = ToSet(written) \cup ToSet(c) \cup ToSet(r)
  <2>1. ToSet(s1) \cap ToSet(r) = {}
    BY <1>5, <1>6, <1>7
  <2> QED
    BY <1>5, <1>7, <2>1, ConcatIsDistinct
<1> HIDE DEF s2
<1>9. s3 \in Seq(M) /\ Distinct(s3) /\ ToSet(s3) = ToSet(s2) \cup ToSet(i)
  <2>1. ToSet(s2) \cap ToSet(i) = {}
    BY <1>4, <1>5, <1>6, <1>8
  <2> QED
    BY <1>4, <1>8, <2>1, ConcatIsDistinct
<1> HIDE DEF s3
<1>10. Distinct(s4)
  <2>1. ToSet(s3) \cap ToSet(b) = {}
    BY <1>4, <1>5, <1>6, <1>8, <1>9
  <2> QED
    BY <1>4, <1>9, <2>1, ConcatIsDistinct
<1> QED
  BY <1>10 DEF AtMostOnce, Distinct, s1, s2, s3, s4, c, i, b, r

(* No event reaches a client twice, and none that was sent waits again.    *)
THEOREM EventsAreSentOnce == BridgeSpec => []AtMostOnce
BY DeliveryInvariant, HoldsOnce, PTL

Link == /\ link \in {"none", "open", "closing"}
        /\ consumer \in {"none", "loop", "sleeping", "waiting", "draining", "ended"}

LEMMA LinkAlways == BridgeSpec => []Link
<1>1. BridgeInit => Link
  BY DEF BridgeInit, Link
<1>2. Link /\ [BridgeNext]_bridgeVars => Link'
  BY DEF Link, BridgeNext, bridgeVars, BridgePublish, Connect, LinkLost, Disconnect, ConsumerStops,
         FallAsleep, WakeUp, Cycle, Serve, WaitEnds, Drained, TimePasses
<1> QED
  BY <1>1, <1>2, PTL DEF BridgeSpec

LEMMA HoldsTypes ==
  ASSUME DeliveryIInv, Link, starve \in [Lower -> Nat], bypassed \in [Lower -> Nat]
  PROVE  BridgeTypeOK
<1> DEFINE Event == [topic : Topics, n : 1 .. MaxPublished]
<1>1. EventsKnown /\ QueuesSound /\ SinceKnown
  BY DEF DeliveryIInv
<1>2. ToSet(published) \subseteq Event
  <2> SUFFICES ASSUME NEW m \in ToSet(published) PROVE m \in Event
    OBVIOUS
  <2>1. m \in QosMessage /\ m.n \in 1 .. Len(published) /\ Len(published) \in Nat
        /\ Len(published) <= MaxPublished
    BY <1>1, Numbers DEF EventsKnown
  <2>2. m.n \in 1 .. MaxPublished
    BY <2>1, Sizes
  <2> QED
    BY <2>1, <2>2 DEF QosMessage
<1>3. ToSet(written) \subseteq Event /\ \A qos \in QosClass : Unsent(qos) \subseteq Event
  BY <1>1, <1>2 DEF EventsKnown, Unsent
<1>4. ASSUME NEW qos \in QosClass
      PROVE  /\ ToSet(queue[qos].items) \subseteq Event
             /\ Len(queue[qos].items) <= MaxSize[qos]
             /\ Len(queue[qos].retry) <= IF qos = "critical" THEN RetryLimit ELSE 0
             /\ \A k \in DOMAIN queue[qos].retry :
                  queue[qos].retry[k] \in [msg : Event, wait : 0 .. 4, attempts : 1 .. MaxRetries]
  <2>1. Sound(queue[qos], Unsent(qos))
    BY <1>1 DEF QueuesSound
  <2> DEFINE s == queue[qos].retry
  <2>2. \A k \in DOMAIN s : s[k] \in RetryEntry /\ s[k].msg \in Event
    <3>1. s \in Seq(RetryEntry)
      BY <2>1 DEF Sound, QueueContents
    <3>2. \A k \in DOMAIN s : s[k] \in RetryEntry
      BY <3>1, ElementOfSeq, LenProperties
    <3>3. \A k \in DOMAIN s : s[k].msg \in Event
      BY <1>3, <2>1 DEF Sound, Retried
    <3> QED
      BY <3>2, <3>3
  <2> HIDE DEF Event
  <2>3. \A k \in DOMAIN s : s[k] \in [msg : Event, wait : 0 .. 4, attempts : 1 .. MaxRetries]
    BY <2>2 DEF RetryEntry
  <2>4. /\ Len(queue[qos].items) <= MaxSize[qos]
        /\ Len(queue[qos].retry) <= IF qos = "critical" THEN RetryLimit ELSE 0
    BY <1>1 DEF QueuesSound
  <2> QED
    BY <1>3, <2>1, <2>3, <2>4 DEF Sound
<1> QED
  BY <1>1, <1>2, <1>3, <1>4 DEF BridgeTypeOK, Link, SinceKnown

(* The queues of a client keep their sizes, the retries their limit. *)
THEOREM BridgeTypeCorrect == BridgeSpec => []BridgeTypeOK
<1>1. BridgeIInv => starve \in [Lower -> Nat] /\ bypassed \in [Lower -> Nat]
  BY DEF BridgeIInv, AgesTyped
<1>2. DeliveryIInv /\ Link /\ BridgeIInv => BridgeTypeOK
  BY <1>1, HoldsTypes
<1> QED
  BY <1>2, DeliveryInvariant, LinkAlways, BridgeInvariant, PTL

-----------------------------------------------------------------------------
(* The channel of a client (LossyChannel). *)

(* What an operation does to all that a queue holds. *)
LEMMA WithinBounds ==
  ASSUME NEW C, NEW q, Sound(q, C)
  PROVE  Sound(q, Within(q)) /\ Within(q) \subseteq C
BY DEF Sound, Within, Retried

LEMMA EmptyRetry ==
  ASSUME NEW C, NEW q, Sound(q, C), Len(q.retry) <= 0
  PROVE  q.retry = <<>> /\ Due(q) = {} /\ Within(q) = ToSet(q.items)
<1>1. q.retry \in Seq(RetryEntry)
  BY DEF Sound, QueueContents
<1>2. q.retry = <<>>
  BY <1>1, EmptySeq, LenProperties
<1>3. DOMAIN <<>> = {}
  OBVIOUS
<1> QED
  BY <1>2, <1>3 DEF Due, Within

(* An event below CRITICAL finds room, takes the place of an earlier value, *)
(* or is dropped while no earlier value waits.                             *)
LEMMA DropContents ==
  ASSUME NEW C, NEW q, Sound(q, C), NEW m \in QosMessage, NEW size
  PROVE  LET p == EnqueueDrop(q, m, size)
         IN Within(p) \in {Within(q), Within(q) \cup {m}}
<1>1. q \in QueueContents /\ q.items \in Seq(QosMessage)
  BY DEF Sound, QueueContents
<1>2. CASE Len(q.items) < size
  <2>1. /\ EnqueueDrop(q, m, size).items = Append(q.items, m)
        /\ EnqueueDrop(q, m, size).retry = q.retry
    BY <1>1, <1>2 DEF EnqueueDrop, QueueContents
  <2>2. ToSet(Append(q.items, m)) = ToSet(q.items) \cup {m}
    BY <1>1, AppendedSet
  <2> QED
    BY <2>1, <2>2 DEF Within
<1>3. CASE ~(Len(q.items) < size)
  <2>1. EnqueueDrop(q, m, size).items = q.items /\ EnqueueDrop(q, m, size).retry = q.retry
    BY <1>1, <1>3 DEF EnqueueDrop, QueueContents
  <2> QED
    BY <2>1 DEF Within
<1> QED
  BY <1>2, <1>3

SameKeyWithin(q, m) ==
  {w \in Within(q) : KeyOf[m.topic] # NoKey /\ KeyOf[w.topic] = KeyOf[m.topic]}

LEMMA CoalesceContents ==
  ASSUME NEW C, NEW q, Sound(q, C), Len(q.retry) <= 0, OneOfKey(q), NEW m \in QosMessage, NEW size
  PROVE  LET p == EnqueueCoalesce(q, m, size)
         IN \/ Within(p) = (Within(q) \ SameKeyWithin(q, m)) \cup {m}
            \/ Within(p) = Within(q) /\ SameKeyWithin(q, m) = {}
<1>1. q \in QueueContents /\ q.retry = <<>> /\ Within(q) = ToSet(q.items)
  BY EmptyRetry DEF Sound
<1>2. \A i, j \in DOMAIN q.items : q.items[i] = q.items[j] => i = j
  BY DEF Sound
<1>3. CASE /\ EnqueueCoalesce(q, m, size) = EnqueueDrop(q, m, size)
           /\ KeyOf[m.topic] = NoKey \/ SameKey(q, m) = {}
  <2>1. SameKeyWithin(q, m) = {}
    BY <1>1, <1>3 DEF SameKeyWithin, SameKey, ToSet
  <2> QED
    BY <1>3, <2>1, DropContents
<1>4. ASSUME KeyOf[m.topic] # NoKey, NEW at \in DOMAIN q.items, SameKey(q, m) = {at},
             EnqueueCoalesce(q, m, size) = ReplacedAt(q, at, m)
      PROVE  Within(EnqueueCoalesce(q, m, size)) = (Within(q) \ SameKeyWithin(q, m)) \cup {m}
  <2> DEFINE r == ReplacedAt(q, at, m)
  <2>1. /\ r.retry = q.retry /\ DOMAIN r.items = DOMAIN q.items
        /\ \A i \in DOMAIN q.items : r.items[i] = IF i = at THEN m ELSE q.items[i]
    BY <1>1, ReplacedCounts
  <2> HIDE DEF r
  <2>2. DOMAIN <<>> = {}
    OBVIOUS
  <2>3. Within(r) = ToSet(r.items)
    BY <1>1, <2>1, <2>2 DEF Within
  <2>4. SameKeyWithin(q, m) = {q.items[at]}
    <3>1. \A i \in DOMAIN q.items : KeyOf[q.items[i].topic] = KeyOf[m.topic] <=> i = at
      BY <1>4 DEF SameKey
    <3> QED
      BY <1>1, <1>4, <3>1 DEF SameKeyWithin, ToSet
  <2>5. ToSet(r.items) = (ToSet(q.items) \ {q.items[at]}) \cup {m}
    BY <1>2, <1>4, <2>1 DEF ToSet
  <2> QED
    BY <1>1, <1>4, <2>3, <2>4, <2>5 DEF r
<1> QED
  BY <1>3, <1>4, CoalesceCases

LEMMA PutContents ==
  ASSUME NEW qos \in QosClass, NEW C, NEW q, Sound(q, C), NEW m \in QosMessage, m \notin C,
         NEW size \in Nat, qos = "important" => OneOfKey(q), Len(q.items) <= size,
         Len(q.retry) <= IF qos = "critical" THEN RetryLimit ELSE 0,
         KeyOf[m.topic] # NoKey => qos = "important"
  PROVE  LET p == Put(qos, q, m, size)
         IN /\ Within(p) \subseteq Within(q) \cup {m}
            /\ \/ qos = "critical"
               \/ Within(p) = (Within(q) \ SameKeyWithin(q, m)) \cup {m}
               \/ Within(p) = Within(q) /\ SameKeyWithin(q, m) = {}
<1> DEFINE p == Put(qos, q, m, size)
<1>1. Sound(q, Within(q)) /\ Within(q) \subseteq C
  BY WithinBounds
<1>2. m \notin Within(q)
  BY <1>1
<1>3. Sound(p, Within(q) \cup {m})
  BY <1>1, <1>2, PutIsSound, Zenon
<1>4. Within(p) \subseteq Within(q) \cup {m}
  <2> HIDE DEF p
  <2> QED
    BY <1>3, WithinBounds
<1>5. CASE qos = "important"
  <2>1. p = EnqueueCoalesce(q, m, size)
    BY <1>5 DEF Put
  <2>2. Len(q.retry) <= 0
    BY <1>5
  <2> QED
    BY <1>4, <1>5, <2>1, <2>2, CoalesceContents
<1>6. CASE qos = "best_effort"
  <2>1. p = EnqueueDrop(q, m, size)
    BY <1>6 DEF Put
  <2>2. SameKeyWithin(q, m) = {}
    BY <1>6 DEF SameKeyWithin
  <2>3. (Within(q) \ SameKeyWithin(q, m)) \cup {m} = Within(q) \cup {m}
    BY <2>2
  <2> QED
    BY <1>4, <2>1, <2>2, <2>3, DropContents
<1> QED
  BY <1>4, <1>5, <1>6 DEF QosClass

(* The events without a key are in the order of publication. *)
Fifo(s) ==
  \A i, j \in DOMAIN s : i < j /\ KeyOf[s[i].topic] = NoKey /\ KeyOf[s[j].topic] = NoKey
                         => s[i].n < s[j].n

ClassesInOrder == \A qos \in Lower : Fifo(queue[qos].items)

LEMMA AppendFifo ==
  ASSUME NEW s \in Seq(QosMessage), Fifo(s), NEW m \in QosMessage, \A x \in ToSet(s) : x.n < m.n
  PROVE  Fifo(Append(s, m))
<1>1. /\ Len(s) \in Nat /\ DOMAIN s = 1 .. Len(s) /\ DOMAIN Append(s, m) = 1 .. Len(s) + 1
      /\ Append(s, m)[Len(s) + 1] = m /\ \A i \in DOMAIN s : Append(s, m)[i] = s[i]
  BY AppendedSet
<1>2. \A i \in DOMAIN s : s[i].n < m.n
  BY DEF ToSet
<1> DEFINE t == Append(s, m)
<1> SUFFICES ASSUME NEW i \in DOMAIN t, NEW j \in DOMAIN t, i < j,
                    KeyOf[t[i].topic] = NoKey, KeyOf[t[j].topic] = NoKey
             PROVE  t[i].n < t[j].n
  BY DEF Fifo
<1> HIDE DEF t
<1>3. i \in DOMAIN s
  BY <1>1 DEF t
<1>4. CASE j \in DOMAIN s
  BY <1>1, <1>3, <1>4 DEF Fifo, t
<1>5. CASE j = Len(s) + 1
  BY <1>1, <1>2, <1>3, <1>5 DEF t
<1> QED
  BY <1>1, <1>4, <1>5 DEF t

LEMMA TailFifo ==
  ASSUME NEW s \in Seq(QosMessage), Fifo(s), s # <<>>
  PROVE  /\ Fifo(Tail(s))
         /\ KeyOf[Head(s).topic] = NoKey =>
              \A x \in ToSet(s) : KeyOf[x.topic] = NoKey => Head(s).n <= x.n
<1>1. /\ Len(s) \in Nat \ {0} /\ DOMAIN s = 1 .. Len(s) /\ Head(s) = s[1]
      /\ Tail(s) \in Seq(QosMessage) /\ Len(Tail(s)) = Len(s) - 1
      /\ DOMAIN Tail(s) = 1 .. Len(s) - 1
      /\ \A i \in 1 .. Len(Tail(s)) : Tail(s)[i] = s[i + 1]
  BY HeadTailProperties, LenProperties, EmptySeq
<1>2. Fifo(Tail(s))
  <2> DEFINE t == Tail(s)
  <2> SUFFICES ASSUME NEW i \in DOMAIN t, NEW j \in DOMAIN t, i < j,
                      KeyOf[t[i].topic] = NoKey, KeyOf[t[j].topic] = NoKey
               PROVE  t[i].n < t[j].n
    BY DEF Fifo
  <2> HIDE DEF t
  <2>1. i + 1 \in DOMAIN s /\ j + 1 \in DOMAIN s /\ i + 1 < j + 1
    BY <1>1 DEF t
  <2>2. t[i] = s[i + 1] /\ t[j] = s[j + 1]
    BY <1>1 DEF t
  <2> QED
    BY <2>1, <2>2 DEF Fifo
<1>3. ASSUME KeyOf[Head(s).topic] = NoKey, NEW x \in ToSet(s), KeyOf[x.topic] = NoKey
      PROVE  Head(s).n <= x.n
  <2>1. PICK i \in DOMAIN s : x = s[i]
    BY DEF ToSet
  <2>2. /\ s[1] \in QosMessage /\ s[1].n \in Nat /\ 1 \in DOMAIN s
        /\ s[i] \in QosMessage /\ s[i].n \in Nat
    <3>1. 1 \in DOMAIN s /\ i \in DOMAIN s
      BY <1>1
    <3>2. s[1] \in QosMessage /\ s[i] \in QosMessage
      BY <3>1, ElementOfSeq
    <3> QED
      BY <3>1, <3>2 DEF QosMessage
  <2>3. CASE i = 1
    BY <1>1, <2>1, <2>2, <2>3
  <2>4. CASE i # 1
    <3>1. 1 < i
      BY <1>1, <2>4
    <3>2. s[1].n < s[i].n
      BY <1>1, <1>3, <2>1, <2>2, <3>1 DEF Fifo
    <3> QED
      BY <1>1, <2>1, <2>2, <3>2
  <2> QED
    BY <2>3, <2>4
<1> QED
  BY <1>2, <1>3

LEMMA PutFifo ==
  ASSUME NEW qos \in Lower, NEW q \in QueueContents, Fifo(q.items), NEW m \in QosMessage,
         \A x \in ToSet(q.items) : x.n < m.n, NEW size, qos = "important" => OneOfKey(q)
  PROVE  Fifo(Put(qos, q, m, size).items)
<1>1. q.items \in Seq(QosMessage)
  BY DEF QueueContents
<1>2. Fifo(EnqueueDrop(q, m, size).items)
  <2>1. EnqueueDrop(q, m, size).items \in {q.items, Append(q.items, m)}
    BY DEF EnqueueDrop, QueueContents
  <2> QED
    BY <1>1, <2>1, AppendFifo
<1>3. CASE qos = "important"
  <2>1. Put(qos, q, m, size) = EnqueueCoalesce(q, m, size)
    BY <1>3 DEF Put
  <2>2. ASSUME KeyOf[m.topic] # NoKey, NEW at \in DOMAIN q.items, SameKey(q, m) = {at},
               EnqueueCoalesce(q, m, size) = ReplacedAt(q, at, m)
        PROVE  Fifo(EnqueueCoalesce(q, m, size).items)
    <3> DEFINE r == ReplacedAt(q, at, m)
    <3>1. /\ DOMAIN r.items = DOMAIN q.items
          /\ \A i \in DOMAIN q.items : r.items[i] = IF i = at THEN m ELSE q.items[i]
      BY ReplacedCounts
    <3> HIDE DEF r
    <3>2. Fifo(r.items)
      BY <2>2, <3>1 DEF Fifo
    <3> QED
      BY <2>2, <3>2 DEF r
  <2> QED
    BY <1>2, <1>3, <2>1, <2>2, CoalesceCases
<1>4. CASE qos = "best_effort"
  BY <1>2, <1>4 DEF Put
<1> QED
  BY <1>3, <1>4 DEF Lower

LEMMA WithinKnown ==
  ASSUME DeliveryIInv, NEW qos \in QosClass, NEW w \in Within(queue[qos])
  PROVE  /\ w \in QosMessage /\ QosOf[w.topic] = qos /\ w \in Waiting
         /\ w.n \in Nat /\ w.n < Len(published) + 1
<1>1. EventsKnown /\ Sound(queue[qos], Unsent(qos))
  BY DEF DeliveryIInv, QueuesSound
<1>2. w \in Unsent(qos)
  BY <1>1, WithinBounds
<1>3. w \in ToSet(published) /\ QosOf[w.topic] = qos
  BY <1>2 DEF Unsent
<1>4. w \in QosMessage /\ w.n \in 1 .. Len(published) /\ Len(published) \in Nat
  BY <1>1, <1>3, Numbers
<1> QED
  BY <1>3, <1>4 DEF Waiting

(* get() takes the first event of a queue below CRITICAL, and no other. *)
LEMMA LowerTakesFirst ==
  ASSUME DeliveryIInv, NEW c \in Lower, HasData(queue[c]), Fifo(queue[c].items)
  PROVE  LET q == queue[c]
             x == NextItem(q)
             a == AfterGet(q)
         IN /\ CanGet(q) /\ Fifo(a.items)
            /\ \A w \in Within(q) : w # x => w \in Within(a)
            /\ KeyOf[x.topic] = NoKey => \A w \in Within(q) : KeyOf[w.topic] = NoKey => x.n <= w.n
<1> DEFINE q == queue[c]
           a == AfterGet(q)
<1>1. QueuesSound /\ Sound(q, Unsent(c)) /\ Len(q.retry) <= 0 /\ q.items \in Seq(QosMessage)
  BY Sizes DEF DeliveryIInv, QueuesSound, Lower, Sound, QueueContents
<1>2. q.retry = <<>> /\ Due(q) = {} /\ Within(q) = ToSet(q.items)
  BY <1>1, EmptyRetry
<1>3. q.items # <<>> /\ CanGet(q) /\ NextItem(q) = Head(q.items) /\ a = [q EXCEPT !.items = Tail(@)]
  BY <1>2 DEF HasData, CanGet, NextItem, AfterGet
<1>4. a.items = Tail(q.items) /\ a.retry = <<>>
  BY <1>1, <1>2, <1>3 DEF Sound, QueueContents
<1>5. \A w \in ToSet(q.items) : w # Head(q.items) => w \in ToSet(Tail(q.items))
  <2>1. /\ Len(q.items) \in Nat \ {0} /\ DOMAIN q.items = 1 .. Len(q.items)
        /\ Head(q.items) = q.items[1] /\ DOMAIN Tail(q.items) = 1 .. Len(q.items) - 1
        /\ \A i \in 1 .. Len(q.items) - 1 : Tail(q.items)[i] = q.items[i + 1]
    BY <1>1, <1>3, HeadTailProperties, LenProperties, EmptySeq
  <2> SUFFICES ASSUME NEW i \in DOMAIN q.items, q.items[i] # Head(q.items)
               PROVE  q.items[i] \in ToSet(Tail(q.items))
    BY DEF ToSet
  <2>2. i - 1 \in DOMAIN Tail(q.items) /\ Tail(q.items)[i - 1] = q.items[i]
    BY <2>1
  <2> QED
    BY <2>2 DEF ToSet
<1> HIDE DEF q, a
<1>6. ToSet(a.items) \subseteq Within(a)
  BY DEF Within
<1> QED
  BY <1>1, <1>2, <1>3, <1>4, <1>5, <1>6, TailFifo DEF q, a

(* The queues after one event of a class was sent. *)
LEMMA SendsOne ==
  ASSUME DeliveryIInv, NEW c \in QosClass, NEW x \in Within(queue[c]), NEW a,
         Sound(a, Within(queue[c]) \ {x}),
         c # "critical" =>
           /\ \A w \in Within(queue[c]) : w # x => w \in Within(a)
           /\ KeyOf[x.topic] = NoKey =>
                \A w \in Within(queue[c]) : KeyOf[w.topic] = NoKey => x.n <= w.n,
         written' = Append(written, x), UNCHANGED <<link, published>>,
         \A qos \in QosClass \ {"critical"} : queue'[qos] = IF qos = c THEN a ELSE queue[qos],
         queue'["critical"] = RetryTick(IF c = "critical" THEN a ELSE queue["critical"])
  PROVE  Channel!Next
<1>1. x \in Waiting /\ QosOf[x.topic] = c
  BY WithinKnown
<1>2. Channel!InTurn(x)
  <2>1. ASSUME c # "critical", KeyOf[x.topic] = NoKey, NEW w \in Waiting,
               QosOf[w.topic] = c, KeyOf[w.topic] = NoKey
        PROVE  x.n <= w.n
    <3>1. PICK d \in QosClass : w \in Within(queue[d])
      BY DEF Waiting
    <3>2. d = c
      BY <2>1, <3>1, WithinKnown
    <3> QED
      BY <2>1, <3>1, <3>2
  <2> QED
    BY <1>1, <2>1 DEF Channel!InTurn, Channel!Critical, Channel!Keyed
<1>3. ASSUME NEW d \in QosClass, d # c
      PROVE  x \notin Within(queue[d])
  BY <1>1, <1>3, WithinKnown
<1>4. Within(a) \subseteq Within(queue[c]) \ {x}
  BY WithinBounds
<1>5. Within(queue'["critical"]) \subseteq Within(queue["critical"]) \ {x}
  <2>1. CASE c = "critical"
    <3>1. Sound(RetryTick(a), Within(queue[c]) \ {x})
      BY TickIsSound
    <3> QED
      BY <2>1, <3>1, WithinBounds
  <2>2. CASE c # "critical"
    <3>1. Sound(queue["critical"], Within(queue["critical"]))
      BY Sizes, WithinBounds DEF DeliveryIInv, QueuesSound
    <3>2. Sound(RetryTick(queue["critical"]), Within(queue["critical"]))
      BY <3>1, TickIsSound
    <3> QED
      BY <1>3, <2>2, <3>2, Sizes, WithinBounds
  <2> QED
    BY <2>1, <2>2
<1>6. ASSUME NEW d \in QosClass
      PROVE  Within(queue'[d]) \subseteq Within(queue[d]) \ {x}
  BY <1>3, <1>4, <1>5
<1>7. ASSUME NEW d \in QosClass, d # "critical", NEW w \in Within(queue[d]), w # x
      PROVE  w \in Within(queue'[d])
  BY <1>7
<1>8. Waiting' \subseteq Waiting \ {x}
  BY <1>6 DEF Waiting
<1>9. \A w \in (Waiting \ {x}) \ Waiting' : QosOf[w.topic] = "critical"
  <2> SUFFICES ASSUME NEW w \in Waiting, w # x, QosOf[w.topic] # "critical"
               PROVE  w \in Waiting'
    OBVIOUS
  <2>1. PICK d \in QosClass : w \in Within(queue[d])
    BY DEF Waiting
  <2>2. d # "critical"
    BY <2>1, WithinKnown
  <2> QED
    BY <1>7, <2>1, <2>2 DEF Waiting
<1>10. Channel!Send(x)
  BY <1>2, <1>8, <1>9 DEF Channel!Send, Channel!RemainOf, Channel!Critical
<1> QED
  BY <1>1, <1>10 DEF Channel!Next

LEMMA ServeRefines ==
  ASSUME DeliveryIInv, ClassesInOrder, NEW c \in QosClass, HasData(queue[c]), CanGet(queue[c]),
         Serve(c), UNCHANGED <<link, since, published>>
  PROVE  Channel!Next /\ ClassesInOrder'
<1> DEFINE q == queue[c]
           x == NextItem(q)
           a == AfterGet(q)
<1>1. QueuesSound /\ Sound(q, Within(q))
  BY WithinBounds DEF DeliveryIInv, QueuesSound
<1>2. x \in Within(q) /\ Sound(a, Within(q) \ {x})
  <2> HIDE DEF q
  <2>1. CanGet(q)
    BY DEF q
  <2> QED
    BY <1>1, <2>1, GetIsSound
<1>3. /\ DOMAIN queue' = QosClass /\ written' = Append(written, x)
      /\ \A qos \in QosClass \ {"critical"} : queue'[qos] = IF qos = c THEN a ELSE queue[qos]
      /\ queue'["critical"] = RetryTick(IF c = "critical" THEN a ELSE queue["critical"])
  BY <1>1, Sizes DEF QueuesSound, Serve
<1>4. c # "critical" =>
        /\ c \in Lower /\ Fifo(a.items)
        /\ \A w \in Within(q) : w # x => w \in Within(a)
        /\ KeyOf[x.topic] = NoKey => \A w \in Within(q) : KeyOf[w.topic] = NoKey => x.n <= w.n
  <2>1. c # "critical" => c \in Lower
    BY DEF QosClass, Lower
  <2> QED
    BY <2>1, LowerTakesFirst DEF ClassesInOrder
<1> HIDE DEF a, x
<1>5. Channel!Next
  BY <1>2, <1>3, <1>4, SendsOne
<1>6. ClassesInOrder'
  <2>1. ASSUME NEW qos \in Lower
        PROVE  Fifo(queue'[qos].items)
    <3>1. qos \in QosClass \ {"critical"}
      BY DEF QosClass, Lower
    <3> QED
      BY <1>3, <1>4, <3>1 DEF ClassesInOrder
  <2> QED
    BY <2>1 DEF ClassesInOrder
<1> QED
  BY <1>5, <1>6

(* What the channel is seen by, and the order, stay as they are. *)
Unseen == UNCHANGED <<link, queue, published, written>>

LEMMA UnseenRefines ==
  ASSUME ClassesInOrder, Unseen
  PROVE  UNCHANGED Channel!channelVars /\ ClassesInOrder'
BY DEF Unseen, Channel!channelVars, Waiting, ClassesInOrder

LEMMA CycleRefines ==
  ASSUME DeliveryIInv, ClassesInOrder, Cycle
  PROVE  [Channel!Next]_(Channel!channelVars) /\ ClassesInOrder'
<1>1. Choice \in QosClass /\ HasData(queue[Choice]) /\ UNCHANGED <<link, published, since>>
  BY ChosenHasData DEF Cycle
<1>2. CASE CanGet(queue[Choice])
  BY <1>1, <1>2, ServeRefines DEF Cycle
<1>3. CASE ~CanGet(queue[Choice])
  <2>1. Unseen
    BY <1>1, <1>3 DEF Cycle, Unseen
  <2> QED
    BY <2>1, UnseenRefines
<1> QED
  BY <1>2, <1>3

(* get() returned a new event of CRITICAL, or a retry that is due. *)
LEMMA WaitEndsRefines ==
  ASSUME DeliveryIInv, ClassesInOrder, WaitEnds
  PROVE  Channel!Next /\ ClassesInOrder'
<1> DEFINE q == queue["critical"]
<1>1. /\ QueuesSound /\ Sound(q, Within(q)) /\ HasData(q)
      /\ UNCHANGED <<link, since, published>>
  BY WithinBounds, Sizes DEF DeliveryIInv, QueuesSound, WaitEnds
<1>2. CASE q.items # <<>> /\ ~Serve("critical")
  <2> DEFINE x == Head(q.items)
             a == [q EXCEPT !.items = Tail(@)]
  <2>1. written' = Append(written, x) /\ queue' = [queue EXCEPT !["critical"] = RetryTick(a)]
    BY <1>2 DEF WaitEnds
  <2>2. x \in Within(q) /\ Sound(a, Within(q) \ {x})
    <3> HIDE DEF q
    <3> QED
      BY <1>1, <1>2, TailIsSound
  <2> HIDE DEF a, x
  <2>3. /\ DOMAIN queue' = QosClass /\ queue'["critical"] = RetryTick(a)
        /\ \A qos \in QosClass \ {"critical"} : queue'[qos] = queue[qos]
    BY <1>1, <2>1, Sizes DEF QueuesSound
  <2>4. /\ \A qos \in QosClass \ {"critical"} :
             queue'[qos] = IF qos = "critical" THEN a ELSE queue[qos]
        /\ queue'["critical"] = RetryTick(IF "critical" = "critical" THEN a ELSE queue["critical"])
    BY <2>3
  <2>5. Channel!Next
    BY <1>1, <2>1, <2>2, <2>4, Sizes, SendsOne
  <2>6. ClassesInOrder'
    BY <2>3 DEF ClassesInOrder, Lower, QosClass
  <2> QED
    BY <2>5, <2>6
<1>3. CASE Serve("critical")
  <2>1. CASE q.items # <<>>
    BY <1>1, <1>3, <2>1, Sizes, ServeRefines DEF CanGet
  <2>2. CASE q.items = <<>>
    <3>1. q.retry # <<>> /\ (q.items # <<>> \/ \A i \in DOMAIN q.retry : q.retry[i].wait = 0)
      BY <1>1, <2>2 DEF WaitEnds, HasData
    <3>2. q.retry \in Seq(RetryEntry)
      BY <1>1 DEF Sound, QueueContents
    <3>3. 1 \in DOMAIN q.retry
      BY <3>1, <3>2, EmptySeq, LenProperties
    <3>4. CanGet(q)
      BY <2>2, <3>1, <3>3 DEF CanGet, Due
    <3> QED
      BY <1>1, <1>3, <3>4, Sizes, ServeRefines
  <2> QED
    BY <2>1, <2>2
<1> QED
  BY <1>2, <1>3 DEF WaitEnds

(* An event is put into its queue, while the client is connected. *)
LEMMA PutOffers ==
  ASSUME DeliveryIInv, NEW topic \in Topics,
         NEW m, m = [topic |-> topic, n |-> Len(published) + 1], m \in QosMessage,
         NEW c, c = QosOf[topic], NEW p, Within(p) \subseteq Within(queue[c]) \cup {m},
         \/ c = "critical"
         \/ Within(p) = (Within(queue[c]) \ SameKeyWithin(queue[c], m)) \cup {m}
         \/ Within(p) = Within(queue[c]) /\ SameKeyWithin(queue[c], m) = {},
         queue'[c] = p, \A qos \in QosClass \ {c} : queue'[qos] = queue[qos],
         link = "open", UNCHANGED <<link, written>>, Len(published') = Len(published) + 1
  PROVE  Channel!Offer(topic)
<1>1. c \in QosClass /\ m.topic = topic
  BY BridgeAssumption
<1>2. Channel!Superseded(m) = SameKeyWithin(queue[c], m)
  <2>1. ASSUME NEW w \in Waiting, KeyOf[m.topic] # NoKey, KeyOf[w.topic] = KeyOf[m.topic]
        PROVE  w \in Within(queue[c])
    <3>1. PICK d \in QosClass : w \in Within(queue[d])
      BY DEF Waiting
    <3>2. QosOf[w.topic] = d /\ w.topic \in Topics
      BY <3>1, WithinKnown DEF QosMessage
    <3>3. d = c
      BY <1>1, <2>1, <3>2, BridgeAssumption
    <3> QED
      BY <3>1, <3>3
  <2>2. Within(queue[c]) \subseteq Waiting
    BY <1>1 DEF Waiting
  <2> QED
    BY <2>1, <2>2 DEF Channel!Superseded, Channel!Keyed, SameKeyWithin
<1>3. c = "critical" => SameKeyWithin(queue[c], m) = {}
  BY <1>1, BridgeAssumption DEF SameKeyWithin
<1>4. SameKeyWithin(queue[c], m) \subseteq Within(queue[c])
  BY DEF SameKeyWithin
<1>5. PICK others : others = UNION {Within(queue[d]) : d \in QosClass \ {c}}
  OBVIOUS
<1>6. Waiting = others \cup Within(queue[c]) /\ Waiting' = others \cup Within(p)
  <2>1. \A w : w \in others <=> \E d \in QosClass \ {c} : w \in Within(queue[d])
    BY <1>5
  <2>2. \A w : w \in Waiting <=> \E d \in QosClass : w \in Within(queue[d])
    BY DEF Waiting
  <2>3. \A w : w \in Waiting' <=> \E d \in QosClass : w \in Within(queue'[d])
    BY DEF Waiting
  <2>4. \A w : w \in Waiting <=> w \in others \/ w \in Within(queue[c])
    BY <1>1, <2>1, <2>2
  <2>5. \A w : w \in Waiting' <=> w \in others \/ w \in Within(p)
    BY <1>1, <2>1, <2>3
  <2> QED
    BY <2>4, <2>5
<1>7. \A w \in Within(queue[c]) : QosOf[w.topic] = c
  BY <1>1, WithinKnown
<1>8. others \cap Within(queue[c]) = {}
  <2> SUFFICES ASSUME NEW w \in others, w \in Within(queue[c]) PROVE FALSE
    OBVIOUS
  <2>1. PICK d \in QosClass \ {c} : w \in Within(queue[d])
    BY <1>5
  <2> QED
    BY <1>7, <2>1, WithinKnown
<1>9. CASE c = "critical"
  <2>1. Waiting' \subseteq Waiting \cup {m} /\ Channel!Superseded(m) = {}
    BY <1>2, <1>3, <1>6, <1>9
  <2>2. ASSUME NEW w \in (Waiting \cup {m}) \ Waiting'
        PROVE  QosOf[w.topic] = "critical"
    <3>1. w \in Within(queue[c]) \cup {m}
      BY <1>6, <2>2
    <3> QED
      BY <1>1, <1>7, <1>9, <3>1
  <2>3. Channel!RemainOf((Waiting \ Channel!Superseded(m)) \cup {m})
    BY <2>1, <2>2 DEF Channel!RemainOf, Channel!Critical
  <2> QED
    BY <2>3 DEF Channel!Offer
<1>10. CASE Within(p) = (Within(queue[c]) \ SameKeyWithin(queue[c], m)) \cup {m}
  <2>1. Waiting' = (Waiting \ Channel!Superseded(m)) \cup {m}
    BY <1>2, <1>4, <1>6, <1>8, <1>10
  <2>2. Channel!RemainOf((Waiting \ Channel!Superseded(m)) \cup {m})
    BY <2>1 DEF Channel!RemainOf
  <2> QED
    BY <2>2 DEF Channel!Offer
<1>11. CASE c # "critical" /\ Within(p) = Within(queue[c]) /\ SameKeyWithin(queue[c], m) = {}
  <2>1. Waiting' = Waiting
    BY <1>6, <1>11
  <2> QED
    BY <1>1, <1>2, <1>11, <2>1 DEF Channel!Offer, Channel!Critical
<1> QED
  BY <1>9, <1>10, <1>11

(* The queues go with the connection. *)
LEMMA NothingWaits ==
  ASSUME queue' = NoQueues
  PROVE  Waiting' = {} /\ ClassesInOrder'
<1>1. DOMAIN queue' = QosClass /\ \A qos \in QosClass : queue'[qos] = FreshQueue
  BY DEF NoQueues
<1>2. FreshQueue.items = <<>> /\ FreshQueue.retry = <<>> /\ DOMAIN <<>> = {}
  BY DEF FreshQueue
<1>3. \A qos \in QosClass : Within(queue'[qos]) = {} /\ Fifo(queue'[qos].items)
  BY <1>1, <1>2 DEF Within, ToSet, Fifo
<1> QED
  BY <1>3, Sizes DEF Waiting, ClassesInOrder

LEMMA PublishRefines ==
  ASSUME DeliveryIInv, ClassesInOrder, NEW topic \in Topics, BridgePublish(topic)
  PROVE  Channel!Offer(topic) /\ ClassesInOrder'
<1>1. PICK m : m = [topic |-> topic, n |-> Len(published) + 1]
  OBVIOUS
<1>2. EventsKnown /\ QueuesSound /\ KeysInOrder
  BY DEF DeliveryIInv
<1>3. /\ Len(published) < MaxPublished /\ published' = Append(published, m)
      /\ UNCHANGED <<link, since, written>>
  BY <1>1 DEF BridgePublish
<1>4. /\ m \in QosMessage /\ m.topic = topic /\ m \notin ToSet(published)
      /\ Len(published') = Len(published) + 1 /\ m.n = Len(published) + 1
  BY <1>1, <1>2, <1>3, PublishedGrows
<1>5. CASE /\ link = "open"
           /\ queue' = [queue EXCEPT ![QosOf[topic]] = Put(QosOf[topic], @, m, MaxSize[QosOf[topic]])]
  <2>1. PICK c : c = QosOf[topic]
    OBVIOUS
  <2>2. PICK q : q = queue[c]
    OBVIOUS
  <2>3. PICK p : p = Put(c, q, m, MaxSize[c])
    OBVIOUS
  <2>4. c \in QosClass /\ MaxSize[c] \in Nat /\ (KeyOf[m.topic] # NoKey => c = "important")
    BY <2>1, <1>4, BridgeAssumption, Sizes
  <2>5. /\ queue'[c] = p /\ \A qos \in QosClass \ {c} : queue'[qos] = queue[qos]
    BY <1>2, <1>5, <2>1, <2>2, <2>3, <2>4 DEF QueuesSound
  <2>6. /\ Sound(q, Unsent(c)) /\ Len(q.items) <= MaxSize[c]
        /\ Len(q.retry) <= IF c = "critical" THEN RetryLimit ELSE 0
        /\ c = "important" => OneOfKey(q)
        /\ m \notin Unsent(c)
    BY <1>2, <1>4, <2>2, <2>4 DEF QueuesSound, KeysInOrder, Unsent
  <2>7. /\ Within(p) \subseteq Within(q) \cup {m}
        /\ \/ c = "critical"
           \/ Within(p) = (Within(q) \ SameKeyWithin(q, m)) \cup {m}
           \/ Within(p) = Within(q) /\ SameKeyWithin(q, m) = {}
    BY <1>4, <2>3, <2>4, <2>6, PutContents
  <2>8. Channel!Offer(topic)
    BY <1>1, <1>3, <1>4, <1>5, <2>1, <2>2, <2>5, <2>7, PutOffers
  <2>9. ASSUME NEW qos \in Lower
        PROVE  Fifo(queue'[qos].items)
    <3>1. CASE qos # c
      BY <2>5, <3>1, Sizes DEF ClassesInOrder
    <3>2. CASE qos = c
      <4>1. \A x \in ToSet(q.items) : x.n < m.n
        <5>1. ToSet(q.items) \subseteq Within(queue[c])
          BY <2>2 DEF Within
        <5> QED
          BY <1>4, <2>4, <5>1, WithinKnown
      <4>2. Fifo(q.items) /\ q \in QueueContents
        BY <2>2, <2>6, <3>2 DEF ClassesInOrder, Sound
      <4> QED
        BY <1>4, <2>3, <2>5, <2>6, <3>2, <4>1, <4>2, PutFifo
    <3> QED
      BY <3>1, <3>2
  <2> QED
    BY <2>8, <2>9 DEF ClassesInOrder
<1>6. CASE link = "closing" /\ queue' = NoQueues
  <2>1. Waiting' = {} /\ ClassesInOrder'
    BY <1>6, NothingWaits
  <2>2. link # "open" /\ link' # "open"
    BY <1>3, <1>6
  <2> QED
    BY <1>3, <1>4, <2>1, <2>2 DEF Channel!Offer
<1>7. CASE link = "none" /\ UNCHANGED queue
  <2>1. Waiting' = Waiting /\ ClassesInOrder'
    BY <1>7 DEF Waiting, ClassesInOrder
  <2>2. link # "open" /\ link' # "open"
    BY <1>3, <1>7
  <2> QED
    BY <1>3, <1>4, <2>1, <2>2 DEF Channel!Offer
<1> QED
  BY <1>1, <1>5, <1>6, <1>7 DEF BridgePublish

LEMMA ConnectionRefines ==
  ASSUME ClassesInOrder, Connect \/ LinkLost \/ Disconnect
  PROVE  Channel!Next /\ ClassesInOrder'
<1>1. CASE Connect
  BY <1>1, NothingWaits DEF Connect, Channel!Next, Channel!Open
<1>2. CASE LinkLost
  <2>1. Waiting' = Waiting /\ ClassesInOrder'
    BY <1>2 DEF LinkLost, Waiting, ClassesInOrder
  <2> QED
    BY <1>2, <2>1 DEF LinkLost, Channel!Next, Channel!Close
<1>3. CASE Disconnect
  <2>1. Waiting' = {} /\ ClassesInOrder' /\ link' = "none" /\ UNCHANGED <<published, written>>
    BY <1>3, NothingWaits DEF Disconnect
  <2>2. CASE link = "open"
    BY <2>1, <2>2 DEF Channel!Next, Channel!Close
  <2>3. CASE link # "open"
    BY <2>1, <2>3 DEF Channel!Next, Channel!Lose
  <2> QED
    BY <2>2, <2>3
<1> QED
  BY <1>1, <1>2, <1>3

(* The retries grow older; some are given up. *)
LEMMA AgingRefines ==
  ASSUME DeliveryIInv, ClassesInOrder, WakeUp \/ TimePasses
  PROVE  Channel!Next /\ ClassesInOrder'
<1>1. QueuesSound /\ Sound(queue["critical"], Within(queue["critical"]))
  BY WithinBounds, Sizes DEF DeliveryIInv, QueuesSound
<1>2. /\ UNCHANGED <<link, published, written>>
      /\ \A qos \in QosClass \ {"critical"} : queue'[qos] = queue[qos]
      /\ queue'["critical"] \in {RetryTick(queue["critical"]), Elapse(queue["critical"])}
  BY <1>1, Sizes DEF WakeUp, TimePasses, QueuesSound
<1>3. Within(queue'["critical"]) \subseteq Within(queue["critical"])
  <2>1. Sound(queue'["critical"], Within(queue["critical"]))
    BY <1>1, <1>2, TickIsSound, ElapseIsSound
  <2> QED
    BY <2>1, WithinBounds
<1>4. Waiting' \subseteq Waiting
  <2>1. \A qos \in QosClass : Within(queue'[qos]) \subseteq Within(queue[qos])
    BY <1>2, <1>3
  <2> QED
    BY <2>1 DEF Waiting
<1>5. ASSUME NEW w \in Waiting, QosOf[w.topic] # "critical"
      PROVE  w \in Waiting'
  <2>1. PICK d \in QosClass : w \in Within(queue[d])
    BY DEF Waiting
  <2>2. d # "critical"
    BY <1>5, <2>1, WithinKnown
  <2> QED
    BY <1>2, <2>1, <2>2 DEF Waiting
<1>6. Channel!RemainOf(Waiting)
  BY <1>4, <1>5 DEF Channel!RemainOf, Channel!Critical
<1>7. ClassesInOrder'
  BY <1>2 DEF ClassesInOrder, Lower, QosClass
<1> QED
  BY <1>2, <1>4, <1>6, <1>7 DEF Channel!Next, Channel!Lose

LEMMA BridgeNextRefines ==
  ASSUME DeliveryIInv, ClassesInOrder, [BridgeNext]_bridgeVars
  PROVE  [Channel!Next]_(Channel!channelVars) /\ ClassesInOrder'
<1>1. CASE \E topic \in Topics : BridgePublish(topic)
  BY <1>1, PublishRefines DEF Channel!Next
<1>2. CASE Connect \/ LinkLost \/ Disconnect
  BY <1>2, ConnectionRefines
<1>3. CASE WakeUp \/ TimePasses
  BY <1>3, AgingRefines
<1>4. CASE ConsumerStops \/ FallAsleep \/ Drained \/ UNCHANGED bridgeVars
  <2>1. Unseen
    BY <1>4 DEF Unseen, ConsumerStops, FallAsleep, Drained, bridgeVars
  <2> QED
    BY <2>1, UnseenRefines
<1>5. CASE Cycle
  BY <1>5, CycleRefines
<1>6. CASE WaitEnds
  BY <1>6, WaitEndsRefines
<1> QED
  BY <1>1, <1>2, <1>3, <1>4, <1>5, <1>6 DEF BridgeNext

(* Whatever the sizes, the traffic and the losses: what a client of the     *)
(* bridge gets is what a LossyChannel gives it.                            *)
THEOREM BridgeIsLossyChannel == BridgeSpec => ImplementsChannel
<1>1. BridgeInit => Channel!Init /\ ClassesInOrder
  <2> SUFFICES ASSUME BridgeInit PROVE Channel!Init /\ ClassesInOrder
    OBVIOUS
  <2>1. \A qos \in QosClass : queue[qos] = FreshQueue
    BY DEF BridgeInit, NoQueues
  <2>2. FreshQueue.items = <<>> /\ FreshQueue.retry = <<>> /\ DOMAIN <<>> = {}
    BY DEF FreshQueue
  <2>3. \A qos \in QosClass : Within(queue[qos]) = {} /\ Fifo(queue[qos].items)
    BY <2>1, <2>2 DEF Within, ToSet, Fifo
  <2>4. Waiting = {} /\ ClassesInOrder
    BY <2>3, Sizes DEF Waiting, ClassesInOrder
  <2>5. link # "open" /\ Len(published) = 0 /\ written = <<>>
    BY DEF BridgeInit
  <2> QED
    BY <2>4, <2>5 DEF Channel!Init
<1>2. DeliveryIInv /\ ClassesInOrder /\ [BridgeNext]_bridgeVars
        => [Channel!Next]_(Channel!channelVars) /\ ClassesInOrder'
  BY BridgeNextRefines
<1> QED
  BY <1>1, <1>2, DeliveryInvariant, PTL DEF BridgeSpec, ImplementsChannel, Channel!Spec

(* An event below CRITICAL that was queued is not lost while the client     *)
(* stays connected: it is sent, or gives way to a later value of its key.   *)
THEOREM QueuedIsSentOrReplaced == BridgeSpec => Channel!WaitingIsKept
<1> DEFINE KeepsAll ==
      link = "open" /\ (link = "open")' =>
        \A w \in Waiting : Channel!Critical(w) \/ Channel!KeptOrSent(w)
<1>1. [Channel!Next]_(Channel!channelVars) => [KeepsAll]_(Channel!channelVars)
  <2> SUFFICES ASSUME Channel!Next, link = "open", link' = "open", NEW w \in Waiting,
                      ~Channel!Critical(w)
               PROVE  Channel!KeptOrSent(w)
    OBVIOUS
  <2>1. ASSUME NEW topic \in Topics, Channel!Offer(topic)
        PROVE  Channel!KeptOrSent(w)
    <3>1. PICK m : m = [topic |-> topic, n |-> Len(published) + 1]
      OBVIOUS
    <3>2. \/ Channel!RemainOf((Waiting \ Channel!Superseded(m)) \cup {m})
          \/ Waiting' = Waiting
      BY <2>1, <3>1 DEF Channel!Offer
    <3>3. m.n = Len(published)' /\ m.topic = topic
      BY <2>1, <3>1 DEF Channel!Offer
    <3>4. CASE w \in Channel!Superseded(m) /\ w \notin Waiting'
      <4>1. KeyOf[w.topic] = KeyOf[m.topic] /\ KeyOf[m.topic] # NoKey
        BY <3>4 DEF Channel!Superseded, Channel!Keyed
      <4>2. ~Channel!Critical(m)
        BY <3>3, <4>1, BridgeAssumption DEF Channel!Critical
      <4>3. m \in Waiting'
        BY <3>2, <3>4, <4>2 DEF Channel!RemainOf
      <4> QED
        BY <3>3, <4>1, <4>3 DEF Channel!KeptOrSent, Channel!Keyed
    <3>5. CASE w \notin Channel!Superseded(m)
      BY <3>2, <3>5 DEF Channel!RemainOf, Channel!KeptOrSent
    <3> QED
      BY <3>4, <3>5 DEF Channel!KeptOrSent
  <2>2. ASSUME NEW m \in Waiting, Channel!Send(m)
        PROVE  Channel!KeptOrSent(w)
    BY <2>2 DEF Channel!Send, Channel!RemainOf, Channel!KeptOrSent
  <2>3. ASSUME Channel!Lose
        PROVE  Channel!KeptOrSent(w)
    BY <2>3 DEF Channel!Lose, Channel!RemainOf, Channel!KeptOrSent
  <2> QED
    BY <2>1, <2>2, <2>3 DEF Channel!Next, Channel!Close, Channel!Open
<1>2. BridgeSpec => Channel!Spec
  BY BridgeIsLossyChannel DEF ImplementsChannel
<1> QED
  BY <1>1, <1>2, PTL DEF Channel!Spec, Channel!WaitingIsKept

-----------------------------------------------------------------------------
(* The rooms of the WebSocket clients (Rooms). *)

In == {"in", "left"}   \* where a client is that has joined its room

RoomEvent == [channel : RoomChannels, session : RoomSessions \cup {"none"},
              job : RoomJobs \cup {"none"}, room : RoomIds \cup {NoRoom},
              members : SUBSET Sockets, disturbed : BOOLEAN, over : BOOLEAN]

Broadcast == [event : Nat, set : Nat, size : Nat, visited : SUBSET Sockets,
              at : Sockets \cup {"none"}, dead : SUBSET Sockets]

RoomsTyped ==
  /\ rooms \in [RoomIds -> Nat] /\ sets \in Seq(SUBSET Sockets)
  /\ socket \in [Sockets -> [at : {"out", "accepting"} \cup In,
                             room : RoomIds \cup {NoRoom}, alive : BOOLEAN]]
  /\ cast \in [RoomChannels -> Broadcast] /\ events \in Seq(RoomEvent)
  /\ got \in [Sockets -> Seq(Nat)]

(* A room has a set of its own, and somebody in it. *)
NamesHold ==
  /\ \A r \in RoomIds : rooms[r] # 0 => rooms[r] \in DOMAIN sets /\ sets[rooms[r]] # {}
  /\ \A r, q \in RoomIds : rooms[r] = rooms[q] /\ rooms[r] # 0 => r = q

SetsHold ==
  \A k \in DOMAIN sets :
    IsFiniteSet(sets[k]) /\ \A s \in sets[k] : socket[s].at \in In

SocketsHold == \A s \in Sockets : socket[s].at # "out" => socket[s].room \in RoomIds

(* A broadcast knows its event and its set, which is that of the room of   *)
(* the event as long as anybody is in it; whom it has met is of that room. *)
CastHolds(c) ==
  LET b == cast[c]
  IN b.event # 0 =>
       /\ b.event \in DOMAIN events /\ events[b.event].room \in RoomIds
       /\ b.set \in DOMAIN sets /\ b.size # 0
       /\ sets[b.set] # {} => rooms[events[b.event].room] = b.set
       /\ b.at \in Sockets
       /\ \A s \in b.visited \cup {b.at} :
            socket[s].at \in In /\ socket[s].room = events[b.event].room
       /\ \A s \in b.dead : socket[s].at \in In /\ ~socket[s].alive

OneCast == \A c, d \in RoomChannels : cast[c].event = cast[d].event /\ cast[c].event # 0 => c = d

Got(s, n) == \E k \in DOMAIN got[s] : got[s][k] = n

(* What a client has received was for its room, and came once if nothing    *)
(* disturbed the broadcast; an event that is on its way and was not         *)
(* disturbed has reached those it has left behind, and nobody else.        *)
HeardBy(s) ==
  /\ \A k \in DOMAIN got[s] :
       /\ socket[s].at \in In /\ got[s][k] \in DOMAIN events
       /\ events[got[s][k]].room = socket[s].room
  /\ \A i, j \in DOMAIN got[s] :
       got[s][i] = got[s][j] => i = j \/ events[got[s][i]].disturbed

CastHeard(c) ==
  LET b == cast[c]
  IN b.event # 0 /\ ~events[b.event].disturbed =>
       /\ b.at \in b.visited
       /\ sets[b.set] = events[b.event].members /\ b.size = Cardinality(sets[b.set])
       /\ \A s \in Sockets : Got(s, b.event) => s \in b.visited /\ s # b.at
       /\ \A s \in b.visited : s # b.at /\ socket[s].alive => Got(s, b.event)

EventTold(i) ==
  LET e == events[i]
  IN /\ e.room = RoomFor(e.channel, e.session, e.job)
     /\ \A s \in e.members : socket[s].at \in In
     /\ e.over /\ ~e.disturbed => \A s \in e.members : socket[s].alive => Got(s, i)

Delivered ==
  /\ \A s \in Sockets : HeardBy(s)
  /\ \A c \in RoomChannels : CastHeard(c)
  /\ \A i \in DOMAIN events : EventTold(i)

RoomsShape ==
  /\ RoomsTyped /\ NamesHold /\ SetsHold /\ SocketsHold /\ JoinedIsInRoom /\ OneCast
  /\ \A c \in RoomChannels : CastHolds(c)

RoomsIInv == RoomsShape /\ Delivered

LEMMA RoomForTyped ==
  ASSUME NEW channel \in RoomChannels, NEW session \in RoomSessions \cup {"none"},
         NEW job \in RoomJobs \cup {"none"}
  PROVE  LET r == RoomFor(channel, session, job)
         IN /\ r \in RoomIds \cup {NoRoom}
            /\ r # NoRoom => IF r[1] = "job" THEN job = r[2] ELSE session = r[2]
<1> DEFINE r == RoomFor(channel, session, job)
<1>1. CASE job # "none" /\ channel \in JobChannels
  <2>1. r = <<"job", job>>
    BY <1>1 DEF RoomFor, JobChannels, TrafficChannels, FindingChannels
  <2> QED
    BY <1>1, <2>1 DEF RoomIds
<1>2. CASE session # "none" /\ channel \in TrafficChannels
  <2>1. r = <<"traffic", session>>
    BY <1>2 DEF RoomFor, JobChannels, TrafficChannels, FindingChannels
  <2> QED
    BY <1>2, <2>1 DEF RoomIds
<1>3. CASE session # "none" /\ channel \in FindingChannels
  <2>1. r = <<"findings", session>>
    BY <1>3 DEF RoomFor, JobChannels, TrafficChannels, FindingChannels
  <2> QED
    BY <1>3, <2>1 DEF RoomIds
<1>4. CASE /\ ~(job # "none" /\ channel \in JobChannels)
           /\ ~(session # "none" /\ channel \in TrafficChannels)
           /\ ~(session # "none" /\ channel \in FindingChannels)
  BY <1>4 DEF RoomFor
<1> QED
  BY <1>1, <1>2, <1>3, <1>4

LEMMA NoRoomIsNone == NoRoom \notin RoomIds
BY DEF NoRoom, RoomIds

(* What was dispatched stays as it was, but for what becomes of it. *)
SameEvent(i) ==
  /\ events'[i].channel = events[i].channel /\ events'[i].session = events[i].session
  /\ events'[i].job = events[i].job /\ events'[i].room = events[i].room
  /\ events'[i].members = events[i].members
  /\ events[i].disturbed => events'[i].disturbed

EventsGoOn ==
  events' \in Seq(RoomEvent) /\ DOMAIN events \subseteq DOMAIN events'
    /\ \A i \in DOMAIN events : SameEvent(i)

LEMMA DisturbedGoesOn ==
  ASSUME RoomsTyped, NEW k
  PROVE  /\ Disturbed(k) \in Seq(RoomEvent) /\ DOMAIN Disturbed(k) = DOMAIN events
         /\ \A i \in DOMAIN events :
              LET e == Disturbed(k)[i]
              IN /\ e.channel = events[i].channel /\ e.session = events[i].session
                 /\ e.job = events[i].job /\ e.room = events[i].room
                 /\ e.members = events[i].members /\ e.over = events[i].over
                 /\ events[i].disturbed => e.disturbed
                 /\ \A c \in RoomChannels : cast[c].event = i /\ cast[c].set = k => e.disturbed
<1>1. events \in Seq(RoomEvent)
  BY DEF RoomsTyped
<1>2. PICK n \in Nat : events \in [1 .. n -> RoomEvent]
  BY <1>1, SeqDef
<1>3. DOMAIN Disturbed(k) = DOMAIN events
  BY DEF Disturbed
<1>4. ASSUME NEW i \in DOMAIN events
      PROVE  LET e == Disturbed(k)[i]
             IN /\ e \in RoomEvent
                /\ e.channel = events[i].channel /\ e.session = events[i].session
                /\ e.job = events[i].job /\ e.room = events[i].room
                /\ e.members = events[i].members /\ e.over = events[i].over
                /\ events[i].disturbed => e.disturbed
                /\ \A c \in RoomChannels : cast[c].event = i /\ cast[c].set = k => e.disturbed
  <2>1. events[i] \in RoomEvent
    BY <1>2
  <2>2. CASE \E c \in RoomChannels : cast[c].event = i /\ cast[c].set = k
    <3>1. Disturbed(k)[i] = [events[i] EXCEPT !.disturbed = TRUE]
      BY <2>2 DEF Disturbed
    <3> QED
      BY <2>1, <3>1 DEF RoomEvent
  <2>3. CASE ~ \E c \in RoomChannels : cast[c].event = i /\ cast[c].set = k
    <3>1. Disturbed(k)[i] = events[i]
      BY <2>3 DEF Disturbed
    <3> QED
      BY <2>1, <2>3, <3>1
  <2> QED
    BY <2>2, <2>3
<1>5. Disturbed(k) \in Seq(RoomEvent)
  <2>1. Disturbed(k) = [i \in 1 .. n |-> Disturbed(k)[i]]
    BY <1>2 DEF Disturbed
  <2>2. \A i \in 1 .. n : Disturbed(k)[i] \in RoomEvent
    BY <1>2, <1>4
  <2>3. Disturbed(k) \in [1 .. n -> RoomEvent]
    BY <2>1, <2>2
  <2> QED
    BY <2>3, SeqDef
<1> QED
  BY <1>3, <1>4, <1>5

(* The clients move, and those that have joined stay in their room. *)
SocketsGoOn ==
  \A s \in Sockets :
    /\ socket[s].at \in In => /\ socket'[s].at \in In /\ socket'[s].room = socket[s].room
                              /\ socket'[s].alive => socket[s].alive

(* A broadcast goes on as it was, or its event is disturbed. *)
CastsGoOn ==
  \A c \in RoomChannels :
    \/ cast'[c] = cast[c]
    \/ cast'[c].event # 0 /\ events'[cast'[c].event].disturbed

LEMMA DeliveredGoesOn ==
  ASSUME RoomsShape, Delivered, UNCHANGED got, CastsGoOn, SocketsGoOn,
         EventsGoOn, DOMAIN events' = DOMAIN events,
         \A i \in DOMAIN events : events'[i].over => events[i].over,
         \A c \in RoomChannels :
           cast[c].event # 0 /\ ~events'[cast[c].event].disturbed
             => sets'[cast[c].set] = sets[cast[c].set]
  PROVE  Delivered'
<1>0. \A s, n : Got(s, n)' <=> Got(s, n)
  BY DEF Got
<1>1. ASSUME NEW s \in Sockets PROVE HeardBy(s)'
  BY DEF Delivered, HeardBy, SocketsGoOn, EventsGoOn, SameEvent
<1>2. ASSUME NEW c \in RoomChannels PROVE CastHeard(c)'
  <2> SUFFICES ASSUME cast'[c] = cast[c], cast[c].event # 0 PROVE CastHeard(c)'
    BY DEF CastHeard, CastsGoOn
  <2>1. CastHeard(c) /\ CastHolds(c)
    BY DEF Delivered, RoomsShape
  <2>2. cast[c].event \in DOMAIN events /\ cast[c].visited \subseteq Sockets
    BY <2>1 DEF CastHolds, RoomsShape, RoomsTyped, Broadcast
  <2>3. SameEvent(cast[c].event)
    BY <2>2 DEF EventsGoOn
  <2>4. \A s \in cast[c].visited : socket[s].at \in In /\ (socket'[s].alive => socket[s].alive)
    BY <2>1, <2>2 DEF CastHolds, SocketsGoOn
  <2> QED
    BY <1>0, <2>1, <2>2, <2>3, <2>4 DEF CastHeard, SameEvent
<1>3. ASSUME NEW i \in DOMAIN events' PROVE EventTold(i)'
  <2>1. SameEvent(i) /\ EventTold(i) /\ events[i] \in RoomEvent
    BY LenProperties, ElementOfSeq DEF EventsGoOn, Delivered, RoomsShape, RoomsTyped
  <2>2. events[i].members \subseteq Sockets
    BY <2>1 DEF RoomEvent
  <2> QED
    BY <1>0, <2>1, <2>2 DEF SameEvent, EventTold, SocketsGoOn
<1> QED
  BY <1>1, <1>2, <1>3 DEF Delivered

(* A client moves outside the rooms. *)
LEMMA SocketMoves ==
  ASSUME RoomsShape, Delivered, SocketsGoOn, UNCHANGED <<rooms, sets, cast, events, got>>,
         socket' \in [Sockets -> [at : {"out", "accepting"} \cup In,
                                  room : RoomIds \cup {NoRoom}, alive : BOOLEAN]],
         \A s \in Sockets : socket'[s].at = "in" => socket[s].at = "in",
         SocketsHold'
  PROVE  RoomsShape' /\ Delivered'
<1>1. EventsGoOn
  BY DEF EventsGoOn, SameEvent, RoomsShape, RoomsTyped
<1>2. Delivered'
  BY <1>1, DeliveredGoesOn DEF CastsGoOn
<1>3. RoomsTyped'
  BY DEF RoomsShape, RoomsTyped
<1>4. NamesHold' /\ OneCast'
  BY DEF RoomsShape, NamesHold, OneCast
<1>5. \A k \in DOMAIN sets : sets[k] \subseteq Sockets
  BY LenProperties, ElementOfSeq DEF RoomsShape, RoomsTyped
<1>6. SetsHold'
  BY <1>5 DEF RoomsShape, SetsHold, SocketsGoOn
<1>7. JoinedIsInRoom'
  <2>1. ASSUME NEW s \in Sockets, socket'[s].at = "in", socket'[s].alive
        PROVE  s \in Members(socket[s].room)'
    <3>1. socket[s].at = "in" /\ socket[s].alive /\ socket'[s].room = socket[s].room
      BY <2>1 DEF SocketsGoOn, In
    <3> QED
      BY <3>1 DEF RoomsShape, JoinedIsInRoom, Members
  <2>2. ASSUME NEW s \in Sockets, NEW r \in RoomIds, s \in Members(r)'
        PROVE  socket'[s].room = r
    <3>1. s \in Members(r) /\ rooms[r] # 0 /\ rooms[r] \in DOMAIN sets /\ s \in sets[rooms[r]]
      BY <2>2 DEF Members, RoomsShape, NamesHold
    <3>2. socket[s].at \in In /\ socket[s].room = r
      BY <3>1 DEF RoomsShape, SetsHold, JoinedIsInRoom
    <3> QED
      BY <3>2 DEF SocketsGoOn
  <2> QED
    BY <2>1, <2>2 DEF JoinedIsInRoom
<1>8. ASSUME NEW c \in RoomChannels PROVE CastHolds(c)'
  <2>1. CastHolds(c) /\ cast[c].visited \subseteq Sockets /\ cast[c].dead \subseteq Sockets
    BY DEF RoomsShape, RoomsTyped, Broadcast
  <2> QED
    BY <2>1 DEF CastHolds, SocketsGoOn
<1> QED
  BY <1>2, <1>3, <1>4, <1>6, <1>7, <1>8 DEF RoomsShape

LEMMA SocketMovesAlone ==
  ASSUME RoomsShape, Delivered, NEW s \in Sockets,
         (\E r \in RoomIds : Accept(s, r)) \/ ConnectionLost(s) \/ PingFails(s)
  PROVE  RoomsShape' /\ Delivered'
<1>1. UNCHANGED <<rooms, sets, cast, events, got>>
  BY DEF Accept, ConnectionLost, PingFails
<1>2. socket[s] \in [at : {"out", "accepting"} \cup In, room : RoomIds \cup {NoRoom},
                     alive : BOOLEAN]
  BY DEF RoomsShape, RoomsTyped
<1>3. /\ \A t \in Sockets \ {s} : socket'[t] = socket[t]
      /\ socket'[s] \in [at : {"out", "accepting"} \cup In, room : RoomIds \cup {NoRoom},
                         alive : BOOLEAN]
      /\ socket[s].at \in In => /\ socket'[s].at \in In /\ socket'[s].room = socket[s].room
                                /\ socket'[s].alive => socket[s].alive
      /\ socket'[s].at = "in" => socket[s].at = "in"
      /\ socket'[s].at # "out" => socket'[s].room \in RoomIds
      /\ DOMAIN socket' = Sockets
  <2>1. CASE \E r \in RoomIds : Accept(s, r)
    BY <2>1 DEF Accept, RoomsShape, RoomsTyped, In
  <2>2. CASE ConnectionLost(s)
    BY <1>2, <2>2 DEF ConnectionLost, RoomsShape, RoomsTyped, SocketsHold, In
  <2>3. CASE PingFails(s)
    BY <1>2, <2>3 DEF PingFails, RoomsShape, RoomsTyped, SocketsHold, In
  <2> QED
    BY <2>1, <2>2, <2>3
<1>4. socket' \in [Sockets -> [at : {"out", "accepting"} \cup In,
                               room : RoomIds \cup {NoRoom}, alive : BOOLEAN]]
  <2>1. socket' = [t \in Sockets |-> socket'[t]]
    BY DEF Accept, ConnectionLost, PingFails, RoomsShape, RoomsTyped
  <2> QED
    BY <1>3, <2>1 DEF RoomsShape, RoomsTyped
<1>5. SocketsGoOn /\ SocketsHold'
  BY <1>3 DEF SocketsGoOn, SocketsHold, RoomsShape
<1>6. \A t \in Sockets : socket'[t].at = "in" => socket[t].at = "in"
  BY <1>3
<1> QED
  BY <1>1, <1>4, <1>5, <1>6, SocketMoves

LEMMA RehashedGoesOn ==
  ASSUME RoomsTyped, NEW k
  PROVE  /\ Rehashed(k) \in [RoomChannels -> Broadcast]
         /\ \A c \in RoomChannels :
              LET b == Rehashed(k)[c]
              IN /\ b.event = cast[c].event /\ b.set = cast[c].set /\ b.size = cast[c].size
                 /\ b.at = cast[c].at /\ b.dead = cast[c].dead
                 /\ b.visited \subseteq cast[c].visited
                 /\ b = cast[c] \/ (cast[c].event # 0 /\ cast[c].set = k)
<1>1. ASSUME NEW c \in RoomChannels
      PROVE  LET b == Rehashed(k)[c]
             IN /\ b \in Broadcast
                /\ b.event = cast[c].event /\ b.set = cast[c].set /\ b.size = cast[c].size
                /\ b.at = cast[c].at /\ b.dead = cast[c].dead
                /\ b.visited \subseteq cast[c].visited
                /\ b = cast[c] \/ (cast[c].event # 0 /\ cast[c].set = k)
  <2>1. cast[c] \in Broadcast
    BY DEF RoomsTyped
  <2>2. CASE cast[c].event # 0 /\ cast[c].set = k
    <3>1. Rehashed(k)[c] = [cast[c] EXCEPT !.visited = {}]
      BY <2>2 DEF Rehashed
    <3> QED
      BY <2>1, <2>2, <3>1 DEF Broadcast
  <2>3. CASE ~(cast[c].event # 0 /\ cast[c].set = k)
    BY <2>1, <2>3 DEF Rehashed
  <2> QED
    BY <2>2, <2>3
<1>2. Rehashed(k) = [c \in RoomChannels |-> Rehashed(k)[c]]
  BY DEF Rehashed
<1> QED
  BY <1>1, <1>2

LEMMA JoinInvariant ==
  ASSUME RoomsShape, Delivered, NEW s \in Sockets, Join(s)
  PROVE  RoomsShape' /\ Delivered'
<1> DEFINE r == socket[s].room
           k == IF rooms[r] = 0 THEN Len(sets) + 1 ELSE rooms[r]
           n == Len(sets)
<1>1. /\ RoomsTyped /\ NamesHold /\ SetsHold /\ SocketsHold /\ JoinedIsInRoom /\ OneCast
      /\ socket[s].at = "accepting"
      /\ socket' = [socket EXCEPT ![s].at = "in"]
      /\ rooms' = [rooms EXCEPT ![r] = k]
      /\ sets' = IF rooms[r] = 0 THEN Append(sets, {s}) ELSE [sets EXCEPT ![k] = @ \cup {s}]
      /\ events' = Disturbed(k) /\ cast' = Rehashed(k)
      /\ UNCHANGED got
  BY DEF Join, RoomsShape
<1>2. r \in RoomIds
  BY <1>1 DEF SocketsHold
<1>3. n \in Nat /\ DOMAIN sets = 1 .. n /\ \A j \in 1 .. n : sets[j] \subseteq Sockets
  BY <1>1, LenProperties, ElementOfSeq DEF RoomsTyped
<1>4. k \in Nat \ {0} /\ k <= n + 1 /\ (rooms[r] = 0 => k = n + 1) /\ (rooms[r] # 0 => k \in 1 .. n)
  BY <1>1, <1>2, <1>3 DEF RoomsTyped, NamesHold
<1>5. /\ sets' \in Seq(SUBSET Sockets) /\ k \in DOMAIN sets'
      /\ DOMAIN sets \subseteq DOMAIN sets' /\ DOMAIN sets' \subseteq DOMAIN sets \cup {k}
      /\ sets'[k] = (IF rooms[r] = 0 THEN {} ELSE sets[k]) \cup {s}
      /\ \A j \in DOMAIN sets : j # k => sets'[j] = sets[j]
  <2>1. CASE rooms[r] = 0
    <3>1. sets' = Append(sets, {s}) /\ k = n + 1
      BY <1>1, <1>4, <2>1
    <3> QED
      BY <1>1, <1>3, <2>1, <3>1 DEF RoomsTyped
  <2>2. CASE rooms[r] # 0
    <3>1. sets' = [sets EXCEPT ![k] = sets[k] \cup {s}] /\ k \in 1 .. n
      BY <1>1, <1>4, <2>2
    <3>2. sets[k] \cup {s} \in SUBSET Sockets
      BY <1>3, <3>1
    <3> QED
      BY <1>1, <1>3, <2>2, <3>1, <3>2, ExceptSeq DEF RoomsTyped
  <2> QED
    BY <2>1, <2>2
<1>6. /\ rooms' \in [RoomIds -> Nat] /\ rooms'[r] = k
      /\ \A q \in RoomIds : q # r => rooms'[q] = rooms[q]
  BY <1>1, <1>2, <1>4 DEF RoomsTyped
<1>7. /\ socket' \in [Sockets -> [at : {"out", "accepting"} \cup In,
                                  room : RoomIds \cup {NoRoom}, alive : BOOLEAN]]
      /\ \A t \in Sockets : /\ t # s => socket'[t] = socket[t]
                            /\ socket'[t].room = socket[t].room
                            /\ socket'[t].alive = socket[t].alive
      /\ socket'[s].at = "in"
  BY <1>1 DEF RoomsTyped, In
<1>8. /\ EventsGoOn /\ DOMAIN events' = DOMAIN events
      /\ \A i \in DOMAIN events :
           /\ events'[i].over = events[i].over
           /\ \A c \in RoomChannels : cast[c].event = i /\ cast[c].set = k => events'[i].disturbed
  BY <1>1, DisturbedGoesOn DEF EventsGoOn, SameEvent
<1>19. /\ cast' \in [RoomChannels -> Broadcast]
       /\ \A c \in RoomChannels :
            /\ cast'[c].event = cast[c].event /\ cast'[c].set = cast[c].set
            /\ cast'[c].size = cast[c].size /\ cast'[c].at = cast[c].at
            /\ cast'[c].dead = cast[c].dead /\ cast'[c].visited \subseteq cast[c].visited
            /\ cast'[c] = cast[c] \/ (cast[c].event # 0 /\ cast[c].set = k)
  BY <1>1, RehashedGoesOn
<1> HIDE DEF k, r, n
<1>9. RoomsTyped'
  BY <1>1, <1>5, <1>6, <1>7, <1>8, <1>19 DEF RoomsTyped, EventsGoOn
<1>10. NamesHold'
  <2>1. ASSUME NEW q \in RoomIds, rooms'[q] # 0
        PROVE  rooms'[q] \in DOMAIN sets' /\ sets'[rooms'[q]] # {}
    BY <1>1, <1>5, <1>6, <2>1 DEF NamesHold
  <2>2. ASSUME NEW q \in RoomIds, q # r PROVE rooms[q] # k
    BY <1>1, <1>2, <1>3, <1>4, <2>2 DEF NamesHold, k
  <2>3. ASSUME NEW q \in RoomIds, NEW p \in RoomIds, rooms'[q] = rooms'[p], rooms'[q] # 0
        PROVE  q = p
    BY <1>1, <1>6, <2>2, <2>3 DEF NamesHold
  <2> QED
    BY <2>1, <2>3 DEF NamesHold
<1>11. SetsHold'
  <2>1. ASSUME NEW j \in DOMAIN sets', NEW t \in sets'[j] PROVE socket'[t].at \in In
    BY <1>1, <1>3, <1>5, <1>7 DEF SetsHold, In
  <2>2. ASSUME NEW j \in DOMAIN sets' PROVE IsFiniteSet(sets'[j])
    <3>1. CASE j # k
      BY <1>1, <1>5, <3>1 DEF SetsHold
    <3>2. CASE j = k
      <4>1. IsFiniteSet(IF rooms[r] = 0 THEN {} ELSE sets[k])
        BY <1>1, <1>3, <1>4, FS_EmptySet DEF SetsHold
      <4> DEFINE before == IF rooms[r] = 0 THEN {} ELSE sets[k]
      <4>2. sets'[j] = before \cup {s}
        BY <1>5, <3>2
      <4> HIDE DEF before
      <4>3. IsFiniteSet(before \cup {s})
        <5>1. IsFiniteSet(before)
          BY <4>1 DEF before
        <5> QED
          BY <5>1, FS_AddElement
      <4> QED
        BY <4>2, <4>3
    <3> QED
      BY <3>1, <3>2
  <2> QED
    BY <2>1, <2>2 DEF SetsHold
<1>12. SocketsHold'
  BY <1>1, <1>2, <1>7 DEF SocketsHold, r
<1>13. JoinedIsInRoom'
  <2>1. ASSUME NEW q \in RoomIds
        PROVE  Members(q)' = IF q = r THEN Members(q) \cup {s} ELSE Members(q)
    <3>1. CASE q = r
      BY <1>1, <1>2, <1>4, <1>5, <1>6, <3>1 DEF Members, k
    <3>2. CASE q # r
      <4>1. rooms'[q] = rooms[q]
        BY <1>6, <3>2
      <4>2. rooms[q] # 0 => rooms[q] # k /\ rooms[q] \in DOMAIN sets
        BY <1>1, <1>2, <1>3, <1>4, <3>2 DEF NamesHold, k
      <4> QED
        BY <1>5, <3>2, <4>1, <4>2 DEF Members
    <3> QED
      BY <3>1, <3>2
  <2>2. ASSUME NEW t \in Sockets, socket'[t].at = "in", socket'[t].alive
        PROVE  t \in Members(socket[t].room)'
    <3>1. socket'[t].room = socket[t].room /\ socket[t].room \in RoomIds
      BY <1>1, <1>7, <1>12, <2>2 DEF SocketsHold
    <3>2. t # s => t \in Members(socket[t].room)
      BY <1>1, <1>7, <2>2 DEF JoinedIsInRoom
    <3>3. \A q \in RoomIds : q = socket[t].room => t \in Members(q)'
      BY <2>1, <3>2 DEF r
    <3> QED
      BY <3>1, <3>3 DEF Members
  <2>3. ASSUME NEW t \in Sockets, NEW q \in RoomIds, t \in Members(q)'
        PROVE  socket'[t].room = q
    BY <1>1, <1>7, <2>1, <2>3 DEF JoinedIsInRoom, r
  <2> QED
    BY <2>2, <2>3 DEF JoinedIsInRoom
<1>14. OneCast'
  BY <1>1, <1>19 DEF OneCast
<1>15. ASSUME NEW c \in RoomChannels PROVE CastHolds(c)'
  <2> SUFFICES ASSUME cast[c].event # 0 PROVE CastHolds(c)'
    BY <1>19 DEF CastHolds
  <2>1. CastHolds(c) /\ cast[c].visited \subseteq Sockets /\ cast[c].dead \subseteq Sockets
    BY <1>1 DEF RoomsShape, RoomsTyped, Broadcast
  <2>2. /\ cast[c].event \in DOMAIN events /\ cast[c].set \in DOMAIN sets
        /\ events'[cast[c].event].room = events[cast[c].event].room
        /\ events[cast[c].event].room \in RoomIds
    BY <1>8, <2>1 DEF CastHolds, EventsGoOn, SameEvent
  <2>3. sets'[cast[c].set] # {} => rooms'[events[cast[c].event].room] = cast[c].set
    <3> SUFFICES ASSUME sets'[cast[c].set] # {}
                 PROVE  rooms'[events[cast[c].event].room] = cast[c].set
      OBVIOUS
    <3>1. sets[cast[c].set] # {}
      <4>1. CASE cast[c].set # k
        BY <1>5, <2>2, <4>1
      <4>2. CASE cast[c].set = k
        BY <1>1, <1>2, <1>3, <1>4, <2>2, <4>2 DEF NamesHold, k
      <4> QED
        BY <4>1, <4>2
    <3>2. rooms[events[cast[c].event].room] = cast[c].set /\ cast[c].set # 0
      BY <1>3, <2>1, <2>2, <3>1 DEF CastHolds
    <3> QED
      BY <1>6, <2>2, <3>2 DEF k
  <2>4. \A t \in cast[c].visited \cup {cast[c].at} :
          socket'[t].at \in In /\ socket'[t].room = socket[t].room
    BY <1>7, <2>1 DEF CastHolds, In
  <2>5. \A t \in cast[c].dead : socket'[t].at \in In /\ ~socket'[t].alive
    BY <1>7, <2>1 DEF CastHolds, In
  <2> QED
    BY <1>5, <1>8, <1>19, <2>1, <2>2, <2>3, <2>4, <2>5 DEF CastHolds
<1>16. SocketsGoOn
  BY <1>1, <1>7 DEF SocketsGoOn, In
<1>17. ASSUME NEW c \in RoomChannels,
              cast[c].event # 0, ~events'[cast[c].event].disturbed
       PROVE  sets'[cast[c].set] = sets[cast[c].set]
  <2>1. cast[c].event \in DOMAIN events /\ cast[c].set \in DOMAIN sets
    BY <1>17 DEF RoomsShape, CastHolds
  <2>2. cast[c].set # k
    BY <1>8, <1>17, <2>1
  <2> QED
    BY <1>5, <2>1, <2>2
<1>20. CastsGoOn
  <2> SUFFICES ASSUME NEW c \in RoomChannels, cast[c].event # 0, cast[c].set = k
               PROVE  cast'[c].event # 0 /\ events'[cast'[c].event].disturbed
    BY <1>19 DEF CastsGoOn
  <2>1. cast[c].event \in DOMAIN events
    BY DEF RoomsShape, CastHolds
  <2> QED
    BY <1>8, <1>19, <2>1
<1>18. Delivered'
  BY <1>1, <1>8, <1>16, <1>17, <1>20, DeliveredGoesOn
<1> QED
  BY <1>9, <1>10, <1>11, <1>12, <1>13, <1>14, <1>15, <1>18 DEF RoomsShape

(* Clients who are not alive go out of the set under the name of a room,    *)
(* and the room with the last of them.                                     *)
LEMMA NamesShrink ==
  ASSUME RoomsShape, NEW r \in RoomIds, rooms[r] # 0, NEW gone \in SUBSET Sockets,
         \A s \in gone : socket[s].at = "in" => ~socket[s].alive,
         sets' = [sets EXCEPT ![rooms[r]] = @ \ gone],
         rooms' = [rooms EXCEPT ![r] = NumberAfter(r, sets'[rooms[r]])],
         DOMAIN socket' = Sockets,
         \A s \in Sockets : /\ socket'[s].room = socket[s].room /\ socket'[s].alive = socket[s].alive
                            /\ socket[s].at \in In => socket'[s].at \in In
                            /\ socket'[s].at = "in" => socket[s].at = "in"
  PROVE  /\ rooms' \in [RoomIds -> Nat] /\ sets' \in Seq(SUBSET Sockets)
         /\ DOMAIN sets' = DOMAIN sets /\ sets'[rooms[r]] = sets[rooms[r]] \ gone
         /\ \A k \in DOMAIN sets : k # rooms[r] => sets'[k] = sets[k]
         /\ NamesHold' /\ SetsHold' /\ JoinedIsInRoom'
         /\ \A k \in DOMAIN sets, q \in RoomIds :
              (sets[k] # {} => rooms[q] = k) => (sets'[k] # {} => rooms'[q] = k)
<1> DEFINE k == rooms[r]
           n == Len(sets)
<1>1. RoomsTyped /\ NamesHold /\ SetsHold /\ JoinedIsInRoom
  BY DEF RoomsShape
<1>2. n \in Nat /\ DOMAIN sets = 1 .. n /\ \A j \in 1 .. n : sets[j] \subseteq Sockets
  BY <1>1, LenProperties, ElementOfSeq DEF RoomsTyped
<1>3. k \in 1 .. n /\ sets[k] # {}
  BY <1>1, <1>2 DEF NamesHold
<1>4. /\ sets' \in Seq(SUBSET Sockets) /\ DOMAIN sets' = DOMAIN sets
      /\ sets'[k] = sets[k] \ gone
      /\ \A j \in DOMAIN sets : j # k => sets'[j] = sets[j]
  <2>1. sets[k] \ gone \in SUBSET Sockets
    BY <1>2, <1>3
  <2> QED
    BY <1>1, <1>2, <1>3, <2>1, ExceptSeq DEF RoomsTyped
<1>5. /\ rooms' \in [RoomIds -> Nat]
      /\ rooms'[r] = IF sets'[k] = {} THEN 0 ELSE k
      /\ \A q \in RoomIds : q # r => rooms'[q] = rooms[q]
  BY <1>1, <1>2, <1>3 DEF RoomsTyped, NumberAfter
<1>6. \A q \in RoomIds : q # r => rooms[q] # k
  BY <1>1 DEF NamesHold
<1> HIDE DEF k, n
<1>7. NamesHold'
  <2>1. ASSUME NEW q \in RoomIds, rooms'[q] # 0
        PROVE  rooms'[q] \in DOMAIN sets' /\ sets'[rooms'[q]] # {}
    <3>1. CASE q = r
      BY <1>2, <1>3, <1>4, <1>5, <2>1, <3>1
    <3>2. CASE q # r
      BY <1>1, <1>4, <1>5, <1>6, <2>1, <3>2 DEF NamesHold
    <3> QED
      BY <3>1, <3>2
  <2>2. ASSUME NEW q \in RoomIds, NEW p \in RoomIds, rooms'[q] = rooms'[p], rooms'[q] # 0
        PROVE  q = p
    BY <1>1, <1>5, <1>6, <2>2 DEF NamesHold, k
  <2> QED
    BY <2>1, <2>2 DEF NamesHold
<1>8. SetsHold'
  <2>1. ASSUME NEW j \in DOMAIN sets' PROVE IsFiniteSet(sets'[j]) /\ sets'[j] \subseteq sets[j]
    <3>1. IsFiniteSet(sets[j]) /\ sets'[j] \subseteq sets[j]
      BY <1>1, <1>4 DEF SetsHold
    <3> QED
      BY <3>1, FS_Subset
  <2> QED
    BY <1>1, <1>2, <1>4, <2>1 DEF SetsHold
<1>9. JoinedIsInRoom'
  <2>1. ASSUME NEW q \in RoomIds
        PROVE  Members(q)' = IF q = r THEN Members(q) \ gone ELSE Members(q)
    <3>1. CASE q = r
      BY <1>2, <1>3, <1>4, <1>5, <3>1 DEF Members, k
    <3>2. CASE q # r
      <4>1. rooms[q] # 0 => rooms[q] # k /\ rooms[q] \in DOMAIN sets
        BY <1>1, <1>6, <3>2 DEF NamesHold
      <4> QED
        BY <1>4, <1>5, <3>2, <4>1 DEF Members
    <3> QED
      BY <3>1, <3>2
  <2>2. ASSUME NEW t \in Sockets, socket'[t].at = "in", socket'[t].alive
        PROVE  t \in Members(socket[t].room)'
    <3>1. socket[t].at = "in" /\ socket[t].alive /\ socket'[t].room = socket[t].room /\ t \notin gone
      BY <2>2
    <3>2. t \in Members(socket[t].room) /\ socket[t].room \in RoomIds
      BY <1>1, <3>1 DEF JoinedIsInRoom, RoomsShape, SocketsHold
    <3>3. \A q \in RoomIds : q = socket[t].room => t \in Members(q)'
      BY <2>1, <3>1, <3>2
    <3> QED
      BY <3>1, <3>2, <3>3 DEF Members
  <2>3. ASSUME NEW t \in Sockets, NEW q \in RoomIds, t \in Members(q)'
        PROVE  socket'[t].room = q
    BY <1>1, <2>1, <2>3 DEF JoinedIsInRoom
  <2> QED
    BY <2>2, <2>3 DEF JoinedIsInRoom
<1>10. ASSUME NEW j \in DOMAIN sets, NEW q \in RoomIds,
              sets[j] # {} => rooms[q] = j, sets'[j] # {}
       PROVE  rooms'[q] = j
  <2>1. sets[j] # {} /\ rooms[q] = j
    BY <1>4, <1>10
  <2> QED
    BY <1>4, <1>5, <1>10, <2>1 DEF k
<1> QED
  BY <1>4, <1>5, <1>7, <1>8, <1>9, <1>10 DEF k

LEMMA LeaveInvariant ==
  ASSUME RoomsShape, Delivered, NEW s \in Sockets, Leave(s)
  PROVE  RoomsShape' /\ Delivered'
<1> DEFINE r == socket[s].room
           k == rooms[r]
<1>1. /\ RoomsTyped /\ SocketsHold /\ OneCast
      /\ socket[s].at = "in" /\ ~socket[s].alive
      /\ socket' = [socket EXCEPT ![s].at = "left"]
      /\ UNCHANGED <<cast, got>>
  BY DEF Leave, RoomsShape
<1>2. r \in RoomIds
  BY <1>1 DEF SocketsHold
<1>3. /\ socket' \in [Sockets -> [at : {"out", "accepting"} \cup In,
                                  room : RoomIds \cup {NoRoom}, alive : BOOLEAN]]
      /\ \A t \in Sockets : /\ t # s => socket'[t] = socket[t]
                            /\ socket'[t].room = socket[t].room
                            /\ socket'[t].alive = socket[t].alive
      /\ socket'[s].at = "left"
  BY <1>1 DEF RoomsTyped, In
<1>4. SocketsGoOn /\ SocketsHold'
  BY <1>1, <1>3 DEF SocketsGoOn, SocketsHold, In
<1>5. CASE s \notin Members(r)
  BY <1>1, <1>3, <1>4, <1>5, SocketMoves DEF Leave
<1>6. CASE s \in Members(r)
  <2>1. /\ rooms[r] # 0
        /\ sets' = [sets EXCEPT ![rooms[r]] = @ \ {s}]
        /\ rooms' = [rooms EXCEPT ![r] = NumberAfter(r, sets'[rooms[r]])]
        /\ events' = Disturbed(rooms[r])
    BY <1>6 DEF Leave, Members
  <2>2. /\ rooms' \in [RoomIds -> Nat] /\ sets' \in Seq(SUBSET Sockets)
        /\ DOMAIN sets' = DOMAIN sets
        /\ \A j \in DOMAIN sets : j # rooms[r] => sets'[j] = sets[j]
        /\ NamesHold' /\ SetsHold' /\ JoinedIsInRoom'
        /\ \A j \in DOMAIN sets, q \in RoomIds :
             (sets[j] # {} => rooms[q] = j) => (sets'[j] # {} => rooms'[q] = j)
    <3>1. \A t \in {s} : socket[t].at = "in" => ~socket[t].alive
      BY <1>1
    <3>2. \A t \in Sockets :
            /\ socket'[t].room = socket[t].room /\ socket'[t].alive = socket[t].alive
            /\ socket[t].at \in In => socket'[t].at \in In
            /\ socket'[t].at = "in" => socket[t].at = "in"
      BY <1>1, <1>3 DEF In
    <3>3. DOMAIN socket' = Sockets /\ {s} \in SUBSET Sockets
      BY <1>3
    <3> HIDE DEF r
    <3> QED
      BY <1>2, <2>1, <3>1, <3>2, <3>3, NamesShrink
  <2>3. /\ EventsGoOn /\ DOMAIN events' = DOMAIN events
        /\ \A i \in DOMAIN events :
             /\ events'[i].over = events[i].over
             /\ \A c \in RoomChannels :
                  cast[c].event = i /\ cast[c].set = rooms[r] => events'[i].disturbed
    BY <1>1, <2>1, DisturbedGoesOn DEF EventsGoOn, SameEvent
  <2> HIDE DEF r
  <2>4. RoomsTyped'
    BY <1>1, <1>3, <2>2, <2>3 DEF RoomsTyped, EventsGoOn
  <2>5. OneCast'
    BY <1>1 DEF OneCast
  <2>6. ASSUME NEW c \in RoomChannels PROVE CastHolds(c)'
    <3> SUFFICES ASSUME cast[c].event # 0 PROVE CastHolds(c)'
      BY <1>1 DEF CastHolds
    <3>1. CastHolds(c) /\ cast[c].visited \subseteq Sockets /\ cast[c].dead \subseteq Sockets
      BY <1>1 DEF RoomsShape, RoomsTyped, Broadcast
    <3>2. /\ cast[c].event \in DOMAIN events /\ cast[c].set \in DOMAIN sets
          /\ events'[cast[c].event].room = events[cast[c].event].room
      BY <2>3, <3>1 DEF CastHolds, EventsGoOn, SameEvent
    <3>3. sets'[cast[c].set] # {} => rooms'[events[cast[c].event].room] = cast[c].set
      BY <2>2, <3>1, <3>2 DEF CastHolds
    <3>4. \A t \in cast[c].visited \cup {cast[c].at} :
            socket'[t].at \in In /\ socket'[t].room = socket[t].room
      BY <1>3, <3>1 DEF CastHolds, In
    <3>5. \A t \in cast[c].dead : socket'[t].at \in In /\ ~socket'[t].alive
      BY <1>3, <3>1 DEF CastHolds, In
    <3> QED
      BY <1>1, <2>2, <2>3, <3>1, <3>2, <3>3, <3>4, <3>5 DEF CastHolds
  <2>7. ASSUME NEW c \in RoomChannels,
               cast[c].event # 0, ~events'[cast[c].event].disturbed
        PROVE  sets'[cast[c].set] = sets[cast[c].set]
    <3>1. cast[c].event \in DOMAIN events /\ cast[c].set \in DOMAIN sets
      BY <2>7 DEF RoomsShape, CastHolds
    <3>2. cast[c].set # rooms[r]
      BY <2>3, <2>7, <3>1
    <3> QED
      BY <2>2, <3>1, <3>2
  <2>8. Delivered'
    BY <1>1, <1>4, <2>3, <2>7, DeliveredGoesOn DEF CastsGoOn
  <2> QED
    BY <1>4, <2>2, <2>4, <2>5, <2>6, <2>8 DEF RoomsShape
<1> QED
  BY <1>5, <1>6

LEMMA DispatchInvariant ==
  ASSUME RoomsShape, Delivered, NEW c \in RoomChannels, NEW session \in RoomSessions \cup {"none"},
         NEW job \in RoomJobs \cup {"none"}, Dispatch(c, session, job)
  PROVE  RoomsShape' /\ Delivered'
<1>0. PICK n \in Nat : n = Len(events) + 1
  BY LenProperties DEF RoomsShape, RoomsTyped
<1> DEFINE r == RoomFor(c, session, job)
           members == IF r = NoRoom THEN {} ELSE Members(r)
           e == [channel |-> c, session |-> session, job |-> job, room |-> r,
                 members |-> members, disturbed |-> FALSE, over |-> r = NoRoom \/ Members(r) = {}]
<1>1. /\ RoomsTyped /\ NamesHold /\ SetsHold /\ SocketsHold /\ JoinedIsInRoom /\ OneCast
      /\ cast[c].event = 0 /\ events' = Append(events, e)
      /\ UNCHANGED <<rooms, sets, socket, got>>
  BY DEF Dispatch, RoomsShape
<1>2. /\ r \in RoomIds \cup {NoRoom} /\ (r # NoRoom => r \in RoomIds)
  BY RoomForTyped
<1>3. /\ members \in SUBSET Sockets
      /\ \A s \in members : socket[s].at \in In /\ socket[s].room = r
      /\ members # {} => /\ r \in RoomIds /\ rooms[r] # 0 /\ rooms[r] \in DOMAIN sets
                         /\ members = sets[rooms[r]] /\ IsFiniteSet(members)
  <2>1. CASE members = {}
    BY <2>1
  <2>2. CASE members # {}
    <3>1. r \in RoomIds /\ rooms[r] # 0 /\ members = sets[rooms[r]] /\ members = Members(r)
      BY <1>2, <2>2 DEF Members
    <3>2. rooms[r] \in DOMAIN sets
      BY <1>1, <3>1 DEF NamesHold
    <3>3. members \in SUBSET Sockets /\ IsFiniteSet(members)
          /\ \A s \in members : socket[s].at \in In
      <4>1. \A k \in DOMAIN sets : sets[k] \in SUBSET Sockets
        BY <1>1, LenProperties, ElementOfSeq DEF RoomsTyped
      <4> HIDE DEF members
      <4> QED
        BY <1>1, <3>1, <3>2, <4>1 DEF SetsHold
    <3> QED
      BY <1>1, <3>1, <3>2, <3>3 DEF JoinedIsInRoom
  <2> QED
    BY <2>1, <2>2
<1>4. (r = NoRoom \/ Members(r) = {}) <=> members = {}
  OBVIOUS
<1> HIDE DEF r, members
<1>5. /\ e \in RoomEvent /\ e.disturbed = FALSE /\ e.members = members /\ e.room = r
      /\ (e.over => members = {}) /\ e.channel = c /\ e.session = session /\ e.job = job
  BY <1>2, <1>3, <1>4 DEF RoomEvent
<1> HIDE DEF e
<1>6. /\ Len(events) \in Nat /\ DOMAIN events = 1 .. Len(events)
      /\ events' \in Seq(RoomEvent) /\ DOMAIN events' = DOMAIN events \cup {n} /\ n \notin DOMAIN events
      /\ events'[n] = e /\ \A i \in DOMAIN events : events'[i] = events[i]
  BY <1>0, <1>1, <1>5 DEF RoomsTyped
<1>7. \/ members = {} /\ UNCHANGED cast
      \/ \E s \in members : cast' = [cast EXCEPT ![c] =
           [NoCast EXCEPT !.event = n, !.set = rooms[r], !.size = Cardinality(Members(r)),
                          !.visited = {s}, !.at = s]]
  BY <1>0, <1>4 DEF Dispatch, members, r
<1>8. ASSUME NEW i \in DOMAIN events PROVE EventTold(i)'
  <2>1. EventTold(i) /\ events'[i] = events[i] /\ UNCHANGED <<socket, got>>
    BY <1>1, <1>6 DEF Delivered
  <2> QED
    BY <2>1 DEF EventTold, Got
<1>9. EventTold(n)'
  <2>1. r = RoomFor(c, session, job)
    BY DEF r
  <2>2. members # {} => ~e.over
    BY <1>5
  <2> QED
    BY <1>1, <1>3, <1>5, <1>6, <2>1, <2>2 DEF EventTold
<1>10. ASSUME NEW s \in Sockets PROVE HeardBy(s)'
  BY <1>1, <1>6 DEF Delivered, HeardBy
<1>11. \A i \in DOMAIN events' : EventTold(i)'
  BY <1>6, <1>8, <1>9
<1>12. ASSUME NEW d \in RoomChannels, cast'[d] = cast[d] PROVE CastHolds(d)' /\ CastHeard(d)'
  <2> SUFFICES ASSUME cast[d].event # 0 PROVE CastHolds(d)' /\ CastHeard(d)'
    BY <1>12 DEF CastHolds, CastHeard
  <2>1. CastHolds(d) /\ CastHeard(d) /\ cast[d].event \in DOMAIN events
    BY DEF RoomsShape, Delivered, CastHolds
  <2>2. events'[cast[d].event] = events[cast[d].event]
    BY <1>6, <2>1
  <2>3. CastHolds(d)'
    BY <1>1, <1>6, <1>12, <2>1, <2>2 DEF CastHolds
  <2>4. CastHeard(d)'
    BY <1>1, <1>12, <2>1, <2>2 DEF CastHeard, Got
  <2> QED
    BY <2>3, <2>4
<1>13. CASE members = {} /\ UNCHANGED cast
  BY <1>1, <1>6, <1>10, <1>11, <1>12, <1>13
     DEF RoomsShape, RoomsTyped, NamesHold, SetsHold, SocketsHold, JoinedIsInRoom, Members, OneCast,
         Delivered
<1>14. ASSUME NEW s \in members,
              cast' = [cast EXCEPT ![c] =
                [NoCast EXCEPT !.event = n, !.set = rooms[r], !.size = Cardinality(Members(r)),
                               !.visited = {s}, !.at = s]]
       PROVE  RoomsShape' /\ Delivered'
  <2>1. /\ r \in RoomIds /\ rooms[r] \in DOMAIN sets /\ rooms[r] \in Nat /\ members = sets[rooms[r]]
        /\ members = Members(r) /\ s \in Sockets
    BY <1>1, <1>3, <1>14 DEF RoomsTyped, Members
  <2>2. Cardinality(members) \in Nat /\ Cardinality(members) # 0
    BY <1>3, <1>14, FS_EmptySet, FS_CardinalityType
  <2>3. PICK z \in Broadcast : z = NoCast
    BY DEF NoCast, Broadcast
  <2>4. z.dead = {}
    BY <2>3 DEF NoCast
  <2> DEFINE b == [z EXCEPT !.event = n, !.set = rooms[r], !.size = Cardinality(Members(r)),
                            !.visited = {s}, !.at = s]
  <2>5. cast' = [cast EXCEPT ![c] = b]
    BY <1>14, <2>3
  <2>6. /\ b \in Broadcast /\ b.event = n /\ b.set = rooms[r] /\ b.size = Cardinality(members)
        /\ b.visited = {s} /\ b.at = s /\ b.dead = {} /\ n # 0
    <3>1. /\ n \in Nat /\ n # 0 /\ rooms[r] \in Nat /\ Cardinality(Members(r)) \in Nat
          /\ {s} \in SUBSET Sockets /\ s \in Sockets /\ members = Members(r)
      BY <1>0, <1>6, <2>1, <2>2
    <3> QED
      BY <2>4, <3>1 DEF Broadcast
  <2> HIDE DEF b
  <2>7. cast' \in [RoomChannels -> Broadcast] /\ cast'[c] = b
        /\ \A d \in RoomChannels : d # c => cast'[d] = cast[d]
    BY <1>1, <2>5, <2>6 DEF RoomsTyped
  <2>8. RoomsTyped' /\ NamesHold' /\ SetsHold' /\ SocketsHold' /\ JoinedIsInRoom'
    BY <1>1, <1>6, <2>7 DEF RoomsTyped, NamesHold, SetsHold, SocketsHold, JoinedIsInRoom, Members
  <2>9. OneCast'
    <3>1. \A d \in RoomChannels : cast[d].event # n
      BY <1>6, <2>6 DEF RoomsShape, CastHolds
    <3> QED
      BY <1>1, <2>6, <2>7, <3>1 DEF OneCast
  <2>10. CastHolds(c)'
    BY <1>1, <1>3, <1>5, <1>6, <2>1, <2>2, <2>6, <2>7 DEF CastHolds
  <2>11. CastHeard(c)'
    <3>1. \A t \in Sockets : ~Got(t, n)
      BY <1>6 DEF Delivered, HeardBy, Got
    <3>2. \A t \in Sockets : ~Got(t, n)'
      BY <1>1, <3>1 DEF Got
    <3>3. /\ cast'[c].event = n /\ cast'[c].visited = {s} /\ cast'[c].at = s
          /\ sets'[cast'[c].set] = events'[n].members
          /\ cast'[c].size = Cardinality(sets'[cast'[c].set])
      BY <1>1, <1>5, <1>6, <2>1, <2>6, <2>7
    <3> QED
      BY <3>2, <3>3 DEF CastHeard, Got
  <2> QED
    BY <1>10, <1>11, <1>12, <2>7, <2>8, <2>9, <2>10, <2>11 DEF RoomsShape, Delivered
<1> QED
  BY <1>7, <1>13, <1>14

(* A send ends: its client has received the event, if it is there. *)
LEMMA ReceiptGoesOn ==
  ASSUME RoomsShape, Delivered, NEW c \in RoomChannels, cast[c].event # 0,
         NEW b, b.at = cast[c].at, b.event = cast[c].event, Receipt(b),
         UNCHANGED socket, EventsGoOn
  PROVE  /\ got' \in [Sockets -> Seq(Nat)] /\ cast[c].at \in Sockets
         /\ \A s \in Sockets : HeardBy(s)'
         /\ \A s \in Sockets, i \in Nat :
              Got(s, i)' <=> Got(s, i) \/ (s = cast[c].at /\ i = cast[c].event /\ socket[s].alive)
<1> DEFINE a == cast[c].at
           i == cast[c].event
<1>1. /\ a \in Sockets /\ i \in DOMAIN events /\ i \in Nat /\ events[i].room = socket[a].room
      /\ socket[a].at \in In /\ (Got(a, i) => events[i].disturbed)
  BY DEF RoomsShape, RoomsTyped, Broadcast, CastHolds, Delivered, CastHeard
<1> HIDE DEF a, i
<1>2. /\ got' = IF socket[a].alive THEN [got EXCEPT ![a] = Append(@, i)] ELSE got
      /\ got \in [Sockets -> Seq(Nat)]
  BY DEF Receipt, RoomsShape, RoomsTyped, a, i
<1>3. got' \in [Sockets -> Seq(Nat)]
  BY <1>1, <1>2
<1>4. \A s \in Sockets : s # a \/ ~socket[s].alive => got'[s] = got[s]
  BY <1>1, <1>2
<1>5. ASSUME socket[a].alive
      PROVE  /\ DOMAIN got'[a] = DOMAIN got[a] \cup {Len(got[a]) + 1}
             /\ DOMAIN got[a] = 1 .. Len(got[a]) /\ Len(got[a]) \in Nat
             /\ got'[a][Len(got[a]) + 1] = i
             /\ \A k \in DOMAIN got[a] : got'[a][k] = got[a][k]
  <2>1. got'[a] = Append(got[a], i) /\ got[a] \in Seq(Nat)
    BY <1>1, <1>2, <1>5
  <2> QED
    BY <2>1, <1>1
<1>6. ASSUME NEW s \in Sockets, NEW j \in Nat
      PROVE  Got(s, j)' <=> Got(s, j) \/ (s = a /\ j = i /\ socket[s].alive)
  BY <1>4, <1>5 DEF Got
<1>7. ASSUME NEW s \in Sockets PROVE HeardBy(s)'
  <2>1. HeardBy(s)
    BY DEF Delivered
  <2>2. CASE s # a \/ ~socket[s].alive
    BY <1>4, <2>1, <2>2 DEF HeardBy, EventsGoOn, SameEvent
  <2>3. CASE s = a /\ socket[s].alive
    <3>1. \A k \in DOMAIN got[a] : got[a][k] = i => events'[i].disturbed
      BY <1>1 DEF Got, EventsGoOn, SameEvent
    <3>2. ASSUME NEW k \in DOMAIN got'[s]
          PROVE  /\ socket'[s].at \in In /\ got'[s][k] \in DOMAIN events'
                 /\ events'[got'[s][k]].room = socket'[s].room
      <4>1. CASE k \in DOMAIN got[a]
        BY <1>5, <2>1, <2>3, <4>1 DEF HeardBy, EventsGoOn, SameEvent
      <4>2. CASE k = Len(got[a]) + 1
        BY <1>1, <1>5, <2>3, <4>2 DEF EventsGoOn, SameEvent
      <4> QED
        BY <1>5, <2>3, <4>1, <4>2
    <3>3. ASSUME NEW k \in DOMAIN got'[s], NEW j \in DOMAIN got'[s], got'[s][k] = got'[s][j]
          PROVE  k = j \/ events'[got'[s][k]].disturbed
      <4>1. CASE k \in DOMAIN got[a] /\ j \in DOMAIN got[a]
        BY <1>5, <2>1, <2>3, <3>3, <4>1 DEF HeardBy, EventsGoOn, SameEvent
      <4>2. CASE k = Len(got[a]) + 1 \/ j = Len(got[a]) + 1
        BY <1>5, <2>3, <3>1, <3>3, <4>2
      <4> QED
        BY <1>5, <2>3, <4>1, <4>2
    <3> QED
      BY <3>2, <3>3 DEF HeardBy
  <2> QED
    BY <2>2, <2>3
<1> QED
  BY <1>1, <1>3, <1>6, <1>7 DEF a, i

(* The events told of stay told of. *)
LEMMA ToldGoesOn ==
  ASSUME RoomsShape, Delivered, UNCHANGED socket, EventsGoOn,
         \A s \in Sockets, i \in Nat : Got(s, i) => Got(s, i)',
         NEW i \in DOMAIN events, events'[i].over = events[i].over
  PROVE  EventTold(i)'
<1>1. EventTold(i) /\ SameEvent(i)
  BY DEF Delivered, EventsGoOn
<1>2. events \in Seq(RoomEvent)
  BY DEF RoomsShape, RoomsTyped
<1>3. i \in Nat /\ events[i] \in RoomEvent
  BY <1>2, LenProperties, ElementOfSeq
<1>4. events[i].members \subseteq Sockets
  BY <1>3 DEF RoomEvent
<1> QED
  BY <1>1, <1>3, <1>4 DEF EventTold, SameEvent

LEMMA SendNextInvariant ==
  ASSUME RoomsShape, Delivered, NEW c \in RoomChannels, SendNext(c)
  PROVE  RoomsShape' /\ Delivered'
<1> DEFINE b == AfterSend(cast[c])
<1>1. /\ RoomsTyped /\ NamesHold /\ SetsHold /\ SocketsHold /\ JoinedIsInRoom /\ OneCast
      /\ cast[c].event # 0 /\ Receipt(b) /\ UNCHANGED <<rooms, sets, socket, events>>
  BY DEF SendNext, RoomsShape
<1>2. PICK s \in Unvisited(b) : cast' = [cast EXCEPT ![c] = [b EXCEPT !.visited = @ \cup {s}, !.at = s]]
  BY DEF SendNext
<1>3. cast[c] \in Broadcast /\ CastHolds(c) /\ CastHeard(c)
  BY <1>1 DEF RoomsShape, RoomsTyped, Delivered
<1>4. cast[c].at \in Sockets /\ cast[c].visited \subseteq Sockets
  BY <1>1, <1>3 DEF CastHolds, Broadcast
<1>5. /\ b \in Broadcast /\ b.event = cast[c].event /\ b.set = cast[c].set /\ b.size = cast[c].size
      /\ b.visited = cast[c].visited /\ b.at = cast[c].at
      /\ b.dead = cast[c].dead \cup IF socket[cast[c].at].alive THEN {} ELSE {cast[c].at}
  <2>1. CASE socket[cast[c].at].alive
    BY <1>3, <2>1 DEF AfterSend
  <2>2. CASE ~socket[cast[c].at].alive
    BY <1>3, <1>4, <2>2 DEF AfterSend, Broadcast
  <2> QED
    BY <2>1, <2>2
<1>6. /\ s \in sets[cast[c].set] /\ s \notin cast[c].visited /\ s \in Sockets
      /\ socket[s].at \in In /\ socket[s].room = events[cast[c].event].room
  <2>1. /\ s \in sets[cast[c].set] /\ s \notin cast[c].visited /\ cast[c].set \in DOMAIN sets
    BY <1>1, <1>2, <1>3, <1>5 DEF Unvisited, CastHolds
  <2>2. s \in Sockets /\ socket[s].at \in In
    BY <1>1, <2>1, LenProperties, ElementOfSeq DEF RoomsTyped, SetsHold
  <2>3. s \in Members(events[cast[c].event].room) /\ events[cast[c].event].room \in RoomIds
    <3>1. DOMAIN sets = 1 .. Len(sets)
      BY <1>1, LenProperties DEF RoomsTyped
    <3>2. rooms[events[cast[c].event].room] = cast[c].set /\ cast[c].set # 0
      BY <1>1, <1>3, <2>1, <3>1 DEF CastHolds
    <3> QED
      BY <1>1, <1>3, <2>1, <3>2 DEF Members, CastHolds
  <2> QED
    BY <1>1, <2>1, <2>2, <2>3 DEF JoinedIsInRoom
<1> DEFINE d == [b EXCEPT !.visited = @ \cup {s}, !.at = s]
<1>7. /\ d \in Broadcast /\ d.event = cast[c].event /\ d.set = cast[c].set /\ d.size = cast[c].size
      /\ d.visited = cast[c].visited \cup {s} /\ d.at = s /\ d.dead = b.dead
  <2> HIDE DEF b
  <2> QED BY <1>5, <1>6 DEF Broadcast
<1>8. cast' = [cast EXCEPT ![c] = d]
  BY <1>2
<1> HIDE DEF b, d
<1>9. /\ cast' \in [RoomChannels -> Broadcast] /\ cast'[c] = d
      /\ \A x \in RoomChannels : x # c => cast'[x] = cast[x]
  BY <1>1, <1>7, <1>8 DEF RoomsTyped
<1>10. EventsGoOn
  BY <1>1 DEF EventsGoOn, SameEvent, RoomsTyped
<1>11. /\ got' \in [Sockets -> Seq(Nat)]
       /\ \A t \in Sockets : HeardBy(t)'
       /\ \A t \in Sockets, i \in Nat :
            Got(t, i)' <=> Got(t, i) \/ (t = cast[c].at /\ i = cast[c].event /\ socket[t].alive)
  BY <1>1, <1>5, <1>10, ReceiptGoesOn
<1>12. RoomsTyped' /\ NamesHold' /\ SetsHold' /\ SocketsHold' /\ JoinedIsInRoom'
  BY <1>1, <1>9, <1>11 DEF RoomsTyped, NamesHold, SetsHold, SocketsHold, JoinedIsInRoom, Members
<1>13. OneCast'
  BY <1>1, <1>7, <1>9 DEF OneCast
<1>14. ASSUME NEW x \in RoomChannels, x # c PROVE CastHolds(x)' /\ CastHeard(x)'
  <2>1. CastHolds(x) /\ CastHeard(x) /\ cast'[x] = cast[x] /\ cast[x] \in Broadcast
    BY <1>1, <1>9, <1>14 DEF RoomsShape, RoomsTyped, Delivered
  <2>2. cast[x].event # 0 => cast[x].event # cast[c].event
    BY <1>1, <1>14 DEF OneCast
  <2>3. PICK n \in Nat : n = cast[x].event
    BY <2>1 DEF Broadcast
  <2>4. CastHolds(x)'
    BY <1>1, <2>1 DEF CastHolds
  <2>5. CastHeard(x)'
    <3> SUFFICES ASSUME n # 0 PROVE CastHeard(x)'
      BY <2>1, <2>3 DEF CastHeard
    <3>1. cast[x].visited \subseteq Sockets
      BY <2>1 DEF Broadcast
    <3>2. \A t \in Sockets : Got(t, n)' <=> Got(t, n)
      BY <1>11, <2>2, <2>3
    <3> QED
      BY <1>1, <2>1, <2>3, <3>1, <3>2 DEF CastHeard, Got
  <2> QED
    BY <2>4, <2>5
<1>15. CastHolds(c)'
  BY <1>1, <1>3, <1>5, <1>6, <1>7, <1>9 DEF CastHolds
<1>16. CastHeard(c)'
  <2>1. PICK n \in Nat : n = cast[c].event
    BY <1>3 DEF Broadcast
  <2>2. ASSUME ~events[n].disturbed, NEW t \in Sockets, Got(t, n)'
        PROVE  t \in cast[c].visited /\ t # s
    BY <1>1, <1>3, <1>6, <1>11, <2>1, <2>2 DEF CastHeard, CastHolds
  <2>3. ASSUME ~events[n].disturbed, NEW t \in cast[c].visited, socket[t].alive
        PROVE  Got(t, n)'
    BY <1>1, <1>3, <1>4, <1>11, <2>1, <2>3 DEF CastHeard
  <2>4. cast'[c].event = n /\ cast'[c].visited = cast[c].visited \cup {s} /\ cast'[c].at = s
        /\ cast'[c].set = cast[c].set /\ cast'[c].size = cast[c].size
    BY <1>7, <1>9, <2>1
  <2>5. ~events'[n].disturbed =>
          \A t \in Sockets : Got(t, n)' => t \in cast'[c].visited /\ t # cast'[c].at
    BY <1>1, <2>2, <2>4
  <2>6. ~events'[n].disturbed =>
          /\ cast'[c].at \in cast'[c].visited
          /\ sets'[cast'[c].set] = events'[n].members
          /\ cast'[c].size = Cardinality(sets'[cast'[c].set])
          /\ \A t \in cast'[c].visited : t # cast'[c].at /\ socket'[t].alive => Got(t, n)'
    BY <1>1, <1>3, <2>1, <2>3, <2>4 DEF CastHeard
  <2> QED
    BY <2>4, <2>5, <2>6 DEF CastHeard, Got
<1>17. \A i \in DOMAIN events' : EventTold(i)'
  BY <1>1, <1>10, <1>11, ToldGoesOn
<1> QED
  BY <1>11, <1>12, <1>13, <1>14, <1>15, <1>16, <1>17 DEF RoomsShape, Delivered

(* A broadcast is over, whatever it did to its set. *)
LEMMA CastOver ==
  ASSUME RoomsShape, Delivered, NEW c \in RoomChannels, cast[c].event # 0,
         cast' = [cast EXCEPT ![c] = NoCast], UNCHANGED socket,
         NEW b, b.at = cast[c].at, b.event = cast[c].event, Receipt(b),
         EventsGoOn, DOMAIN events' = DOMAIN events,
         \A i \in DOMAIN events : i # cast[c].event => events'[i].over = events[i].over,
         ~events[cast[c].event].disturbed => sets[cast[c].set] \subseteq cast[c].visited,
         rooms' \in [RoomIds -> Nat], sets' \in Seq(SUBSET Sockets), DOMAIN sets' = DOMAIN sets,
         NamesHold', SetsHold', JoinedIsInRoom',
         \A k \in DOMAIN sets, q \in RoomIds :
           (sets[k] # {} => rooms[q] = k) => (sets'[k] # {} => rooms'[q] = k),
         \A d \in RoomChannels :
           d # c /\ cast[d].event # 0 /\ ~events'[cast[d].event].disturbed
             => sets'[cast[d].set] = sets[cast[d].set]
  PROVE  RoomsShape' /\ Delivered'
<1>1. /\ RoomsTyped /\ SocketsHold /\ OneCast /\ CastHolds(c) /\ CastHeard(c)
      /\ cast[c] \in Broadcast /\ cast[c].visited \subseteq Sockets
  BY DEF RoomsShape, RoomsTyped, Delivered, Broadcast
<1>2. PICK n \in Nat : n = cast[c].event
  BY <1>1 DEF Broadcast
<1>3. /\ got' \in [Sockets -> Seq(Nat)] /\ cast[c].at \in Sockets
      /\ \A s \in Sockets : HeardBy(s)'
      /\ \A s \in Sockets, i \in Nat :
           Got(s, i)' <=> Got(s, i) \/ (s = cast[c].at /\ i = n /\ socket[s].alive)
  BY <1>2, ReceiptGoesOn
<1>4. /\ NoCast \in Broadcast /\ NoCast.event = 0
  BY DEF NoCast, Broadcast
<1>5. /\ cast' \in [RoomChannels -> Broadcast] /\ cast'[c].event = 0
      /\ \A d \in RoomChannels : d # c => cast'[d] = cast[d]
  BY <1>1, <1>4 DEF RoomsTyped
<1>6. RoomsTyped' /\ SocketsHold' /\ OneCast'
  <2>1. RoomsTyped' /\ SocketsHold'
    BY <1>1, <1>3, <1>5 DEF RoomsTyped, SocketsHold, EventsGoOn
  <2>2. OneCast'
    BY <1>1, <1>5 DEF OneCast
  <2> QED
    BY <2>1, <2>2
<1>7. ASSUME NEW d \in RoomChannels PROVE CastHolds(d)' /\ CastHeard(d)'
  <2>1. CASE d = c
    BY <1>5, <2>1 DEF CastHolds, CastHeard
  <2>2. CASE d # c /\ cast[d].event = 0
    BY <1>5, <2>2 DEF CastHolds, CastHeard
  <2>3. CASE d # c /\ cast[d].event # 0
    <3>1. /\ CastHolds(d) /\ CastHeard(d) /\ cast'[d] = cast[d] /\ cast[d] \in Broadcast
          /\ cast[d].visited \subseteq Sockets
      BY <1>1, <1>5, <2>3 DEF RoomsShape, RoomsTyped, Delivered, Broadcast
    <3>2. PICK m \in Nat : m = cast[d].event
      BY <3>1 DEF Broadcast
    <3>3. /\ m \in DOMAIN events /\ SameEvent(m) /\ events[m].room \in RoomIds
          /\ cast[d].set \in DOMAIN sets /\ m # n
      BY <1>1, <1>2, <2>3, <3>1, <3>2 DEF CastHolds, EventsGoOn, OneCast
    <3>4. CastHolds(d)'
      BY <3>1, <3>2, <3>3 DEF CastHolds, SameEvent
    <3>5. \A t \in Sockets : Got(t, m)' <=> Got(t, m)
      BY <1>3, <3>3
    <3>6. ~events'[m].disturbed =>
            \A t \in Sockets : Got(t, m)' => t \in cast[d].visited /\ t # cast[d].at
      BY <2>3, <3>1, <3>2, <3>3, <3>5 DEF CastHeard, SameEvent
    <3>7. ~events'[m].disturbed =>
            /\ cast[d].at \in cast[d].visited /\ sets'[cast[d].set] = events'[m].members
            /\ cast[d].size = Cardinality(sets'[cast[d].set])
            /\ \A t \in cast[d].visited : t # cast[d].at /\ socket'[t].alive => Got(t, m)'
      BY <2>3, <3>1, <3>2, <3>3, <3>5 DEF CastHeard, SameEvent
    <3>8. CastHeard(d)'
      BY <3>1, <3>2, <3>6, <3>7 DEF CastHeard, Got
    <3> QED
      BY <3>4, <3>8
  <2> QED
    BY <2>1, <2>2, <2>3
<1>8. ASSUME NEW i \in DOMAIN events' PROVE EventTold(i)'
  <2>1. CASE i # n
    BY <1>2, <1>3, <2>1, ToldGoesOn
  <2>2. CASE i = n
    <3>1. /\ SameEvent(n) /\ EventTold(n) /\ events[n] \in RoomEvent /\ n \in DOMAIN events
      BY <1>1, <2>2, LenProperties, ElementOfSeq DEF EventsGoOn, Delivered, RoomsTyped
    <3>2. events[n].members \subseteq Sockets
      BY <3>1 DEF RoomEvent
    <3>3. ASSUME ~events[n].disturbed, NEW s \in events[n].members, socket[s].alive
          PROVE  Got(s, n)'
      <4>1. s \in cast[c].visited /\ s \in Sockets
        BY <1>1, <1>2, <3>2, <3>3 DEF CastHeard
      <4> QED
        BY <1>1, <1>2, <1>3, <3>3, <4>1 DEF CastHeard
    <3>4. EventTold(n)'
      BY <3>1, <3>2, <3>3 DEF EventTold, SameEvent
    <3> QED
      BY <2>2, <3>4
  <2> QED
    BY <2>1, <2>2
<1> QED
  BY <1>3, <1>6, <1>7, <1>8 DEF RoomsShape, Delivered

LEMMA CastRaisesInvariant ==
  ASSUME RoomsShape, Delivered, NEW c \in RoomChannels, CastRaises(c)
  PROVE  RoomsShape' /\ Delivered'
<1> DEFINE i == cast[c].event
<1>1. /\ cast[c].event # 0 /\ Raises(cast[c]) /\ Receipt(cast[c])
      /\ events' = [events EXCEPT ![i].over = TRUE] /\ cast' = [cast EXCEPT ![c] = NoCast]
      /\ UNCHANGED <<rooms, sets, socket>>
      /\ RoomsTyped /\ CastHolds(c) /\ CastHeard(c)
  BY DEF CastRaises, RoomsShape, Delivered
<1>2. i \in DOMAIN events /\ events \in Seq(RoomEvent) /\ events[i] \in RoomEvent
  BY <1>1, LenProperties, ElementOfSeq DEF RoomsTyped, CastHolds
<1>3. events[i].disturbed
  BY <1>1 DEF CastHeard, Raises
<1> HIDE DEF i
<1>4. PICK e \in RoomEvent : e = events[i]
  BY <1>2
<1> DEFINE f == [e EXCEPT !.over = TRUE]
<1>5. /\ f \in RoomEvent /\ f.channel = e.channel /\ f.session = e.session /\ f.job = e.job
      /\ f.room = e.room /\ f.members = e.members /\ f.disturbed = e.disturbed
  BY <1>4 DEF RoomEvent
<1>6. events' = [events EXCEPT ![i] = f]
  BY <1>1, <1>4
<1> HIDE DEF f
<1>7. /\ events' \in Seq(RoomEvent) /\ DOMAIN events' = DOMAIN events /\ events'[i] = f
      /\ \A j \in DOMAIN events : j # i => events'[j] = events[j]
  BY <1>2, <1>5, <1>6, ExceptSeq
<1>8. EventsGoOn
  BY <1>4, <1>5, <1>7 DEF EventsGoOn, SameEvent
<1>9. NamesHold' /\ SetsHold' /\ JoinedIsInRoom'
  BY <1>1 DEF RoomsShape, NamesHold, SetsHold, JoinedIsInRoom, Members
<1>10. rooms' \in [RoomIds -> Nat] /\ sets' \in Seq(SUBSET Sockets)
  BY SMTT(30), <1>1 DEF RoomsTyped
<1> QED
  BY <1>1, <1>3, <1>7, <1>8, <1>9, <1>10, CastOver DEF i

LEMMA CastEndsInvariant ==
  ASSUME RoomsShape, Delivered, NEW c \in RoomChannels, CastEnds(c)
  PROVE  RoomsShape' /\ Delivered'
<1> DEFINE i == cast[c].event
           k == cast[c].set
           b == AfterSend(cast[c])
           r == events[i].room
<1>1. /\ RoomsTyped /\ NamesHold /\ OneCast /\ CastHolds(c) /\ CastHeard(c) /\ cast[c] \in Broadcast
      /\ i # 0 /\ ~Raises(cast[c]) /\ ~(Unvisited(cast[c]) # {} /\ ~events[b.event].disturbed)
      /\ Receipt(b) /\ cast' = [cast EXCEPT ![c] = NoCast] /\ UNCHANGED socket
      /\ sets' = [sets EXCEPT ![b.set] = @ \ b.dead]
      /\ rooms' = [rooms EXCEPT ![events[b.event].room] =
                     NumberAfter(events[b.event].room, sets'[b.set])]
      /\ events' = [(IF b.dead = {} THEN events ELSE Disturbed(b.set)) EXCEPT
                      ![b.event] = [events[b.event] EXCEPT !.over = TRUE]]
  BY DEF CastEnds, RoomsShape, RoomsTyped, Delivered
<1>2. /\ cast[c].at \in Sockets /\ i \in DOMAIN events /\ r \in RoomIds /\ k \in DOMAIN sets
      /\ cast[c].dead \subseteq Sockets
  BY <1>1 DEF CastHolds, Broadcast
<1>3. /\ b.event = i /\ b.set = k /\ b.at = cast[c].at
      /\ b.dead = cast[c].dead \cup IF socket[cast[c].at].alive THEN {} ELSE {cast[c].at}
  <2>1. CASE socket[cast[c].at].alive
    BY <1>1, <2>1 DEF AfterSend
  <2>2. CASE ~socket[cast[c].at].alive
    BY <1>1, <1>2, <2>2 DEF AfterSend, Broadcast
  <2> QED
    BY <2>1, <2>2
<1> HIDE DEF b
<1>4. b.dead \in SUBSET Sockets /\ \A s \in b.dead : ~socket[s].alive
  BY <1>1, <1>2, <1>3 DEF CastHolds
<1>5. rooms[r] = k /\ k # 0
  <2>1. sets[k] # {}
    BY <1>1, FS_EmptySet DEF Raises, CastHolds
  <2>2. DOMAIN sets = 1 .. Len(sets)
    BY <1>1, LenProperties DEF RoomsTyped
  <2> QED
    BY <1>1, <1>2, <2>1, <2>2 DEF CastHolds
<1>6. /\ rooms' \in [RoomIds -> Nat] /\ sets' \in Seq(SUBSET Sockets)
      /\ DOMAIN sets' = DOMAIN sets /\ sets'[k] = sets[k] \ b.dead
      /\ \A j \in DOMAIN sets : j # k => sets'[j] = sets[j]
      /\ NamesHold' /\ SetsHold' /\ JoinedIsInRoom'
      /\ \A j \in DOMAIN sets, q \in RoomIds :
           (sets[j] # {} => rooms[q] = j) => (sets'[j] # {} => rooms'[q] = j)
  <2>1. /\ sets' = [sets EXCEPT ![rooms[r]] = @ \ b.dead]
        /\ rooms' = [rooms EXCEPT ![r] = NumberAfter(r, sets'[rooms[r]])]
    BY <1>1, <1>3, <1>5
  <2>2. DOMAIN socket' = Sockets
    BY <1>1 DEF RoomsTyped
  <2> QED
    BY ZenonT(30), <1>1, <1>2, <1>4, <1>5, <2>1, <2>2, NamesShrink
<1>7. events[i] \in RoomEvent
  BY <1>1, <1>2, LenProperties, ElementOfSeq DEF RoomsTyped
<1>8. PICK e \in RoomEvent : e = events[i]
  BY <1>7
<1> DEFINE f == [e EXCEPT !.over = TRUE]
           old == IF b.dead = {} THEN events ELSE Disturbed(k)
<1>9. /\ f \in RoomEvent /\ f.channel = e.channel /\ f.session = e.session /\ f.job = e.job
      /\ f.room = e.room /\ f.members = e.members /\ f.disturbed = e.disturbed
  BY <1>8 DEF RoomEvent
<1>10. /\ old \in Seq(RoomEvent) /\ DOMAIN old = DOMAIN events
       /\ \A j \in DOMAIN events :
            LET o == old[j]
            IN /\ o.channel = events[j].channel /\ o.session = events[j].session
               /\ o.job = events[j].job /\ o.room = events[j].room
               /\ o.members = events[j].members /\ o.over = events[j].over
               /\ events[j].disturbed => o.disturbed
               /\ b.dead # {} =>
                    \A d \in RoomChannels : cast[d].event = j /\ cast[d].set = k => o.disturbed
  <2>1. CASE b.dead = {}
    BY <1>1, <2>1 DEF RoomsTyped
  <2>2. CASE b.dead # {}
    <3>1. old = Disturbed(k)
      BY <2>2
    <3> QED
      BY <1>1, <3>1, DisturbedGoesOn
  <2> QED
    BY <2>1, <2>2
<1>11. events' = [old EXCEPT ![i] = f]
  BY <1>1, <1>3, <1>8
<1> HIDE DEF f, old
<1>12. /\ events' \in Seq(RoomEvent) /\ DOMAIN events' = DOMAIN events /\ events'[i] = f
       /\ \A j \in DOMAIN events : j # i => events'[j] = old[j]
  BY <1>2, <1>9, <1>10, <1>11, ExceptSeq
<1>13. EventsGoOn
  BY <1>8, <1>9, <1>10, <1>12 DEF EventsGoOn, SameEvent
<1>14. \A j \in DOMAIN events : j # i => events'[j].over = events[j].over
  BY <1>10, <1>12
<1>15. ~events[i].disturbed => sets[k] \subseteq cast[c].visited
  BY <1>1, <1>3 DEF Unvisited
<1>16. ASSUME NEW d \in RoomChannels, d # c, cast[d].event # 0, ~events'[cast[d].event].disturbed
       PROVE  sets'[cast[d].set] = sets[cast[d].set]
  <2>1. cast[d].event \in DOMAIN events /\ cast[d].set \in DOMAIN sets /\ cast[d].event # i
    BY <1>1, <1>16 DEF RoomsShape, CastHolds, OneCast
  <2>2. CASE cast[d].set # k
    BY <1>6, <2>1, <2>2
  <2>3. CASE cast[d].set = k
    <3>1. b.dead = {}
      BY <1>10, <1>12, <1>16, <2>1, <2>3
    <3> QED
      BY <1>6, <2>3, <3>1
  <2> QED
    BY <2>2, <2>3
<1>17. /\ cast[c].event # 0 /\ cast' = [cast EXCEPT ![c] = NoCast]
       /\ b.at = cast[c].at /\ b.event = cast[c].event /\ Receipt(b)
       /\ \A j \in DOMAIN events : j # cast[c].event => events'[j].over = events[j].over
       /\ ~events[cast[c].event].disturbed => sets[cast[c].set] \subseteq cast[c].visited
  BY <1>1, <1>3, <1>14, <1>15
<1> HIDE DEF i, k, r
<1> QED
  BY ZenonT(30), <1>1, <1>6, <1>12, <1>13, <1>16, <1>17, CastOver

LEMMA RoomsStep ==
  ASSUME RoomsShape, Delivered, [RoomsNext]_roomVars
  PROVE  RoomsShape' /\ Delivered'
<1>1. CASE UNCHANGED roomVars
  <2> USE <1>1 DEF roomVars
  <2>1. RoomsShape'
    BY DEF RoomsShape, RoomsTyped, NamesHold, SetsHold, SocketsHold, JoinedIsInRoom, Members,
           OneCast, CastHolds
  <2>2. Delivered'
    BY DEF Delivered, HeardBy, CastHeard, EventTold, Got
  <2> QED
    BY <2>1, <2>2
<1>2. ASSUME NEW s \in Sockets,
             (\E r \in RoomIds : Accept(s, r)) \/ ConnectionLost(s) \/ PingFails(s)
      PROVE  RoomsShape' /\ Delivered'
  BY <1>2, SocketMovesAlone
<1>3. ASSUME NEW s \in Sockets, Join(s) PROVE RoomsShape' /\ Delivered'
  BY <1>3, JoinInvariant
<1>4. ASSUME NEW s \in Sockets, Leave(s) PROVE RoomsShape' /\ Delivered'
  BY <1>4, LeaveInvariant
<1>5. ASSUME NEW c \in RoomChannels, NEW session \in RoomSessions \cup {"none"},
             NEW job \in RoomJobs \cup {"none"}, Dispatch(c, session, job)
      PROVE  RoomsShape' /\ Delivered'
  BY <1>5, DispatchInvariant
<1>6. ASSUME NEW c \in RoomChannels, SendNext(c) PROVE RoomsShape' /\ Delivered'
  BY <1>6, SendNextInvariant
<1>7. ASSUME NEW c \in RoomChannels, CastRaises(c) PROVE RoomsShape' /\ Delivered'
  BY <1>7, CastRaisesInvariant
<1>8. ASSUME NEW c \in RoomChannels, CastEnds(c) PROVE RoomsShape' /\ Delivered'
  BY <1>8, CastEndsInvariant
<1> QED
  BY <1>1, <1>2, <1>3, <1>4, <1>5, <1>6, <1>7, <1>8 DEF RoomsNext

LEMMA RoomsInitial ==
  ASSUME RoomsInit
  PROVE  RoomsShape /\ Delivered
<1>1. /\ rooms = [r \in RoomIds |-> 0] /\ sets = <<>>
      /\ socket = [s \in Sockets |-> [at |-> "out", room |-> NoRoom, alive |-> FALSE]]
      /\ cast = [c \in RoomChannels |-> NoCast] /\ events = <<>> /\ got = [s \in Sockets |-> <<>>]
  BY DEF RoomsInit
<1>2. NoCast \in Broadcast /\ NoCast.event = 0
  BY DEF NoCast, Broadcast
<1>3. RoomsTyped
  BY <1>1, <1>2 DEF RoomsTyped
<1>4. NamesHold /\ SetsHold /\ SocketsHold /\ OneCast
  BY <1>1, <1>2 DEF NamesHold, SetsHold, SocketsHold, OneCast
<1>5. JoinedIsInRoom
  BY <1>1 DEF JoinedIsInRoom, Members
<1>6. \A c \in RoomChannels : CastHolds(c) /\ CastHeard(c)
  BY <1>1, <1>2 DEF CastHolds, CastHeard
<1>7. /\ \A s \in Sockets : HeardBy(s)
      /\ \A i \in DOMAIN events : EventTold(i)
  BY <1>1 DEF HeardBy, EventTold
<1> QED
  BY <1>3, <1>4, <1>5, <1>6, <1>7 DEF RoomsShape, Delivered

LEMMA DeliveredIsDelivery ==
  ASSUME RoomsShape, Delivered
  PROVE  RoomDelivery
<1>1. ASSUME NEW s \in Sockets, NEW i \in DOMAIN got[s]
      PROVE  LET e == events[got[s][i]]
             IN IF socket[s].room[1] = "job" THEN e.job = socket[s].room[2]
                                             ELSE e.session = socket[s].room[2]
  <2>1. /\ socket[s].at \in In /\ got[s][i] \in DOMAIN events
        /\ events[got[s][i]].room = socket[s].room
    BY DEF Delivered, HeardBy
  <2>2. EventTold(got[s][i]) /\ events[got[s][i]] \in RoomEvent
    BY <2>1, LenProperties, ElementOfSeq DEF Delivered, RoomsShape, RoomsTyped
  <2>3. PICK e \in RoomEvent : e = events[got[s][i]]
    BY <2>2
  <2>4. /\ e.channel \in RoomChannels /\ e.session \in RoomSessions \cup {"none"}
        /\ e.job \in RoomJobs \cup {"none"} /\ e.room = RoomFor(e.channel, e.session, e.job)
    BY <2>2, <2>3 DEF RoomEvent, EventTold
  <2>5. e.room \in RoomIds /\ e.room = socket[s].room
    BY <2>1, <2>3 DEF RoomsShape, SocketsHold, In
  <2> DEFINE r == RoomFor(e.channel, e.session, e.job)
  <2>6. r # NoRoom => IF r[1] = "job" THEN e.job = r[2] ELSE e.session = r[2]
    BY <2>4, RoomForTyped
  <2> HIDE DEF r
  <2>7. r = e.room /\ r # NoRoom
    BY <2>4, <2>5, NoRoomIsNone DEF r
  <2> QED
    BY <2>3, <2>5, <2>6, <2>7
<1>2. \A s \in Sockets : \A i, j \in DOMAIN got[s] :
        got[s][i] = got[s][j] => i = j \/ events[got[s][i]].disturbed
  BY DEF Delivered, HeardBy
<1>3. ASSUME NEW i \in DOMAIN events, events[i].over, ~events[i].disturbed,
             NEW s \in events[i].members, socket[s].alive
      PROVE  \E k \in DOMAIN got[s] : got[s][k] = i
  BY <1>3 DEF Delivered, EventTold, Got
<1> QED
  BY <1>1, <1>2, <1>3 DEF RoomDelivery

LEMMA RoomsInvariant == RoomsSpec => []RoomsIInv
<1>1. RoomsInit => RoomsIInv
  BY RoomsInitial DEF RoomsIInv
<1>2. RoomsIInv /\ [RoomsNext]_roomVars => RoomsIInv'
  BY RoomsStep DEF RoomsIInv
<1> QED
  BY <1>1, <1>2, PTL DEF RoomsSpec

(* Whatever joins, leaves, failed pings and broadcasts of any number of     *)
(* clients and rooms interleave (RoomManager.connect, disconnect and        *)
(* broadcast), a client that has joined and is alive is in the set under    *)
(* the name of its room, and nobody is in two rooms.                       *)
THEOREM JoinedStaysInRoom == RoomsSpec => []JoinedIsInRoom
<1>1. RoomsIInv => JoinedIsInRoom
  BY DEF RoomsIInv, RoomsShape
<1> QED
  BY <1>1, RoomsInvariant, PTL

(* A room that somebody is in names a set of clients. *)
THEOREM RoomsTypeCorrect == RoomsSpec => []RoomsTypeOK
<1>1. ASSUME RoomsShape PROVE RoomsTypeOK
  <2>1. /\ rooms \in [RoomIds -> Nat] /\ Len(sets) \in Nat /\ DOMAIN sets = 1 .. Len(sets)
        /\ \A k \in DOMAIN sets : sets[k] \in SUBSET Sockets
        /\ \A s \in Sockets : socket[s].at \in {"out", "accepting"} \cup In
    BY <1>1, LenProperties, ElementOfSeq DEF RoomsShape, RoomsTyped
  <2>2. \A r \in RoomIds : rooms[r] \in 0 .. Len(sets)
    BY <1>1, <2>1 DEF RoomsShape, NamesHold
  <2> QED
    BY <2>1, <2>2 DEF RoomsTypeOK, In
<1> QED
  BY <1>1, RoomsInvariant, PTL DEF RoomsIInv

(* RoomDispatcher and broadcast(): a client receives events of its room's   *)
(* session or job only, and an event whose broadcast no join, leave or      *)
(* removal disturbed comes once to each of them and reaches everybody who   *)
(* was in the room and is alive.                                           *)
THEOREM EventsReachTheirRoom == RoomsSpec => []RoomDelivery
<1>1. RoomsIInv => RoomDelivery
  BY DeliveredIsDelivery DEF RoomsIInv
<1> QED
  BY <1>1, RoomsInvariant, PTL

-----------------------------------------------------------------------------
(* The History (TrafficStore). *)

(* The largest of finitely many numbers: the sets of those that are at      *)
(* least x, for each x, are ordered by strict inclusion, and a smallest one *)
(* of them is that of the maximum.                                         *)
LEMMA MaxOfFinite ==
  ASSUME NEW S \in SUBSET Nat, IsFiniteSet(S), S # {}
  PROVE  Max(S) \in S /\ \A y \in S : Max(S) >= y
<1> DEFINE Up(x) == {y \in S : y >= x}
           Ups == {Up(x) : x \in S}
<1>1. IsWellFoundedOn(StrictSubsetOrdering(S), FiniteSubsetsOf(S))
  BY FS_StrictSubsetOrderingWellFounded
<1>2. Ups \subseteq FiniteSubsetsOf(S) /\ Ups # {}
  <2>1. ASSUME NEW x \in S PROVE Up(x) \in FiniteSubsetsOf(S)
    <3>1. Up(x) \in SUBSET S
      OBVIOUS
    <3> QED
      BY <3>1, FS_Subset DEF FiniteSubsetsOf
  <2>2. Ups # {}
    OBVIOUS
  <2> QED
    BY <2>1, <2>2
<1>3. PICK least \in Ups : \A u \in Ups : ~ (<<u, least>> \in StrictSubsetOrdering(S))
  <2> HIDE DEF Ups
  <2> QED BY <1>1, <1>2, WFMin
<1>4. PICK x \in S : least = Up(x)
  OBVIOUS
<1>5. ASSUME NEW y \in S PROVE x >= y
  <2> SUFFICES ASSUME y > x PROVE FALSE
    OBVIOUS
  <2>0. x \in Nat /\ y \in Nat /\ \A z \in S : z \in Nat
    OBVIOUS
  <2>1. Up(y) \subseteq Up(x) /\ x \in Up(x) /\ x \notin Up(y)
    <3>1. \A z \in S : z >= y => z >= x
      BY <2>0
    <3>2. x >= x /\ ~(x >= y)
      BY <2>0
    <3> QED
      BY <3>1, <3>2
  <2>2. <<Up(y), Up(x)>> \in StrictSubsetOrdering(S)
    BY <2>1 DEF StrictSubsetOrdering
  <2> QED
    BY <1>3, <1>4, <2>2
<1> QED
  BY <1>5 DEF Max

(* The id SQLite gives is above every id of the table. *)
LEMMA NextIdIsFresh ==
  ASSUME NEW table, IsFiniteSet(DOMAIN table), DOMAIN table \subseteq Nat
  PROVE  NextId(table) \in Nat \ {0} /\ NextId(table) \notin DOMAIN table
<1>1. IsFiniteSet({0} \cup DOMAIN table) /\ {0} \cup DOMAIN table \in SUBSET Nat
  BY FS_AddElement
<1>2. /\ Max({0} \cup DOMAIN table) \in Nat
      /\ \A y \in DOMAIN table : Max({0} \cup DOMAIN table) >= y
  <2> DEFINE S == {0} \cup DOMAIN table
  <2>1. S # {} /\ DOMAIN table \subseteq S
    OBVIOUS
  <2> HIDE DEF S
  <2>2. Max(S) \in S /\ \A y \in S : Max(S) >= y
    BY <1>1, <2>1, MaxOfFinite DEF S
  <2> QED
    BY <1>1, <2>1, <2>2 DEF S
<1> QED
  BY <1>2 DEF NextId

Stored == [flow : Nat, writer : Writers, at : {"insert", "announce"}, id : Nat]

TablesTyped ==
  /\ shown \in Histories /\ target \in [Writers -> Histories]
  /\ captured \in Nat /\ storing \subseteq Stored
  /\ DOMAIN flows = Histories /\ DOMAIN comments = Histories
  /\ \A d \in Histories : IsFiniteSet(DOMAIN flows[d]) /\ DOMAIN flows[d] \subseteq Nat

TrafficIInv == TablesTyped /\ CommentsGoWithFlow

(* What changes no table, and announces no flow without a row. *)
LEMMA TrafficGoesOn ==
  ASSUME TrafficIInv, UNCHANGED <<flows, comments>>, captured' \in Nat,
         shown' \in Histories, target' \in [Writers -> Histories],
         \A s \in storing' : s \in storing \/ (s \in Stored /\ s.at = "insert")
  PROVE  TrafficIInv'
<1>1. TablesTyped'
  BY DEF TrafficIInv, TablesTyped
<1>2. \A s \in storing' : s.at = "announce" => s.id > 0
  BY DEF TrafficIInv, CommentsGoWithFlow
<1> QED
  BY <1>1, <1>2 DEF TrafficIInv, CommentsGoWithFlow, Still

LEMMA CapturedInvariant ==
  ASSUME TrafficIInv, NEW w \in Writers, Captured(w)
  PROVE  TrafficIInv'
<1>1. [flow |-> captured + 1, writer |-> w, at |-> "insert", id |-> 0] \in Stored
  BY DEF TrafficIInv, TablesTyped, Stored
<1> QED
  BY <1>1, TrafficGoesOn DEF Captured, TrafficIInv, TablesTyped

(* A row gets an id no row has: the rows comments refer to stay. *)
LEMMA InsertedInvariant ==
  ASSUME TrafficIInv, NEW s \in storing, Inserted(s),
         UNCHANGED <<shown, target, comments, captured>>
  PROVE  TrafficIInv'
<1> DEFINE d == target[s.writer]
           id == NextId(flows[d])
           t == [s EXCEPT !.at = "announce", !.id = id]
<1>1. /\ flows' = [flows EXCEPT ![d] = With(@, id, s.flow)]
      /\ storing' = (storing \ {s}) \cup {t}
  BY DEF Inserted
<1>2. s \in Stored /\ d \in Histories
  BY DEF TrafficIInv, TablesTyped, Stored
<1>3. id \in Nat \ {0} /\ id \notin DOMAIN flows[d]
  BY <1>2, NextIdIsFresh DEF TrafficIInv, TablesTyped
<1>4. /\ DOMAIN flows' = Histories
      /\ \A h \in Histories \ {d} : flows'[h] = flows[h]
      /\ flows'[d] = With(flows[d], id, s.flow)
  BY <1>1, <1>2 DEF TrafficIInv, TablesTyped
<1> HIDE DEF id
<1>5. t \in Stored /\ t.id = id
  BY <1>2, <1>3 DEF Stored
<1>6. /\ DOMAIN flows'[d] = DOMAIN flows[d] \cup {id}
      /\ \A i \in DOMAIN flows[d] : flows'[d][i] = flows[d][i]
  BY <1>3, <1>4 DEF With
<1> HIDE DEF d, t
<1>7. TablesTyped'
  <2>1. storing' \subseteq Stored
    BY <1>1, <1>5 DEF TrafficIInv, TablesTyped
  <2>2. ASSUME NEW h \in Histories
        PROVE  IsFiniteSet(DOMAIN flows'[h]) /\ DOMAIN flows'[h] \subseteq Nat
    BY <1>3, <1>4, <1>6, FS_AddElement DEF TrafficIInv, TablesTyped
  <2> QED
    BY <1>4, <2>1, <2>2 DEF TrafficIInv, TablesTyped
<1>8. ASSUME NEW h \in Histories, NEW row, NEW flow, Still(h, row, flow)
      PROVE  Still(h, row, flow)'
  BY <1>4, <1>6, <1>8 DEF Still
<1>9. ASSUME NEW u \in storing', u.at = "announce" PROVE u.id > 0
  BY <1>1, <1>3, <1>5, <1>9 DEF TrafficIInv, CommentsGoWithFlow
<1>10. \A h \in Histories : \A k \in DOMAIN comments[h] :
         comments[h][k].late \/ Still(h, comments[h][k].row, comments[h][k].of)'
  BY <1>8 DEF TrafficIInv, CommentsGoWithFlow
<1> QED
  BY <1>7, <1>9, <1>10 DEF TrafficIInv, CommentsGoWithFlow

(* Rows go, and the comments on them with them. *)
LEMMA RowsGo ==
  ASSUME TrafficIInv, NEW table, NEW notes,
         flows' = [flows EXCEPT ![shown] = table],
         comments' = [comments EXCEPT ![shown] = notes],
         UNCHANGED <<shown, target, captured, storing>>,
         DOMAIN table \subseteq DOMAIN flows[shown],
         \A i \in DOMAIN table : table[i] = flows[shown][i],
         DOMAIN notes \subseteq DOMAIN comments[shown],
         \A k \in DOMAIN notes : notes[k] = comments[shown][k],
         \A k \in DOMAIN notes : notes[k].row \in DOMAIN flows[shown] => notes[k].row \in DOMAIN table
  PROVE  TrafficIInv'
<1>1. /\ shown \in Histories /\ DOMAIN flows' = Histories /\ DOMAIN comments' = Histories
      /\ flows'[shown] = table /\ comments'[shown] = notes
      /\ \A h \in Histories \ {shown} : flows'[h] = flows[h] /\ comments'[h] = comments[h]
  BY DEF TrafficIInv, TablesTyped
<1>2. IsFiniteSet(DOMAIN table) /\ DOMAIN table \subseteq Nat
  BY <1>1, FS_Subset DEF TrafficIInv, TablesTyped
<1>3. TablesTyped'
  BY <1>1, <1>2 DEF TrafficIInv, TablesTyped
<1>4. ASSUME NEW k \in DOMAIN notes
      PROVE  notes[k].late \/ Still(shown, notes[k].row, notes[k].of)'
  BY <1>1 DEF TrafficIInv, CommentsGoWithFlow, Still
<1>5. ASSUME NEW h \in Histories \ {shown}, NEW k \in DOMAIN comments[h]
      PROVE  comments[h][k].late \/ Still(h, comments[h][k].row, comments[h][k].of)'
  BY <1>1 DEF TrafficIInv, CommentsGoWithFlow, Still
<1> QED
  BY <1>1, <1>3, <1>4, <1>5 DEF TrafficIInv, CommentsGoWithFlow

LEMMA DeletedInvariant ==
  ASSUME TrafficIInv, NEW id, DeleteFlow(id)
  PROVE  TrafficIInv'
<1> DEFINE table == Without(flows[shown], {id})
           notes == Without(comments[shown], CommentsOf(shown, {id}))
<1>1. /\ flows' = [flows EXCEPT ![shown] = table]
      /\ comments' = [comments EXCEPT ![shown] = notes]
      /\ UNCHANGED <<shown, target, captured, storing>>
  BY DEF DeleteFlow, Deleted
<1>2. /\ DOMAIN table = DOMAIN flows[shown] \ {id}
      /\ \A i \in DOMAIN table : table[i] = flows[shown][i]
      /\ DOMAIN notes = {k \in DOMAIN comments[shown] : comments[shown][k].row # id}
      /\ \A k \in DOMAIN notes : notes[k] = comments[shown][k]
  BY DEF Without, CommentsOf
<1> HIDE DEF table, notes
<1>3. \A k \in DOMAIN notes : notes[k].row \in DOMAIN flows[shown] => notes[k].row \in DOMAIN table
  BY <1>2
<1>4. DOMAIN table \subseteq DOMAIN flows[shown] /\ DOMAIN notes \subseteq DOMAIN comments[shown]
  BY <1>2
<1> QED
  BY <1>1, <1>2, <1>3, <1>4, RowsGo

LEMMA ClearedInvariant ==
  ASSUME TrafficIInv, ClearFlows
  PROVE  TrafficIInv'
<1>1. DOMAIN <<>> = {}
  OBVIOUS
<1> QED
  BY <1>1, RowsGo DEF ClearFlows

(* The comments of one database change to others that are as good. *)
LEMMA NotesChange ==
  ASSUME TrafficIInv, NEW d, NEW notes,
         comments' = [comments EXCEPT ![d] = notes],
         UNCHANGED <<shown, target, flows, captured, storing>>,
         \A k \in DOMAIN notes : notes[k].late \/ Still(d, notes[k].row, notes[k].of)
  PROVE  TrafficIInv'
<1>1. /\ DOMAIN comments' = Histories
      /\ \A h \in Histories : comments'[h] = IF h = d THEN notes ELSE comments[h]
  BY DEF TrafficIInv, TablesTyped
<1>2. TablesTyped'
  BY <1>1 DEF TrafficIInv, TablesTyped
<1> QED
  BY <1>1, <1>2 DEF TrafficIInv, CommentsGoWithFlow, Still

LEMMA CreateCommentInvariant ==
  ASSUME TrafficIInv, NEW c \in CommentClients, CreateComment(c)
  PROVE  TrafficIInv'
<1> DEFINE ask == asking[c]
           d == ask.db
           id == NextId(comments[d])
           note == [row |-> ask.row, of |-> ask.of, late |-> ~Still(ask.db, ask.row, ask.of)]
           notes == With(comments[d], id, note)
<1>1. /\ comments' = [comments EXCEPT ![d] = notes]
      /\ UNCHANGED <<shown, target, flows, captured, storing>>
  BY DEF CreateComment
<1>2. note.late \/ Still(d, note.row, note.of)
  OBVIOUS
<1> HIDE DEF id, note
<1>3. CASE d \in Histories
  <2>1. DOMAIN notes = DOMAIN comments[d] \cup {id}
        /\ \A k \in DOMAIN notes : notes[k] = IF k = id THEN note ELSE comments[d][k]
    BY DEF With
  <2>2. ASSUME NEW k \in DOMAIN notes
        PROVE  notes[k].late \/ Still(d, notes[k].row, notes[k].of)
    BY <1>2, <1>3, <2>1 DEF TrafficIInv, CommentsGoWithFlow
  <2> HIDE DEF d, notes
  <2> QED
    BY <1>1, <2>2, NotesChange
<1>4. CASE d \notin Histories
  <2>1. comments' = [comments EXCEPT ![d] = <<>>]
    BY <1>1, <1>4 DEF TrafficIInv, TablesTyped
  <2> HIDE DEF d
  <2>2. \A k \in DOMAIN <<>> : <<>>[k].late \/ Still(d, <<>>[k].row, <<>>[k].of)
    OBVIOUS
  <2> QED
    BY <1>1, <2>1, <2>2, NotesChange
<1> QED
  BY <1>3, <1>4

LEMMA ChangeCommentInvariant ==
  ASSUME TrafficIInv, NEW c \in CommentClients, ChangeComment(c)
  PROVE  TrafficIInv'
<1> DEFINE d == asking[c].db
           notes == Without(comments[d], {asking[c].comment})
<1>1. /\ UNCHANGED comments \/ comments' = [comments EXCEPT ![d] = notes]
      /\ UNCHANGED <<shown, target, flows, captured, storing>>
  BY DEF ChangeComment
<1>2. CASE UNCHANGED comments
  BY <1>1, <1>2, TrafficGoesOn DEF TrafficIInv, TablesTyped
<1>3. CASE d \in Histories /\ comments' = [comments EXCEPT ![d] = notes]
  <2>1. /\ DOMAIN notes \subseteq DOMAIN comments[d]
        /\ \A k \in DOMAIN notes : notes[k] = comments[d][k]
    BY DEF Without
  <2>2. \A k \in DOMAIN notes : notes[k].late \/ Still(d, notes[k].row, notes[k].of)
    BY <1>3, <2>1 DEF TrafficIInv, CommentsGoWithFlow
  <2> HIDE DEF d, notes
  <2> QED
    BY <1>1, <1>3, <2>2, NotesChange
<1>4. CASE d \notin Histories /\ comments' = [comments EXCEPT ![d] = notes]
  <2>1. DOMAIN comments' = Histories /\ \A h \in Histories : comments'[h] = comments[h]
    BY <1>4 DEF TrafficIInv, TablesTyped
  <2> QED
    BY <1>1, <2>1 DEF TrafficIInv, TablesTyped, CommentsGoWithFlow, Still
<1> QED
  BY <1>1, <1>2, <1>3, <1>4

LEMMA StoreFlowInvariant ==
  ASSUME TrafficIInv, NEW s \in storing, StoreFlow(s) \/ AnnounceFlow(s)
  PROVE  TrafficIInv'
<1>1. CASE StoreFlow(s) /\ Inserted(s)
  BY <1>1, InsertedInvariant DEF StoreFlow
<1>2. CASE AnnounceFlow(s) \/ (StoreFlow(s) /\ InsertFailed(s))
  BY <1>2, TrafficGoesOn DEF StoreFlow, AnnounceFlow, InsertFailed, TrafficIInv, TablesTyped
<1> QED
  BY <1>1, <1>2 DEF StoreFlow

LEMMA TrafficInitInvariant == TrafficInit => TrafficIInv
<1> SUFFICES ASSUME TrafficInit PROVE TrafficIInv
  OBVIOUS
<1>1. DOMAIN <<>> = {} /\ IsFiniteSet({})
  BY FS_EmptySet
<1>2. TablesTyped
  BY <1>1 DEF TrafficInit, TablesTyped
<1>3. \A d \in Histories : DOMAIN comments[d] = {}
  BY <1>1 DEF TrafficInit
<1> QED
  BY <1>2, <1>3 DEF TrafficInit, TrafficIInv, CommentsGoWithFlow

LEMMA TrafficNextInvariant ==
  ASSUME TrafficIInv, [TrafficNext]_trafficVars
  PROVE  TrafficIInv'
<1>1. CASE TrafficNext
  <2>1. CASE ProxyCaptures \/ CrawlCaptures
    BY <2>1, CapturedInvariant DEF ProxyCaptures, CrawlCaptures
  <2>2. ASSUME NEW d \in Histories, ShowSession(d) PROVE TrafficIInv'
    BY <2>2, TrafficGoesOn DEF ShowSession, TrafficIInv, TablesTyped
  <2>3. CASE RestartProxy
    BY <2>3, TrafficGoesOn DEF RestartProxy, TrafficIInv, TablesTyped
  <2>4. ASSUME NEW c \in CommentClients,
               \/ \E id \in DOMAIN flows[shown] : AskCreate(c, id)
               \/ \E op \in {"update", "delete"}, k \in DOMAIN comments[shown] : AskChange(c, op, k)
        PROVE  TrafficIInv'
    <3>1. UNCHANGED <<shown, target, flows, comments, captured, storing>>
      BY <2>4 DEF AskCreate, AskChange
    <3> QED
      BY <3>1, TrafficGoesOn DEF TrafficIInv, TablesTyped
  <2> QED
    BY <1>1, <2>1, <2>2, <2>3, <2>4, StoreFlowInvariant, ClearedInvariant, DeletedInvariant,
       CreateCommentInvariant, ChangeCommentInvariant DEF TrafficNext
<1>2. CASE UNCHANGED trafficVars
  BY <1>2, TrafficGoesOn DEF trafficVars, TrafficIInv, TablesTyped
<1> QED
  BY <1>1, <1>2

LEMMA TrafficInvariant == TrafficSpec => []TrafficIInv
BY TrafficInitInvariant, TrafficNextInvariant, PTL DEF TrafficSpec

(* Whatever captures, deletions, clearings, changes of session and comment  *)
(* requests interleave, and whichever of their commits fail: a comment is on *)
(* the flow it was written for, or was committed after that flow had gone    *)
(* (delete_flows(), create_comment()), and a flow is announced with a row.   *)
THEOREM CommentsFollowTheirFlow == TrafficSpec => []CommentsGoWithFlow
<1>1. TrafficIInv => CommentsGoWithFlow
  BY DEF TrafficIInv
<1> QED
  BY <1>1, TrafficInvariant, PTL

(* What a request on a comment knows. *)
Request == [op : {"none", "create", "update", "delete"}, db : Histories \cup {""},
            row : Nat, comment : Nat, of : Nat]

(* What the rows hold: a flow that was captured, a comment on some id. *)
RowsTyped ==
  /\ \A d \in Histories : \A id \in DOMAIN flows[d] : flows[d][id] \in 1 .. captured
  /\ \A d \in Histories : \A k \in DOMAIN comments[d] : comments[d][k].row \in Nat
  /\ \A s \in storing : s.flow \in 1 .. captured
  /\ asking \in [CommentClients -> Request]
  /\ \A c \in CommentClients : asking[c].op # "none" => asking[c].db \in Histories
  /\ \A d \in Histories : IsFiniteSet(DOMAIN comments[d]) /\ DOMAIN comments[d] \subseteq Nat
  /\ \A d \in Histories : \A k \in DOMAIN comments[d] : comments[d][k].of \in Nat

LEMMA RowsOfCapture ==
  ASSUME TrafficIInv, RowsTyped, NEW w \in Writers, Captured(w)
  PROVE  RowsTyped'
<1>1. captured \in Nat /\ captured' = captured + 1
  BY DEF Captured, TrafficIInv, TablesTyped
<1>2. 1 .. captured \subseteq 1 .. captured' /\ captured + 1 \in 1 .. captured'
  BY <1>1
<1>3. UNCHANGED <<flows, comments, asking>>
  BY DEF Captured
<1>4. \A s \in storing' : s.flow \in 1 .. captured'
  <2>1. [flow |-> captured + 1, writer |-> w, at |-> "insert", id |-> 0].flow = captured + 1
    OBVIOUS
  <2>2. storing' = storing \cup {[flow |-> captured + 1, writer |-> w, at |-> "insert", id |-> 0]}
    BY DEF Captured
  <2> QED
    BY <1>2, <2>1, <2>2 DEF RowsTyped
<1>5. \A d \in Histories : \A id \in DOMAIN flows'[d] : flows'[d][id] \in 1 .. captured'
  BY <1>2, <1>3 DEF RowsTyped
<1> QED
  BY <1>3, <1>4, <1>5 DEF RowsTyped

LEMMA RowsOfStored ==
  ASSUME TrafficIInv, RowsTyped, NEW s \in storing, StoreFlow(s)
  PROVE  RowsTyped'
<1> DEFINE d == target[s.writer]
           id == NextId(flows[d])
<1>1. UNCHANGED <<comments, captured, asking>>
  BY DEF StoreFlow
<1>2. s \in Stored /\ d \in Histories /\ s.flow \in 1 .. captured /\ DOMAIN flows = Histories
  BY DEF TrafficIInv, TablesTyped, Stored, RowsTyped
<1>3. /\ \A h \in Histories : \A i \in DOMAIN flows'[h] : flows'[h][i] \in 1 .. captured
      /\ \A t \in storing' : t.flow \in 1 .. captured
  <2>1. CASE InsertFailed(s)
    BY <2>1 DEF InsertFailed, RowsTyped
  <2>2. CASE Inserted(s)
    <3>1. /\ flows' = [flows EXCEPT ![d] = With(@, id, s.flow)]
          /\ storing' = (storing \ {s}) \cup {[s EXCEPT !.at = "announce", !.id = id]}
      BY <2>2 DEF Inserted
    <3> HIDE DEF id
    <3>2. [s EXCEPT !.at = "announce", !.id = id].flow = s.flow
      BY <1>2 DEF Stored
    <3>3. /\ flows'[d] = With(flows[d], id, s.flow)
          /\ \A h \in Histories \ {d} : flows'[h] = flows[h]
      BY <1>2, <3>1
    <3>4. \A i \in DOMAIN flows'[d] : flows'[d][i] \in 1 .. captured
      BY <1>2, <3>3 DEF With, RowsTyped
    <3>5. \A t \in storing' : t.flow \in 1 .. captured
      BY <1>2, <3>1, <3>2 DEF RowsTyped
    <3> QED
      BY <3>3, <3>4, <3>5 DEF RowsTyped
  <2> QED
    BY <2>1, <2>2 DEF StoreFlow
<1> QED
  BY <1>1, <1>3 DEF RowsTyped

LEMMA RowsOfDeletion ==
  ASSUME TrafficIInv, RowsTyped, ClearFlows \/ \E id \in DOMAIN flows[shown] : DeleteFlow(id)
  PROVE  RowsTyped'
<1>1. shown \in Histories /\ DOMAIN flows = Histories /\ DOMAIN comments = Histories
  BY DEF TrafficIInv, TablesTyped
<1>2. UNCHANGED <<captured, storing, asking>>
  BY DEF ClearFlows, DeleteFlow
<1>3. /\ \A h \in Histories \ {shown} : flows'[h] = flows[h] /\ comments'[h] = comments[h]
      /\ DOMAIN flows'[shown] \subseteq DOMAIN flows[shown]
      /\ \A i \in DOMAIN flows'[shown] : flows'[shown][i] = flows[shown][i]
      /\ DOMAIN comments'[shown] \subseteq DOMAIN comments[shown]
      /\ \A k \in DOMAIN comments'[shown] : comments'[shown][k] = comments[shown][k]
  <2>1. CASE ClearFlows
    <3>1. flows'[shown] = <<>> /\ comments'[shown] = <<>> /\ DOMAIN <<>> = {}
      BY <1>1, <2>1 DEF ClearFlows
    <3> QED
      BY <1>1, <2>1, <3>1 DEF ClearFlows
  <2>2. ASSUME NEW id \in DOMAIN flows[shown], DeleteFlow(id)
        PROVE  /\ \A h \in Histories \ {shown} : flows'[h] = flows[h] /\ comments'[h] = comments[h]
               /\ flows'[shown] = Without(flows[shown], {id})
               /\ comments'[shown] = Without(comments[shown], CommentsOf(shown, {id}))
    BY <1>1, <2>2 DEF DeleteFlow, Deleted
  <2> QED
    BY <2>1, <2>2 DEF Without
<1>4. IsFiniteSet(DOMAIN comments'[shown]) /\ DOMAIN comments'[shown] \subseteq Nat
  BY <1>1, <1>3, FS_Subset DEF RowsTyped
<1> QED
  BY <1>1, <1>2, <1>3, <1>4 DEF RowsTyped

LEMMA RowsOfRequests ==
  ASSUME TrafficIInv, RowsTyped, NEW c \in CommentClients,
         \/ \E id \in DOMAIN flows[shown] : AskCreate(c, id)
         \/ \E op \in {"update", "delete"}, k \in DOMAIN comments[shown] : AskChange(c, op, k)
  PROVE  RowsTyped'
<1>1. PICK a \in Request :
        a.db \in Histories /\ asking' = [asking EXCEPT ![c] = a]
  <2>1. /\ shown \in Histories /\ captured \in Nat
        /\ DOMAIN flows[shown] \subseteq Nat /\ 1 .. captured \subseteq Nat
        /\ DOMAIN comments[shown] \subseteq Nat
        /\ \A id \in DOMAIN flows[shown] : flows[shown][id] \in Nat
        /\ \A k \in DOMAIN comments[shown] :
             comments[shown][k].row \in Nat /\ comments[shown][k].of \in Nat
    BY DEF TrafficIInv, TablesTyped, RowsTyped
  <2>2. 0 \in Nat
    OBVIOUS
  <2>3. CASE \E id \in DOMAIN flows[shown] : AskCreate(c, id)
    <3>1. PICK id \in DOMAIN flows[shown] : AskCreate(c, id)
      BY <2>3
    <3>2. PICK a : a = [op |-> "create", db |-> shown, row |-> id, comment |-> 0, of |-> flows[shown][id]]
      OBVIOUS
    <3>3. a \in Request /\ a.db = shown
      BY <2>1, <2>2, <3>2 DEF Request
    <3>4. asking' = [asking EXCEPT ![c] = a]
      BY <3>1, <3>2 DEF AskCreate
    <3> QED
      BY <2>1, <3>3, <3>4
  <2>4. CASE \E op \in {"update", "delete"}, k \in DOMAIN comments[shown] : AskChange(c, op, k)
    <3>1. PICK op \in {"update", "delete"}, k \in DOMAIN comments[shown] : AskChange(c, op, k)
      BY <2>4
    <3>2. PICK a : a = [op |-> op, db |-> shown, row |-> comments[shown][k].row, comment |-> k,
                        of |-> comments[shown][k].of]
      OBVIOUS
    <3>3. a \in Request /\ a.db = shown
      BY <2>1, <3>2 DEF Request
    <3>4. asking' = [asking EXCEPT ![c] = a]
      BY <3>1, <3>2 DEF AskChange
    <3> QED
      BY <2>1, <3>3, <3>4
  <2> QED
    BY <2>3, <2>4
<1>2. UNCHANGED <<flows, comments, captured, storing>>
  BY DEF AskCreate, AskChange
<1> QED
  BY <1>1, <1>2 DEF RowsTyped

LEMMA RowsOfComments ==
  ASSUME TrafficIInv, RowsTyped, NEW c \in CommentClients, CreateComment(c) \/ ChangeComment(c)
  PROVE  RowsTyped'
<1> DEFINE d == asking[c].db
<1>1. /\ d \in Histories /\ asking[c].row \in Nat /\ asking[c].of \in Nat
      /\ DOMAIN comments = Histories
  BY DEF CreateComment, ChangeComment, RowsTyped, TrafficIInv, TablesTyped, Request
<1>2. UNCHANGED <<flows, captured, storing>> /\ asking' = [asking EXCEPT ![c] = NoAsk]
  BY DEF CreateComment, ChangeComment
<1>3. NoAsk \in Request /\ NoAsk.op = "none"
  BY DEF NoAsk, Request
<1>4. /\ IsFiniteSet(DOMAIN comments'[d]) /\ DOMAIN comments'[d] \subseteq Nat
      /\ \A k \in DOMAIN comments'[d] : comments'[d][k].row \in Nat /\ comments'[d][k].of \in Nat
      /\ \A h \in Histories \ {d} : comments'[h] = comments[h]
  <2>1. CASE CreateComment(c)
    <3> DEFINE id == NextId(comments[d])
               row == [row |-> asking[c].row, of |-> asking[c].of,
                       late |-> ~Still(d, asking[c].row, asking[c].of)]
    <3>1. comments' = [comments EXCEPT ![d] = With(@, id, row)]
      BY <2>1 DEF CreateComment
    <3>2. id \in Nat
      BY <1>1, NextIdIsFresh DEF RowsTyped
    <3>3. row.row \in Nat /\ row.of \in Nat
      <4>1. row.row = asking[c].row /\ row.of = asking[c].of
        OBVIOUS
      <4> QED
        BY <1>1, <4>1
    <3> HIDE DEF id, row
    <3>4. /\ comments'[d] = With(comments[d], id, row)
          /\ \A h \in Histories \ {d} : comments'[h] = comments[h]
      BY <1>1, <3>1
    <3>5. /\ DOMAIN comments'[d] = DOMAIN comments[d] \cup {id}
          /\ \A k \in DOMAIN comments'[d] :
               comments'[d][k] = row \/ (k \in DOMAIN comments[d] /\ comments'[d][k] = comments[d][k])
      BY <3>4 DEF With
    <3>6. IsFiniteSet(DOMAIN comments'[d])
      BY <1>1, <3>5, FS_AddElement DEF RowsTyped
    <3> QED
      BY <1>1, <3>2, <3>3, <3>4, <3>5, <3>6 DEF RowsTyped
  <2>2. CASE ChangeComment(c)
    <3>1. \/ comments' = comments
          \/ comments' = [comments EXCEPT ![d] = Without(@, {asking[c].comment})]
      BY <2>2 DEF ChangeComment
    <3>2. /\ DOMAIN comments'[d] \subseteq DOMAIN comments[d]
          /\ \A k \in DOMAIN comments'[d] : comments'[d][k] = comments[d][k]
          /\ \A h \in Histories \ {d} : comments'[h] = comments[h]
      BY <1>1, <3>1 DEF Without
    <3>3. IsFiniteSet(DOMAIN comments'[d])
      BY <1>1, <3>2, FS_Subset DEF RowsTyped
    <3> QED
      BY <1>1, <3>2, <3>3 DEF RowsTyped
  <2> QED
    BY <2>1, <2>2
<1> HIDE DEF d
<1>5. /\ asking' \in [CommentClients -> Request]
      /\ \A e \in CommentClients : asking'[e].op # "none" => asking'[e].db \in Histories
  BY <1>2, <1>3 DEF RowsTyped
<1>6. \A h \in Histories :
        /\ IsFiniteSet(DOMAIN comments'[h]) /\ DOMAIN comments'[h] \subseteq Nat
        /\ \A k \in DOMAIN comments'[h] : comments'[h][k].row \in Nat /\ comments'[h][k].of \in Nat
  BY <1>4 DEF RowsTyped
<1> QED
  BY <1>2, <1>5, <1>6 DEF RowsTyped

LEMMA RowsInvariant == TrafficSpec => []RowsTyped
<1>1. TrafficInit => RowsTyped
  <2> SUFFICES ASSUME TrafficInit PROVE RowsTyped
    OBVIOUS
  <2>1. DOMAIN <<>> = {} /\ IsFiniteSet({})
    BY FS_EmptySet
  <2>2. NoAsk \in Request /\ NoAsk.op = "none"
    BY DEF NoAsk, Request
  <2>3. \A d \in Histories : DOMAIN flows[d] = {} /\ DOMAIN comments[d] = {}
    BY <2>1 DEF TrafficInit
  <2> QED
    BY <2>1, <2>2, <2>3 DEF TrafficInit, RowsTyped
<1>2. TrafficIInv /\ RowsTyped /\ [TrafficNext]_trafficVars => RowsTyped'
  <2> SUFFICES ASSUME TrafficIInv, RowsTyped, [TrafficNext]_trafficVars PROVE RowsTyped'
    OBVIOUS
  <2>1. ASSUME NEW s \in storing, AnnounceFlow(s) PROVE RowsTyped'
    BY <2>1 DEF AnnounceFlow, RowsTyped
  <2>2. CASE RestartProxy \/ \E d \in Histories : ShowSession(d)
    BY <2>2 DEF RestartProxy, ShowSession, RowsTyped
  <2>3. CASE ProxyCaptures \/ CrawlCaptures
    BY <2>3, RowsOfCapture DEF ProxyCaptures, CrawlCaptures
  <2>4. CASE UNCHANGED trafficVars
    BY <2>4 DEF trafficVars, RowsTyped
  <2>5. CASE ClearFlows \/ \E id \in DOMAIN flows[shown] : DeleteFlow(id)
    BY <2>5, RowsOfDeletion
  <2> QED
    BY <2>1, <2>2, <2>3, <2>4, <2>5, RowsOfStored, RowsOfRequests, RowsOfComments DEF TrafficNext
<1> QED
  BY <1>1, <1>2, TrafficInvariant, PTL DEF TrafficSpec

(* The rows of the History are flows that were captured. *)
THEOREM TrafficTypeCorrect == TrafficSpec => []TrafficTypeOK
<1>1. TrafficIInv /\ RowsTyped => TrafficTypeOK
  BY DEF TrafficIInv, TablesTyped, RowsTyped, TrafficTypeOK
<1> QED
  BY <1>1, TrafficInvariant, RowsInvariant, PTL

-----------------------------------------------------------------------------
(* All of them side by side (MCMessaging). *)

(* The composition is of specifications of the components, which moves one *)
(* of them at a time: what is proved of a component holds in it.           *)
THEOREM MessagingIsItsParts ==
  MessagingSpec => BridgeSpec /\ HookSpec /\ RoomsSpec /\ TrafficSpec /\ SessionSpec
<1>1. MessagingInit => BridgeInit /\ HookInit /\ RoomsInit /\ TrafficInit /\ SessionInit
  BY DEF MessagingInit
<1>2. [MessagingNext]_messagingVars =>
        /\ [BridgeNext]_bridgeVars /\ [HookNext]_hookVars /\ [RoomsNext]_roomVars
        /\ [TrafficNext]_trafficVars /\ [SessionNext]_sessionVars
  BY DEF MessagingNext, messagingVars
<1> QED
  BY <1>1, <1>2, PTL DEF MessagingSpec, BridgeSpec, HookSpec, RoomsSpec, TrafficSpec, SessionSpec

(* The types of all components, in the composition of them. *)
THEOREM MessagingTypeCorrect == MessagingSpec => []MessagingTypeOK
BY MessagingIsItsParts, BridgeTypeCorrect, HookTypeCorrect, RoomsTypeCorrect,
   TrafficTypeCorrect, SessionTypeCorrect, PTL DEF MessagingTypeOK
=============================================================================
