--------------------------- MODULE SessionManager ---------------------------
(***************************************************************************)
(* SessionManager (pwnproxy/services/session/manager.py) under the requests *)
(* of pwnproxy/transport/rest/session.py and its own auto-save loop.  Only  *)
(* save() takes _save_lock.  load(), create() and save() suspend in         *)
(* _point_engines() once for each database of the session, and load() and   *)
(* create() in what follows it; they may raise wherever they are, and       *)
(* nothing is taken back.                                                  *)
(*                                                                         *)
(* The scope stands for what a session keeps in its files (scope.json,      *)
(* proxy.json, modules.json), which are written together.                  *)
(***************************************************************************)
EXTENDS Naturals, Sequences, FiniteSets

CONSTANTS
  Sessions,
  SessionCallers,  \* requests, and the auto-save loop
  Scopes,
  MaxRequests      \* bound: operations begun

(* What the model marks the steps of an operation with is no session's name. *)
ASSUME SessionAssumption ==
  /\ MaxRequests \in Nat /\ "none" \notin Scopes \cup SessionCallers
  /\ {"none", "end", "read", "modules", "created", "change"} \cap Sessions = {}

SessionDatabases == <<"traffic", "scanner", "tokens", "tasks", "crawler">>

NoFiles == [scope |-> "absent", of |-> "none"]
Fresh(s) == [scope |-> "none", of |-> s]

VARIABLES
  current,   \* _active_name, "none" if there is no session
  memory,    \* the scope in memory, and the session it was set or loaded for
  unsaved,   \* _unsaved
  files,     \* [Sessions -> the scope in its files, and the session it is of]
  engine,    \* [the five databases -> the session they are of]
  saveLock,  \* who holds _save_lock, or "none"
  work,      \* [SessionCallers -> what each is doing]
  last,      \* the file last_session
  crawls,    \* the session the crawler worker was started for, "none" if it does not run
  begun,
  failed,    \* history: a create, a load or an update failed, and no create, load
             \* or start of the process has gone through since
  entangled  \* history: two operations were under way at once, the active session
             \* was renamed, or a session was written after an operation failed

sessionVars == <<current, memory, unsaved, files, engine, saveLock, work, last, crawls, begun,
                 failed, entangled>>

(* then: what a save is part of.  session: whose databases are opened. *)
NoWork == [pc |-> "idle", session |-> "none", next |-> 1, then |-> "none"]

(* The sessions of earlier days may be there, and none is remembered as the *)
(* last one; for a process that finds one, see Restart.                     *)
SessionInit ==
  /\ current = "none" /\ memory = Fresh("none") /\ unsaved = FALSE
  /\ files \in {f \in [Sessions -> {NoFiles} \cup {Fresh(s) : s \in Sessions}] :
                 \A s \in Sessions : f[s] \in {NoFiles, Fresh(s)}}
  /\ engine = [i \in DOMAIN SessionDatabases |-> "none"]
  /\ saveLock = "none" /\ work = [c \in SessionCallers |-> NoWork]
  /\ last = "none" /\ crawls = "none" /\ begun = 0
  /\ failed = FALSE /\ entangled = FALSE

Overlaps == \E d \in SessionCallers : work[d].pc # "idle"

Begin(c, writes) ==
  /\ work[c].pc = "idle" /\ begun < MaxRequests /\ begun' = begun + 1
  /\ entangled' = (entangled \/ (failed /\ writes) \/ Overlaps)

Opening(s, then) == [pc |-> "opening", session |-> s, next |-> 1, then |-> then]

-----------------------------------------------------------------------------
(* create(); if its files cannot be written, only the directory is made. *)
Create(c, s) ==
  /\ Begin(c, FALSE)
  /\ files[s] = NoFiles
  /\ files' = [files EXCEPT ![s] = Fresh(s)]
  /\ \/ /\ current' = s /\ memory' = Fresh(s) /\ unsaved' = FALSE
        /\ work' = [work EXCEPT ![c] = Opening(s, "created")]
     \/ UNCHANGED <<current, memory, unsaved, work>>
  /\ UNCHANGED <<engine, saveLock, last, crawls, failed>>

(* save(), when it has the lock: the files of whatever session is active.   *)
(* Without one they go to the default directory, under no name.            *)
HasLock(c, then, kept) ==
  /\ saveLock' = c
  /\ files' = IF current \in Sessions THEN [files EXCEPT ![current] = kept] ELSE files
  /\ work' = [work EXCEPT ![c] = Opening(current, then)]

EnterSave(c, then, kept) ==
  IF saveLock = "none"
    THEN HasLock(c, then, kept)
    ELSE /\ work' = [work EXCEPT ![c] = [NoWork EXCEPT !.pc = "locked out", !.then = then]]
         /\ UNCHANGED <<files, saveLock>>

Acquire(c) ==
  /\ work[c].pc = "locked out" /\ saveLock = "none"
  /\ HasLock(c, work[c].then, memory)
  /\ UNCHANGED <<current, memory, unsaved, engine, last, crawls, begun, failed, entangled>>

Save(c) ==
  /\ current # "none"
  /\ Begin(c, TRUE)
  /\ EnterSave(c, "end", memory)
  /\ UNCHANGED <<current, memory, unsaved, engine, last, crawls, failed>>

(* _auto_save_loop() *)
AutoSave(c) == unsaved /\ Save(c)

(* update_scope(): if it cannot be written, the scope is in memory only,    *)
(* and nothing marks it as unsaved.                                        *)
UpdateScope(c, scope) ==
  /\ Begin(c, current # "none")
  /\ memory' = [scope |-> scope, of |-> current]
  /\ \/ current # "none" /\ EnterSave(c, "end", memory') /\ UNCHANGED failed
     \/ current = "none" /\ UNCHANGED <<files, saveLock, work, failed>>
     \/ /\ current # "none" /\ saveLock = "none"
        /\ failed' = TRUE /\ UNCHANGED <<files, saveLock, work>>
  /\ UNCHANGED <<current, unsaved, engine, last, crawls>>

(* load(): what is unsaved is saved first. *)
Switch(c, s) ==
  /\ current' = s
  /\ work' = [work EXCEPT ![c] = Opening(s, "read")]

Load(c, s) ==
  /\ Begin(c, unsaved /\ current # "none")
  /\ files[s] # NoFiles
  /\ IF unsaved /\ current # "none"
       THEN EnterSave(c, s, memory) /\ UNCHANGED current
       ELSE Switch(c, s) /\ UNCHANGED <<files, saveLock>>
  /\ UNCHANGED <<memory, unsaved, engine, last, crawls, failed>>

-----------------------------------------------------------------------------
(* _point_engines(), one database at a time; its directory is made. *)
Open(c) ==
  LET w == work[c]
  IN /\ w.pc = "opening" /\ w.next <= Len(SessionDatabases)
     /\ engine' = [engine EXCEPT ![w.next] = w.session]
     /\ files' = IF w.session \in Sessions /\ files[w.session] = NoFiles
                   THEN [files EXCEPT ![w.session] = Fresh(w.session)] ELSE files
     /\ work' = [work EXCEPT ![c].next = @ + 1]
     /\ UNCHANGED <<current, memory, unsaved, saveLock, last, crawls, begun, failed, entangled>>

Opened(c) == work[c].pc = "opening" /\ work[c].next > Len(SessionDatabases)

(* The end of save(); a load that waited for it goes on. *)
Saved(c) ==
  LET w == work[c]
  IN /\ Opened(c) /\ saveLock = c
     /\ unsaved' = FALSE /\ saveLock' = "none"
     /\ IF w.then = "end"
          THEN work' = [work EXCEPT ![c] = NoWork] /\ UNCHANGED current
          ELSE Switch(c, w.then)
     /\ UNCHANGED <<memory, files, engine, last, crawls, begun, failed, entangled>>

(* Mutant: the scope of the session that was active before is kept. *)
ReadFilesKeepsScope(c) ==
  LET w == work[c]
  IN /\ Opened(c) /\ w.then = "read"
     /\ memory' = memory
     /\ work' = [work EXCEPT ![c].then = "modules"]
     /\ UNCHANGED <<current, unsaved, files, engine, saveLock, last, crawls, begun, failed, entangled>>

(* load() reads the files, and applies the state of the modules ... *)
ReadFiles(c) ==
  LET w == work[c]
  IN /\ Opened(c) /\ w.then = "read"
     /\ memory' = IF files[w.session] = NoFiles THEN Fresh(w.session) ELSE files[w.session]
     /\ work' = [work EXCEPT ![c].then = "modules"]
     /\ UNCHANGED <<current, unsaved, files, engine, saveLock, last, crawls, begun, failed, entangled>>

ModulesApplied(c) ==
  /\ work[c].then = "modules"
  /\ unsaved' = FALSE
  /\ work' = [work EXCEPT ![c].then = "created"]
  /\ UNCHANGED <<current, memory, files, engine, saveLock, last, crawls, begun, failed, entangled>>

(* ... and, like create(), remembers the session and restarts the proxy. *)
ProxyRestarted(c) ==
  /\ Opened(c) /\ work[c].then = "created"
  /\ last' = work[c].session
  /\ work' = [work EXCEPT ![c].then = "change"]
  /\ UNCHANGED <<current, memory, unsaved, files, engine, saveLock, crawls, begun, failed, entangled>>

(* _on_session_change(): the crawler worker is started on the session that  *)
(* is active by now, and does not run if that fails or there is none.       *)
ChangeNotified(c) ==
  /\ Opened(c) /\ work[c].then = "change"
  /\ crawls' \in {current, "none"}
  /\ work' = [work EXCEPT ![c] = NoWork]
  /\ failed' = FALSE
  /\ UNCHANGED <<current, memory, unsaved, files, engine, saveLock, last, begun, entangled>>

(* An operation raises, wherever it is but in the last hook, or its request *)
(* is cancelled: only the lock is given back.  What a save had under way is *)
(* as it was; a load or a create leaves the databases it has opened, the    *)
(* scope it has read and last_session as they happen to be.                *)
Fails(c) ==
  /\ work[c].pc # "idle" /\ work[c].then # "change"
  /\ saveLock' = IF saveLock = c THEN "none" ELSE saveLock
  /\ failed' = (failed \/ saveLock # c)
  /\ work' = [work EXCEPT ![c] = NoWork]
  /\ UNCHANGED <<current, memory, unsaved, files, engine, last, crawls, begun, entangled>>

-----------------------------------------------------------------------------
(* delete(): synchronous; the databases stay open. *)
Delete(s) ==
  /\ begun < MaxRequests /\ begun' = begun + 1
  /\ files[s] # NoFiles
  /\ files' = [files EXCEPT ![s] = NoFiles]
  /\ IF current = s THEN current' = "none" /\ unsaved' = FALSE ELSE UNCHANGED <<current, unsaved>>
  /\ entangled' = (entangled \/ Overlaps)
  /\ UNCHANGED <<memory, engine, saveLock, work, last, crawls, failed>>

(* rename(): the databases stay open under the old name. *)
Rename(old, new) ==
  /\ begun < MaxRequests /\ begun' = begun + 1
  /\ files[old] # NoFiles /\ files[new] = NoFiles
  /\ LET Of(m) == IF m.of = old THEN [m EXCEPT !.of = new] ELSE m
     IN /\ files' = [files EXCEPT ![new] = Of(files[old]), ![old] = NoFiles]
        /\ memory' = Of(memory)
  /\ current' = IF current = old THEN new ELSE current
  /\ entangled' = (entangled \/ current = old \/ Overlaps)
  /\ UNCHANGED <<unsaved, engine, saveLock, work, last, crawls, failed>>

(* mark_unsaved(), by any request that changes something *)
MarkUnsaved ==
  /\ ~unsaved /\ unsaved' = TRUE
  /\ UNCHANGED <<current, memory, files, engine, saveLock, work, last, crawls, begun, failed, entangled>>

(* Two requests write into the scope in memory, and leave it to the auto-   *)
(* save to keep it.  outscope_flow() has read the flow before.              *)
OutscopeFlow(scope) ==
  /\ memory.scope # scope
  /\ memory' = [memory EXCEPT !.scope = scope] /\ unsaved' = TRUE
  /\ entangled' = (entangled \/ Overlaps)
  /\ UNCHANGED <<current, files, engine, saveLock, work, last, crawls, begun, failed>>

(* import_burp() starts the crawler worker again. *)
ImportScope(scope) ==
  /\ memory' = [memory EXCEPT !.scope = scope] /\ unsaved' = TRUE
  /\ IF current = "none" THEN UNCHANGED crawls ELSE crawls' \in {current, "none"}
  /\ entangled' = (entangled \/ Overlaps)
  /\ UNCHANGED <<current, files, engine, saveLock, work, last, begun, failed>>

(* The process ends wherever it is, and another begins: start() loads the   *)
(* session in last_session, if it is still there, before any request is     *)
(* served.                                                                 *)
Restart ==
  LET found == IF last # "none" /\ files[last] # NoFiles THEN last ELSE "none"
  IN /\ begun < MaxRequests /\ begun' = begun + 1
     /\ current' = found
     /\ memory' = IF found = "none" THEN Fresh("none") ELSE files[found]
     /\ engine' = [i \in DOMAIN SessionDatabases |-> found]
     /\ crawls' \in {found, "none"}
     /\ unsaved' = FALSE /\ failed' = FALSE /\ saveLock' = "none"
     /\ work' = [c \in SessionCallers |-> NoWork]
     /\ UNCHANGED <<files, last, entangled>>

SessionNext ==
  \/ \E c \in SessionCallers :
       \/ \E s \in Sessions : Create(c, s) \/ Load(c, s)
       \/ \E scope \in Scopes : UpdateScope(c, scope)
       \/ Save(c) \/ AutoSave(c) \/ Acquire(c) \/ Open(c) \/ Saved(c)
       \/ ReadFiles(c) \/ ModulesApplied(c) \/ ProxyRestarted(c) \/ ChangeNotified(c) \/ Fails(c)
  \/ \E s \in Sessions : Delete(s) \/ \E t \in Sessions : Rename(s, t)
  \/ MarkUnsaved \/ Restart
  \/ \E scope \in Scopes : OutscopeFlow(scope) \/ ImportScope(scope)

SessionSpec == SessionInit /\ [][SessionNext]_sessionVars

-----------------------------------------------------------------------------
SessionTypeOK ==
  /\ {current, last, crawls} \subseteq Sessions \cup {"none"} /\ saveLock \in SessionCallers \cup {"none"}
  /\ engine \in [DOMAIN SessionDatabases -> Sessions \cup {"none"}]
  /\ \A s \in Sessions : files[s].scope \in Scopes \cup {"none", "absent"}
  /\ \A c \in SessionCallers :
       /\ work[c].pc \in {"idle", "locked out", "opening"}
       /\ work[c].next \in 1 .. Len(SessionDatabases) + 1

(* As long as its operations do not overlap, since the active session was   *)
(* last renamed, and unless a session is written after an operation failed, *)
(* the files of every session are its own.  A failed save changes nothing   *)
(* else, and the next create, load or start that goes through puts right    *)
(* what a failed one has left: an idle manager then has the five databases  *)
(* of its active session open, and its scope in memory, which is what the   *)
(* files say or what the next save will write; the crawler worker, if it    *)
(* runs, is that session's, and so is the one a restart would load.        *)
OneSessionAtATime ==
  LET quiet == \A c \in SessionCallers : work[c].pc = "idle"
  IN ~entangled =>
       /\ \A s \in Sessions : files[s] = NoFiles \/ files[s].of = s
       /\ quiet /\ ~failed /\ current # "none" =>
            /\ \A i \in DOMAIN engine : engine[i] = current
            /\ memory.of = current /\ (unsaved \/ memory = files[current])
            /\ crawls \in {current, "none"} /\ last = current

(* "Sessions are isolated and persisted locally" (README.md:198): the files *)
(* of a session hold nothing that was set in another.                      *)
SessionFilesIsolated ==
  \A s \in Sessions : files[s] = NoFiles \/ files[s].of \in {s, "none"}
=============================================================================
