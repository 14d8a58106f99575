----------------------------- MODULE StateFile ------------------------------
(***************************************************************************)
(* A clawlight state file and the source over it (agentlight-core,         *)
(* state.rs and source/clawlight.rs), driven by the desktop's commands.    *)
(*                                                                         *)
(* Three parties share the file.  clawlight updates entries under an       *)
(* advisory lock; the desktop's commands remove entries under the same     *)
(* lock, or without it when it cannot be taken; a user may replace or      *)
(* delete the file by hand.  Writes are atomic (FileReplace.tla).  The     *)
(* watcher thread compares the file's signature and publishes.             *)
(*                                                                         *)
(* A signature (length and modification time) matters only in comparison   *)
(* with the watcher's last one, so `last' holds that comparison.  Time is  *)
(* counted in hours; an entry is reaped StaleAfter hours after its update. *)
(*                                                                         *)
(* Operators named Mut... are bugs that a property of some run must catch; *)
(* no other definition uses them.                                          *)
(***************************************************************************)
EXTENDS Display

CONSTANTS
  Ids,          \* session ids
  Gone,         \* the file has no such entry
  Callers,      \* threads that run a command of the desktop
  Clawlight,    \* the outside writer
  Nobody,       \* the lock is free
  Faults,       \* whether locks and writes may fail and users may interfere
  OutStatuses,  \* statuses the outside writer writes
  Harness,      \* the harness of each session
  StaleAfter,   \* hours until an entry is stale
  MaxTime,      \* bound on the clock
  MaxWrites     \* bound on the writes from outside

ASSUME StateFileAssumption ==
  /\ Gone \notin [status : Statuses, at : Int]
  /\ Nobody \notin Callers \cup {Clawlight}
  /\ Clawlight \notin Callers
  /\ Faults \in BOOLEAN
  /\ OutStatuses \subseteq Statuses
  /\ DOMAIN Harness = Ids
  /\ StaleAfter \in Nat \ {0} /\ MaxTime \in Nat /\ MaxWrites \in Nat

VARIABLES
  file,        \* the state file
  now,         \* the clock
  lock,        \* the holder of .state.lock
  outside,     \* where clawlight is, and what it has read
  call,        \* the command each caller runs
  watch,       \* where the watcher thread is
  last,        \* the watcher's last signature, compared with the file's
  fresh,       \* the engine has published since the last write
  writes,      \* writes from outside so far
  trespassed,  \* history: somebody wrote without the lock, or was about to,
               \* while another party was at work
  blind,       \* history: after the last write the file has the watcher's
               \* last signature again
  touched      \* history: entries written by others since a caller listed

fileVars == <<file, now, lock, outside, call, watch, last, fresh, writes,
              trespassed, blind, touched>>

Entry == [status : Statuses, at : {NoTime} \cup 0 .. MaxTime]
Doc == [Ids -> Entry \cup {Gone}]
EmptyDoc == [i \in Ids |-> Gone]
File == [kind : {"missing", "broken", "doc", "bom"}, doc : Doc]
NoFile == [kind |-> "missing", doc |-> EmptyDoc]

Idle == [pc |-> "idle", op |-> "none", todo |-> {}, target |-> Gone,
         doc |-> EmptyDoc, publish |-> FALSE]

FileTypeOK ==
  /\ file \in File
  /\ now \in 0 .. MaxTime
  /\ lock \in Callers \cup {Clawlight, Nobody}
  /\ outside \in [pc : {"idle", "read", "write"}, doc : Doc]
  /\ call \in [Callers -> [pc      : {"idle", "next", "lock", "read", "write"},
                           op      : {"none", "remove", "clear"},
                           todo    : SUBSET Ids,
                           target  : Ids \cup {Gone},
                           doc     : Doc,
                           publish : BOOLEAN]]
  /\ watch \in {"start", "emit", "wait"}
  /\ last \in {"none", "same", "other"}
  /\ fresh \in BOOLEAN
  /\ writes \in 0 .. MaxWrites
  /\ trespassed \in BOOLEAN /\ blind \in BOOLEAN
  /\ touched \in [Callers -> SUBSET Ids]

FileInit ==
  /\ file = NoFile
  /\ now = 0
  /\ lock = Nobody
  /\ outside = [pc |-> "idle", doc |-> EmptyDoc]
  /\ call = [c \in Callers |-> Idle]
  /\ watch = "start"
  /\ last = "none"
  /\ fresh = FALSE
  /\ writes = 0
  /\ trespassed = FALSE
  /\ blind = FALSE
  /\ touched = [c \in Callers |-> {}]

-----------------------------------------------------------------------------
(***************************************************************************)
(* Reading the file.                                                       *)
(***************************************************************************)

\* The status of an entry once stale ones count as done.
Reap(e, time) ==
  IF e.status # "done" /\ e.at # NoTime /\ time - e.at >= StaleAfter
  THEN "done" ELSE e.status

\* The entries of a document as sessions.
BuildSessions(doc, time) ==
  {[id |-> i, status |-> Reap(doc[i], time), at |-> doc[i].at,
    harness |-> Harness[i], url |-> NoLink, subagent |-> FALSE] :
     i \in {j \in Ids : doc[j] # Gone}}

\* What load_state makes of the file; a byte order mark is tolerated here.
Load ==
  [health   |-> CASE file.kind = "missing" -> "missing"
                  [] file.kind = "broken"  -> "unreadable"
                  [] OTHER                 -> "ready",
   sessions |-> BuildSessions(file.doc, now)]

SourceSnapshot == [kind |-> "file", health |-> Load.health,
                   sessions |-> Load.sessions]

DoneNow == {m.id : m \in {s \in Load.sessions : s.status = "done"}}

-----------------------------------------------------------------------------
(***************************************************************************)
(* Writing it.                                                             *)
(***************************************************************************)
Signature(f) == IF f.kind = "missing" THEN "none" ELSE "same"

\* The file becomes f.  The watcher cannot see a write that keeps length and
\* modification time, nor a file that came and went between two looks.
Replace(f) ==
  /\ file' = f
  /\ fresh' = FALSE
  /\ \/ last' = IF last = "none" THEN "none" ELSE "other"
     \/ /\ Faults /\ file.kind # "missing" /\ f.kind # "missing"
        /\ last = "same" /\ last' = "same"
  /\ blind' = (last' = Signature(f))

Written(doc) == [kind |-> "doc", doc |-> doc]

Acquire(holder) == lock = Nobody /\ lock' = holder
Release(holder) == lock' = IF lock = holder THEN Nobody ELSE lock

-----------------------------------------------------------------------------
(***************************************************************************)
(* The outside.                                                            *)
(***************************************************************************)
Tick ==
  /\ now < MaxTime
  /\ now' = now + 1
  /\ UNCHANGED <<file, lock, outside, call, watch, last, fresh, writes,
                 trespassed, blind, touched>>

\* clawlight takes the lock before it reads.
OutsideLock ==
  /\ outside.pc = "idle" /\ writes < MaxWrites
  /\ Acquire(Clawlight)
  /\ outside' = [outside EXCEPT !.pc = "read"]
  /\ writes' = writes + 1
  /\ UNCHANGED <<file, now, call, watch, last, fresh, trespassed, blind,
                 touched>>

OutsideRead ==
  /\ outside.pc = "read"
  /\ IF file.kind = "broken"
     THEN /\ outside' = [outside EXCEPT !.pc = "idle"]
          /\ Release(Clawlight)
     ELSE /\ outside' = [pc |-> "write", doc |-> file.doc]
          /\ UNCHANGED lock
  /\ UNCHANGED <<file, now, call, watch, last, fresh, writes, trespassed, blind,
                 touched>>

OutsideWrite ==
  /\ outside.pc = "write"
  /\ \E i \in Ids, s \in OutStatuses, t \in {now, NoTime} :
       /\ Replace(Written([outside.doc EXCEPT ![i] = [status |-> s, at |-> t]]))
       /\ touched' = [c \in Callers |-> IF call[c].op = "clear"
                                        THEN touched[c] \cup {i} ELSE {}]
  /\ outside' = [pc |-> "idle", doc |-> EmptyDoc]
  /\ Release(Clawlight)
  /\ trespassed' = (trespassed /\ \E c \in Callers : call[c].pc # "idle")
  /\ UNCHANGED <<now, call, watch, writes>>

Working == outside.pc = "write" \/ \E c \in Callers : call[c].pc = "write"

\* A user breaks, deletes or re-saves the file with a byte order mark.
Edit ==
  /\ Faults /\ writes < MaxWrites
  /\ writes' = writes + 1
  /\ \/ Replace([kind |-> "broken", doc |-> EmptyDoc])
     \/ file.kind # "missing" /\ Replace(NoFile)
     \/ file.kind = "doc" /\ Replace([file EXCEPT !.kind = "bom"])
  /\ trespassed' = (trespassed \/ Working)
  /\ UNCHANGED <<now, lock, outside, call, watch, touched>>

-----------------------------------------------------------------------------
(***************************************************************************)
(* Commands.  The desktop asks the engine, the engine sends one            *)
(* RemoveSession after the other to the source.                            *)
(***************************************************************************)
Set(c, r) == call' = [call EXCEPT ![c] = r]

ClearSession(c) ==
  /\ call[c].pc = "idle"
  /\ \E i \in Ids :
       Set(c, [Idle EXCEPT !.pc = "next", !.op = "remove", !.todo = {i},
                           !.publish = \E m \in Load.sessions : m.id = i])
  /\ touched' = [touched EXCEPT ![c] = {}]
  /\ UNCHANGED <<file, now, lock, outside, watch, last, fresh, writes,
                 trespassed, blind>>

\* Everything with a time in the past is listed.
MutClearDone(c) ==
  /\ call[c].pc = "idle"
  /\ \E S \in {{m.id : m \in {s \in Load.sessions : s.at < now}}} :
       S # {} /\ Set(c, [Idle EXCEPT !.pc = "next", !.op = "clear", !.todo = S])
  /\ touched' = [touched EXCEPT ![c] = {}]
  /\ UNCHANGED <<file, now, lock, outside, watch, last, fresh, writes,
                 trespassed, blind>>

\* The sessions that are done now, stale ones included, are removed one by
\* one; with none there is nothing to do.
ClearDone(c) ==
  /\ call[c].pc = "idle"
  /\ DoneNow # {}
  /\ Set(c, [Idle EXCEPT !.pc = "next", !.op = "clear", !.todo = DoneNow])
  /\ touched' = [touched EXCEPT ![c] = {}]
  /\ UNCHANGED <<file, now, lock, outside, watch, last, fresh, writes,
                 trespassed, blind>>

\* What becomes of the command when one removal has ended.
Removed(r) == [r EXCEPT !.pc = "next", !.doc = EmptyDoc, !.target = Gone,
                        !.publish = @ \/ r.op = "clear"]
Failed(r) == IF r.op = "remove" THEN Idle
             ELSE [r EXCEPT !.pc = "next", !.doc = EmptyDoc, !.target = Gone]

\* A missing file has nothing to remove; that is no error.
Dispatch(c) ==
  /\ call[c].pc = "next"
  /\ \E i \in call[c].todo :
       LET r == [call[c] EXCEPT !.todo = @ \ {i}, !.target = i]
       IN  Set(c, IF file.kind = "missing" THEN Removed(r)
                  ELSE [r EXCEPT !.pc = "lock"])
  /\ UNCHANGED <<file, now, lock, outside, watch, last, fresh, writes,
                 trespassed, blind, touched>>

\* The file is read and the lock given back before the file is written.
MutReadDoc(c) ==
  /\ call[c].pc = "read"
  /\ IF file.kind = "doc"
     THEN Set(c, [call[c] EXCEPT !.pc = "write", !.doc = file.doc])
     ELSE Set(c, Failed(call[c]))
  /\ Release(c)
  /\ UNCHANGED <<file, now, outside, watch, last, fresh, writes, trespassed,
                 blind, touched>>

\* Best effort: without a lock the command goes on.
LockFile(c) ==
  /\ call[c].pc = "lock"
  /\ \/ Acquire(c) /\ UNCHANGED trespassed
     \/ Faults /\ trespassed' = TRUE /\ UNCHANGED lock
  /\ Set(c, [call[c] EXCEPT !.pc = "read"])
  /\ UNCHANGED <<file, now, outside, watch, last, fresh, writes, blind, touched>>

\* A file that does not parse, or has a byte order mark, ends the removal in
\* an error and is not written.
ReadDoc(c) ==
  /\ call[c].pc = "read"
  /\ IF file.kind = "doc"
     THEN Set(c, [call[c] EXCEPT !.pc = "write", !.doc = file.doc])
          /\ UNCHANGED lock
     ELSE Set(c, Failed(call[c])) /\ Release(c)
  /\ UNCHANGED <<file, now, outside, watch, last, fresh, writes, trespassed,
                 blind, touched>>

WriteDoc(c) ==
  LET r == call[c] IN
  /\ r.pc = "write"
  /\ \/ /\ r.doc[r.target] = Gone
        /\ Set(c, Removed(r))
        /\ UNCHANGED <<file, last, fresh, blind>>
     \/ /\ r.doc[r.target] # Gone
        /\ Replace(Written([r.doc EXCEPT ![r.target] = Gone]))
        /\ Set(c, Removed(r))
     \/ /\ Faults /\ r.doc[r.target] # Gone
        /\ Set(c, Failed(r))
        /\ UNCHANGED <<file, last, fresh, blind>>
  /\ Release(c)
  /\ UNCHANGED <<now, outside, watch, writes, trespassed, touched>>

\* The command returns; it publishes when the session existed, or when at
\* least one removal succeeded.
Return(c) ==
  /\ call[c].pc = "next" /\ call[c].todo = {}
  /\ fresh' = (fresh \/ call[c].publish)
  /\ Set(c, Idle)
  /\ touched' = [touched EXCEPT ![c] = {}]
  /\ trespassed' = (trespassed /\ (outside.pc # "idle" \/
                       \E d \in Callers \ {c} : call[d].pc # "idle"))
  /\ UNCHANGED <<file, now, lock, outside, watch, last, writes, blind>>

-----------------------------------------------------------------------------
(***************************************************************************)
(* The watcher thread.                                                     *)
(***************************************************************************)

\* The first publish comes before the first signature is taken.
MutWatchStart ==
  /\ watch = "start"
  /\ \/ ~fresh /\ fresh' = TRUE /\ UNCHANGED <<last, watch>>
     \/ /\ last' = Signature(file) /\ watch' = "wait"
        /\ UNCHANGED fresh
  /\ UNCHANGED <<file, now, lock, outside, call, writes, trespassed,
                 blind, touched>>

WatchStart ==
  /\ watch = "start"
  /\ last' = Signature(file)
  /\ watch' = "emit"
  /\ UNCHANGED <<file, now, lock, outside, call, fresh, writes, trespassed,
                 blind, touched>>

\* The engine reads the source again and publishes what it finds.
Emit ==
  /\ watch = "emit"
  /\ fresh' = TRUE
  /\ watch' = "wait"
  /\ UNCHANGED <<file, now, lock, outside, call, last, writes, trespassed,
                 blind, touched>>

\* A notification or the timeout: publish if the signature is another one.
Poll ==
  /\ watch = "wait"
  /\ last # Signature(file)
  /\ last' = Signature(file)
  /\ watch' = "emit"
  /\ UNCHANGED <<file, now, lock, outside, call, fresh, writes, trespassed,
                 blind, touched>>

WatchLoop == WatchStart \/ Emit \/ Poll

FileNext ==
  \/ Tick
  \/ OutsideLock \/ OutsideRead \/ OutsideWrite \/ Edit
  \/ \E c \in Callers : \/ ClearSession(c) \/ ClearDone(c)
                        \/ Dispatch(c) \/ LockFile(c) \/ ReadDoc(c)
                        \/ WriteDoc(c) \/ Return(c)
  \/ WatchLoop

FileSpec == FileInit /\ [][FileNext]_fileVars /\ WF_fileVars(WatchLoop)

-----------------------------------------------------------------------------
\* No update is lost while everybody takes the lock: a write changes one entry
\* of the file as it is, and undoes nothing that another party wrote.
UpdatesAreNotLost ==
  [][ /\ ~trespassed /\ ~trespassed'
      /\ file'.kind = "doc" /\ file.kind = "doc"
      => \A i, j \in Ids :
           file'.doc[i] # file.doc[i] /\ file'.doc[j] # file.doc[j] => i = j
    ]_fileVars

\* A session that is alive when clear_done removes it was done when the done
\* ones were listed and was written again since: its removals do not look at the
\* status again.
ClearTakesOnlyDone ==
  [][ \A c \in Callers, i \in Ids :
        /\ ~trespassed /\ ~trespassed'
        /\ call[c].pc = "write" /\ call[c].op = "clear"
        /\ file.doc[i] # Gone /\ file'.doc[i] = Gone
        /\ Reap(file.doc[i], now) # "done"
        => i \in touched[c]
    ]_fileVars

\* The screen follows the file: once nobody writes, what the engine published
\* last is what is there, unless that has the signature the watcher saw before.
CaughtUp == fresh \/ blind
WatcherCatchesUp == <>[]CaughtUp

\* Rendering through the source and the engine gives what rendering the file
\* alone gave: the same snapshots in every state and under every setting.
RenderConfigs ==
  [yellow_mode : {"any_inactive", "active_wins"}, show_done : BOOLEAN,
   show_subagents : {FALSE}, session_link : {"opencode_v2", "producer"},
   base : {NoBase}, source_kind : {"file"}]
SeamKeepsSnapshots ==
  \A config \in RenderConfigs :
    BuildSnapshot(Load, config) = Render(<<SourceSnapshot>>, config)

=============================================================================
