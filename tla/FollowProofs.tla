----------------------------- MODULE FollowProofs ------------------------------
(***************************************************************************)
(* Proofs about the two sources a desktop follows: the state file          *)
(* (StateFile.tla) and a remote hub (HubClient.tla), each for any number   *)
(* of sessions, callers, rows, frames and faults.                          *)
(***************************************************************************)
EXTENDS MCFollow, SequenceTheorems, TLAPS

CallType == [pc      : {"idle", "next", "lock", "read", "write"},
             op      : {"none", "remove", "clear"},
             todo    : SUBSET Ids,
             target  : Ids \cup {Gone},
             doc     : Doc,
             publish : BOOLEAN]

(***************************************************************************)
(* The state file: types.                                                  *)
(***************************************************************************)

\* A document of entries stays one when an entry is replaced or removed.
LEMMA DocTyped ==
  /\ EmptyDoc \in Doc /\ NoFile \in File /\ Idle \in CallType
  /\ Gone \notin Entry
  /\ \A i : \A doc \in Doc, e \in Entry \cup {Gone} : [doc EXCEPT ![i] = e] \in Doc
  /\ \A doc \in Doc : Written(doc) \in File
<1>1. EmptyDoc \in Doc /\ NoFile \in File
  BY DEF EmptyDoc, Doc, NoFile, File
<1>2. Gone \notin Entry
  BY StateFileAssumption, DisplayAssumption DEF Entry
<1>3. \A i : \A doc \in Doc, e \in Entry \cup {Gone} : [doc EXCEPT ![i] = e] \in Doc
  BY DEF Doc
<1>4. \A doc \in Doc : Written(doc) \in File
  BY DEF Written, File
<1>5. Idle \in CallType
  BY <1>1 DEF Idle, CallType
<1>6. QED
  BY <1>1, <1>2, <1>3, <1>4, <1>5

\* A command stays one when a removal is chosen, ends or fails.
LEMMA CallTyped ==
  ASSUME NEW r \in CallType
  PROVE  /\ Removed(r) \in CallType /\ Failed(r) \in CallType
         /\ \A pc \in {"next", "lock", "read", "write"} :
              [r EXCEPT !.pc = pc] \in CallType
         /\ \A i \in Ids : [r EXCEPT !.todo = @ \ {i}, !.target = i] \in CallType
         /\ \A doc \in Doc : [r EXCEPT !.pc = "write", !.doc = doc] \in CallType
BY DocTyped DEF Removed, Failed, CallType

\* What a command is about before it runs.
LEMMA BeginTyped ==
  /\ \A S \in SUBSET Ids, p \in BOOLEAN :
       [Idle EXCEPT !.pc = "next", !.op = "remove", !.todo = S,
                    !.publish = p] \in CallType
  /\ \A S \in SUBSET Ids :
       [Idle EXCEPT !.pc = "next", !.op = "clear", !.todo = S] \in CallType
BY DocTyped DEF Idle, CallType

\* The done sessions are the entries that are there and count as done.
LEMMA DoneAreThere ==
  DoneNow = {i \in Ids : file.doc[i] # Gone /\ Reap(file.doc[i], now) = "done"}
<1> DEFINE row(i) == [id |-> i, status |-> Reap(file.doc[i], now),
                      at |-> file.doc[i].at, harness |-> Harness[i],
                      url |-> NoLink, subagent |-> FALSE]
<1>1. Load.sessions = {row(i) : i \in {j \in Ids : file.doc[j] # Gone}}
  BY DEF Load, BuildSessions
<1>2. \A i : row(i).id = i /\ row(i).status = Reap(file.doc[i], now)
  OBVIOUS
<1> HIDE DEF row
<1>3. QED
  BY <1>1, <1>2 DEF DoneNow

\* Replacing the file keeps the types of what it changes.
LEMMA ReplaceTyped ==
  ASSUME FileTypeOK, NEW f \in File, Replace(f)
  PROVE  /\ file' \in File /\ file' = f
         /\ last' \in {"none", "same", "other"}
         /\ fresh' \in BOOLEAN /\ blind' \in BOOLEAN
BY DEF FileTypeOK, Replace
\* One caller's command changes, and its type is kept.
LEMMA SetTyped ==
  ASSUME FileTypeOK, NEW c \in Callers, NEW r \in CallType, Set(c, r)
  PROVE  /\ call' \in [Callers -> CallType] /\ call'[c] = r
         /\ \A d \in Callers \ {c} : call'[d] = call[d]
BY DEF FileTypeOK, CallType, Set

\* The variables a step of the callers, of clawlight and of the watcher leaves.
watcherOf == <<watch, last, fresh, blind>>

\* Every step keeps the types.
LEMMA FileTypedStep ==
  FileTypeOK /\ [FileNext]_fileVars => FileTypeOK'
<1> SUFFICES ASSUME FileTypeOK, [FileNext]_fileVars
             PROVE  FileTypeOK'
  OBVIOUS
<1>0. /\ file \in File /\ now \in 0 .. MaxTime
      /\ lock \in Callers \cup {Clawlight, Nobody}
      /\ outside \in [pc : {"idle", "read", "write"}, doc : Doc]
      /\ call \in [Callers -> CallType]
      /\ watch \in {"start", "emit", "wait"}
      /\ last \in {"none", "same", "other"} /\ fresh \in BOOLEAN
      /\ writes \in 0 .. MaxWrites
      /\ trespassed \in BOOLEAN /\ blind \in BOOLEAN
      /\ touched \in [Callers -> SUBSET Ids]
      /\ MaxTime \in Nat /\ MaxWrites \in Nat
  BY StateFileAssumption DEF FileTypeOK, CallType
<1>a. ASSUME file' \in File, now' \in 0 .. MaxTime,
             lock' \in Callers \cup {Clawlight, Nobody},
             outside' \in [pc : {"idle", "read", "write"}, doc : Doc],
             call' \in [Callers -> CallType],
             watch' \in {"start", "emit", "wait"},
             last' \in {"none", "same", "other"}, fresh' \in BOOLEAN,
             writes' \in 0 .. MaxWrites,
             trespassed' \in BOOLEAN, blind' \in BOOLEAN,
             touched' \in [Callers -> SUBSET Ids]
      PROVE  FileTypeOK'
  BY <1>a DEF FileTypeOK, CallType
<1>b. file.doc \in Doc /\ outside.doc \in Doc
  BY <1>0 DEF File
<1>1. CASE Tick
  BY <1>0, <1>a, <1>1 DEF Tick
<1>2. CASE OutsideLock
  BY <1>0, <1>a, <1>2 DEF OutsideLock, Acquire
<1>3. CASE OutsideRead
  <2>1. /\ lock' \in Callers \cup {Clawlight, Nobody}
        /\ outside' \in [pc : {"idle", "read", "write"}, doc : Doc]
    BY <1>0, <1>b, <1>3 DEF OutsideRead, Release
  <2>2. QED
    BY <1>0, <1>a, <1>3, <2>1 DEF OutsideRead
<1>4. CASE OutsideWrite
  <2>1. PICK i \in Ids, s \in OutStatuses, t \in {now, NoTime} :
          Replace(Written([outside.doc EXCEPT ![i] = [status |-> s, at |-> t]]))
    BY <1>4 DEF OutsideWrite
  <2>2. [status |-> s, at |-> t] \in Entry
    BY <1>0, StateFileAssumption DEF Entry
  <2>3. /\ file' \in File /\ last' \in {"none", "same", "other"}
        /\ fresh' \in BOOLEAN /\ blind' \in BOOLEAN
    <3>1. PICK doc : doc = [outside.doc EXCEPT ![i] = [status |-> s, at |-> t]]
      OBVIOUS
    <3>2. doc \in Doc
      BY <1>b, <2>2, <3>1, DocTyped
    <3>3. Written(doc) \in File /\ Replace(Written(doc))
      BY <2>1, <3>1, <3>2, DocTyped
    <3>4. QED
      BY <3>3, ReplaceTyped
  <2>4. touched' \in [Callers -> SUBSET Ids]
    BY <1>0, <1>4 DEF OutsideWrite
  <2>5. /\ lock' \in Callers \cup {Clawlight, Nobody}
        /\ outside' \in [pc : {"idle", "read", "write"}, doc : Doc]
        /\ trespassed' \in BOOLEAN
        /\ UNCHANGED <<now, call, watch, writes>>
    BY <1>0, <1>4, DocTyped DEF OutsideWrite, Release
  <2>6. QED
    BY <1>0, <1>a, <2>3, <2>4, <2>5
<1>5. CASE Edit
  <2>1. \E f \in File : Replace(f)
    <3>1. [kind |-> "broken", doc |-> EmptyDoc] \in File
      BY DocTyped DEF File
    <3>2. [file EXCEPT !.kind = "bom"] \in File
      BY <1>0 DEF File
    <3>3. QED
      BY <1>5, <3>1, <3>2, DocTyped DEF Edit
  <2>2. /\ file' \in File /\ last' \in {"none", "same", "other"}
        /\ fresh' \in BOOLEAN /\ blind' \in BOOLEAN
    BY <2>1, ReplaceTyped
  <2>3. /\ writes' \in 0 .. MaxWrites /\ trespassed' \in BOOLEAN
        /\ UNCHANGED <<now, lock, outside, call, watch, touched>>
    BY <1>0, <1>5 DEF Edit
  <2>4. QED
    BY <1>0, <1>a, <2>2, <2>3
<1>6. ASSUME NEW c \in Callers, ClearSession(c) \/ ClearDone(c)
      PROVE  FileTypeOK'
  <2>1. DoneNow \in SUBSET Ids
    BY DoneAreThere
  <2>2. \E r \in CallType : Set(c, r)
    <3>1. CASE ClearSession(c)
      BY <3>1, BeginTyped DEF ClearSession
    <3>2. CASE ClearDone(c)
      BY <3>2, <2>1, BeginTyped DEF ClearDone
    <3>3. QED
      BY <1>6, <3>1, <3>2
  <2>3. call' \in [Callers -> CallType]
    BY <2>2, SetTyped
  <2>4. touched' = [touched EXCEPT ![c] = {}]
        /\ UNCHANGED <<file, now, lock, outside, watch, last, fresh, writes,
                       trespassed, blind>>
    BY <1>6, Zenon DEF ClearSession, ClearDone
  <2>5. QED
    BY <1>0, <1>a, <2>3, <2>4
<1>7. ASSUME NEW c \in Callers, Dispatch(c)
      PROVE  FileTypeOK'
  <2>1. PICK i \in call[c].todo :
          LET r == [call[c] EXCEPT !.todo = @ \ {i}, !.target = i]
          IN  Set(c, IF file.kind = "missing" THEN Removed(r)
                     ELSE [r EXCEPT !.pc = "lock"])
    BY <1>7 DEF Dispatch
  <2>2. PICK r : r = [call[c] EXCEPT !.todo = @ \ {i}, !.target = i]
    OBVIOUS
  <2>3. r \in CallType
    <3>1. call[c] \in CallType /\ i \in Ids
      BY <1>0 DEF CallType
    <3>2. QED
      BY <2>2, <3>1, CallTyped
  <2>4. Set(c, Removed(r)) \/ Set(c, [r EXCEPT !.pc = "lock"])
    BY <2>1, <2>2
  <2>5. call' \in [Callers -> CallType]
    BY <2>3, <2>4, CallTyped, SetTyped
  <2>6. QED
    BY <1>0, <1>7, <1>a, <2>5 DEF Dispatch
<1>8. ASSUME NEW c \in Callers, LockFile(c)
      PROVE  FileTypeOK'
  <2>1. call' \in [Callers -> CallType]
    BY <1>0, <1>8, CallTyped, SetTyped DEF LockFile
  <2>2. lock' \in Callers \cup {Clawlight, Nobody} /\ trespassed' \in BOOLEAN
    BY <1>0, <1>8 DEF LockFile, Acquire
  <2>3. QED
    BY <1>0, <1>8, <1>a, <2>1, <2>2 DEF LockFile
<1>9. ASSUME NEW c \in Callers, ReadDoc(c)
      PROVE  FileTypeOK'
  <2>1. call' \in [Callers -> CallType]
    BY <1>0, <1>9, <1>b, CallTyped, SetTyped DEF ReadDoc
  <2>2. lock' \in Callers \cup {Clawlight, Nobody}
    BY <1>0, <1>9 DEF ReadDoc, Release
  <2>3. QED
    BY <1>0, <1>9, <1>a, <2>1, <2>2 DEF ReadDoc
<1>10. ASSUME NEW c \in Callers, WriteDoc(c)
       PROVE  FileTypeOK'
  <2>1. PICK r : r = call[c]
    OBVIOUS
  <2>2. r \in CallType /\ r.doc \in Doc
    BY <1>0, <2>1 DEF CallType
  <2>3. Set(c, Removed(r)) \/ Set(c, Failed(r))
    BY <1>10, <2>1, Zenon DEF WriteDoc
  <2>4. call' \in [Callers -> CallType]
    BY <2>2, <2>3, CallTyped, SetTyped
  <2>5. \/ Replace(Written([r.doc EXCEPT ![r.target] = Gone]))
        \/ UNCHANGED <<file, last, fresh, blind>>
    BY <1>10, <2>1, Zenon DEF WriteDoc
  <2>6. /\ file' \in File /\ last' \in {"none", "same", "other"}
        /\ fresh' \in BOOLEAN /\ blind' \in BOOLEAN
    <3>1. PICK doc : doc = [r.doc EXCEPT ![r.target] = Gone]
      OBVIOUS
    <3>2. doc \in Doc
      BY <2>2, <3>1, DocTyped
    <3>3. Written(doc) \in File
      BY <3>2, DocTyped
    <3>4. QED
      BY <1>0, <2>5, <3>1, <3>3, ReplaceTyped
  <2>7. lock' \in Callers \cup {Clawlight, Nobody}
        /\ UNCHANGED <<now, outside, watch, writes, trespassed, touched>>
    BY <1>0, <1>10 DEF WriteDoc, Release
  <2>8. QED
    BY <1>0, <1>a, <2>4, <2>6, <2>7
<1>11. ASSUME NEW c \in Callers, Return(c)
       PROVE  FileTypeOK'
  <2>1. call' \in [Callers -> CallType]
    BY <1>11, DocTyped, SetTyped DEF Return
  <2>2. fresh' \in BOOLEAN /\ trespassed' \in BOOLEAN
    BY <1>0, <1>11 DEF Return, CallType
  <2>3. QED
    BY <1>0, <1>11, <1>a, <2>1, <2>2 DEF Return
<1>12. CASE WatchLoop
  BY <1>0, <1>12, <1>a DEF WatchLoop, WatchStart, Emit, Poll, Signature
<1>13. CASE UNCHANGED fileVars
  BY <1>0, <1>13, <1>a DEF fileVars
<1>14. QED
  BY <1>1, <1>2, <1>3, <1>4, <1>5, <1>6, <1>7, <1>8, <1>9, <1>10, <1>11, <1>12,
     <1>13 DEF FileNext
(***************************************************************************)
(* The state file: who holds the lock, and what he knows of the file.      *)
(***************************************************************************)

\* The lock belongs to whoever is between reading and writing with it, a command
\* at the file has a target, and a file that is not there or does not parse has
\* no entries.
Holding ==
  /\ \A c \in Callers : lock = c => call[c].pc \in {"read", "write"}
  /\ outside.pc # "idle" <=> lock = Clawlight
  /\ \A c \in Callers : call[c].pc = "idle" => call[c].op = "none"
  /\ file.kind \in {"missing", "broken"} => file.doc = EmptyDoc

\* Until somebody does without the lock, nobody has it but who reads or writes,
\* and what is about to be written was made of the file as it is.
Orderly ==
  ~trespassed =>
    /\ \A c \in Callers : call[c].pc \in {"read", "write"} => lock = c
    /\ outside.pc = "write" => outside.doc = file.doc
    /\ \A c \in Callers : call[c].pc = "write" => call[c].doc = file.doc

\* The sessions that clear_done has yet to remove, or is removing.
Listed(c) ==
  {i \in Ids : \/ i \in call[c].todo
               \/ call[c].pc \in {"lock", "read", "write"} /\ i = call[c].target}

\* Each was written again since, is gone or is done: who was done stays so.
MayGo(c, i) ==
  i \in touched[c] \/ file.doc[i] = Gone \/ Reap(file.doc[i], now) = "done"
Chosen ==
  ~trespassed =>
    \A c \in Callers : call[c].op = "clear" => \A i \in Listed(c) : MayGo(c, i)

FileInv == FileTypeOK /\ Holding /\ Orderly /\ Chosen

\* What becomes of a command when a removal has ended or failed.
LEMMA RemovalEnds ==
  ASSUME NEW r \in CallType
  PROVE  /\ Idle.pc = "idle" /\ Idle.op = "none" /\ Idle.todo = {}
         /\ Removed(r).pc = "next" /\ Removed(r).op = r.op /\ Removed(r).todo = r.todo
         /\ \/ Failed(r) = Idle
            \/ /\ Failed(r).pc = "next" /\ Failed(r).op = r.op
               /\ Failed(r).todo = r.todo
BY DEF Idle, Removed, Failed, CallType

\* A done entry stays done as time goes by.
LEMMA DoneStaysDone ==
  ASSUME NEW e \in Entry, NEW t \in Nat, Reap(e, t) = "done"
  PROVE  Reap(e, t + 1) = "done"
BY StateFileAssumption, DisplayAssumption DEF Reap, Entry

\* A step that only moves caller c on, and lists no more sessions for it.
Proceeds(c) ==
  /\ \A d \in Callers \ {c} : call'[d] = call[d]
  /\ call'[c].op = call[c].op \/ call'[c].op # "clear"
  /\ call'[c].op = "clear" => Listed(c)' \subseteq Listed(c)
  /\ touched' = touched /\ now' = now

\* Then what it may remove stays what it may, as long as no entry comes back.
LEMMA ChosenOn ==
  ASSUME Chosen, NEW c \in Callers, Proceeds(c), ~trespassed' => ~trespassed,
         ~trespassed' => \A i \in Ids : file'.doc[i] \in {file.doc[i], Gone}
  PROVE  Chosen'
<1> SUFFICES ASSUME ~trespassed', NEW d \in Callers, call'[d].op = "clear",
                    NEW i \in Listed(d)'
             PROVE  MayGo(d, i)'
  BY DEF Chosen
<1>1. call[d].op = "clear" /\ i \in Listed(d)
  BY DEF Proceeds, Listed
<1>2. MayGo(d, i)
  BY <1>1 DEF Chosen
<1>3. i \in Ids
  BY DEF Listed
<1>4. QED
  BY <1>2, <1>3 DEF MayGo, Proceeds
\* The lock and what is known of the file are kept by every step.
LEMMA FileInvStep ==
  FileInv /\ [FileNext]_fileVars => FileInv'
<1> SUFFICES ASSUME FileInv, [FileNext]_fileVars
             PROVE  FileInv'
  OBVIOUS
<1>t. FileTypeOK /\ FileTypeOK' /\ Holding /\ Orderly /\ Chosen
  BY FileTypedStep DEF FileInv
<1>0. /\ file \in File /\ now \in Nat /\ trespassed \in BOOLEAN
      /\ outside \in [pc : {"idle", "read", "write"}, doc : Doc]
      /\ call \in [Callers -> CallType]
      /\ touched \in [Callers -> SUBSET Ids]
      /\ Nobody \notin Callers \cup {Clawlight} /\ Clawlight \notin Callers
  BY <1>t, StateFileAssumption DEF FileTypeOK, CallType
<1>a. Holding' /\ Orderly' /\ Chosen' => FileInv'
  BY <1>t DEF FileInv
<1>1. CASE Tick
  <2>1. Holding' /\ Orderly'
    BY <1>t, <1>1 DEF Tick, Holding, Orderly
  <2>2. \A i \in Ids : file.doc[i] # Gone => file.doc[i] \in Entry
    BY <1>0 DEF File, Doc
  <2>3. \A c \in Callers, i \in Ids : MayGo(c, i) => MayGo(c, i)'
    BY <1>0, <1>1, <2>2, DoneStaysDone DEF Tick, MayGo
  <2>4. Chosen'
    BY <1>t, <1>1, <2>3 DEF Tick, Chosen, Listed
  <2>5. QED
    BY <1>a, <2>1, <2>4
<1>2. CASE OutsideLock \/ OutsideRead
  <2>1. UNCHANGED <<file, now, call, touched, trespassed>>
    BY <1>2, Zenon DEF OutsideLock, OutsideRead
  <2>2. Chosen'
    BY <1>t, <2>1 DEF Chosen, Listed, MayGo
  <2>3. /\ \A c \in Callers : lock' = c => lock = c
        /\ outside'.pc # "idle" <=> lock' = Clawlight
        /\ outside'.pc = "write" => outside'.doc = file.doc
        /\ \A c \in Callers : lock = c => lock' = c
    BY <1>t, <1>0, <1>2 DEF OutsideLock, OutsideRead, Acquire, Release, Holding
  <2>4. Holding' /\ Orderly'
    BY <1>t, <2>1, <2>3 DEF Holding, Orderly
  <2>5. QED
    BY <1>a, <2>2, <2>4
<1>3. CASE OutsideWrite
  <2>1. PICK i \in Ids, s \in OutStatuses, t \in {now, NoTime} :
          /\ Replace(Written([outside.doc EXCEPT ![i] = [status |-> s, at |-> t]]))
          /\ touched' = [c \in Callers |-> IF call[c].op = "clear"
                                           THEN touched[c] \cup {i} ELSE {}]
    BY <1>3 DEF OutsideWrite
  <2>2. /\ outside.pc = "write" /\ outside' = [pc |-> "idle", doc |-> EmptyDoc]
        /\ lock = Clawlight /\ lock' = Nobody
        /\ trespassed' => trespassed
        /\ ~trespassed' => ~trespassed \/ \A c \in Callers : call[c].pc = "idle"
        /\ UNCHANGED <<now, call>>
    BY <1>t, <1>3 DEF OutsideWrite, Holding, Release
  <2>3. file'.kind = "doc" /\ \A j \in Ids \ {i} : file'.doc[j] = outside.doc[j]
    BY <1>0, <2>1 DEF Replace, Written, Doc
  <2>4. Holding'
    BY <1>t, <1>0, <2>2, <2>3 DEF Holding
  <2>5. Orderly'
    BY <1>t, <1>0, <2>2 DEF Orderly, Holding
  <2>6. Chosen'
    <3> SUFFICES ASSUME ~trespassed', NEW c \in Callers, call[c].op = "clear",
                        NEW j \in Listed(c)
                 PROVE  MayGo(c, j)'
      BY <2>2 DEF Chosen, Listed
    <3>1. ~trespassed
      BY <1>t, <2>2 DEF Holding
    <3>2. MayGo(c, j) /\ outside.doc = file.doc /\ j \in Ids
      BY <1>t, <2>2, <3>1 DEF Chosen, Orderly, Listed
    <3>3. touched'[c] = touched[c] \cup {i}
      BY <2>1
    <3>4. QED
      BY <2>2, <2>3, <3>2, <3>3 DEF MayGo
  <2>7. QED
    BY <1>a, <2>4, <2>5, <2>6
<1>4. CASE Edit
  <2>1. /\ UNCHANGED <<now, lock, outside, call, touched>>
        /\ trespassed' = (trespassed \/ Working)
        /\ \/ file'.kind \in {"broken", "missing"} /\ file'.doc = EmptyDoc
           \/ file'.kind = "bom" /\ file'.doc = file.doc
    BY <1>0, <1>4 DEF Edit, Replace, NoFile, File
  <2>2. Holding' /\ Orderly'
    BY <1>t, <2>1 DEF Holding, Orderly, Working
  <2>3. \A i \in Ids : file'.doc[i] \in {file.doc[i], Gone}
    BY <2>1 DEF EmptyDoc
  <2>4. Chosen'
    BY <1>t, <2>1, <2>3 DEF Chosen, Listed, MayGo
  <2>5. QED
    BY <1>a, <2>2, <2>4
<1>5. ASSUME NEW c \in Callers, ClearSession(c)
      PROVE  FileInv'
  <2>1. /\ \A d \in Callers \ {c} : call'[d] = call[d]
        /\ call'[c].pc = "next" /\ call'[c].op = "remove"
        /\ call[c].pc = "idle" /\ \A d \in Callers \ {c} : touched'[d] = touched[d]
        /\ UNCHANGED <<file, now, lock, outside, trespassed>>
    BY <1>0, <1>5 DEF ClearSession, Set, Idle
  <2>2. Holding' /\ Orderly'
    BY <1>t, <2>1 DEF Holding, Orderly
  <2>3. Chosen'
    BY <1>t, <2>1 DEF Chosen, Listed, MayGo
  <2>4. QED
    BY <1>a, <2>2, <2>3
<1>6. ASSUME NEW c \in Callers, ClearDone(c)
      PROVE  FileInv'
  <2>1. /\ \A d \in Callers \ {c} : call'[d] = call[d]
        /\ call'[c].pc = "next" /\ call'[c].op = "clear" /\ call'[c].todo = DoneNow
        /\ call[c].pc = "idle" /\ \A d \in Callers \ {c} : touched'[d] = touched[d]
        /\ UNCHANGED <<file, now, lock, outside, trespassed>>
    BY <1>0, <1>6 DEF ClearDone, Set, Idle
  <2>2. Holding' /\ Orderly'
    BY <1>t, <2>1 DEF Holding, Orderly
  <2>3. \A d \in Callers \ {c} : call'[d].op = "clear" /\ ~trespassed' =>
          \A i \in Listed(d)' : MayGo(d, i)'
    BY <1>t, <2>1 DEF Chosen, Listed, MayGo
  <2>4. \A i \in Listed(c)' : MayGo(c, i)'
    BY <2>1, DoneAreThere DEF Listed, MayGo
  <2>5. Chosen'
    BY <2>3, <2>4 DEF Chosen
  <2>6. QED
    BY <1>a, <2>2, <2>5
<1>7. ASSUME NEW c \in Callers, Dispatch(c)
      PROVE  FileInv'
  <2>1. PICK i \in call[c].todo :
          LET r == [call[c] EXCEPT !.todo = @ \ {i}, !.target = i]
          IN  Set(c, IF file.kind = "missing" THEN Removed(r)
                     ELSE [r EXCEPT !.pc = "lock"])
    BY <1>7 DEF Dispatch
  <2>2. PICK r : r = [call[c] EXCEPT !.todo = @ \ {i}, !.target = i]
    OBVIOUS
  <2>3. /\ r \in CallType /\ r.op = call[c].op /\ r.target = i
        /\ r.todo = call[c].todo \ {i}
    <3>1. call[c] \in CallType /\ i \in Ids
      BY <1>0 DEF CallType
    <3>2. QED
      BY <2>2, <3>1, CallTyped DEF CallType
  <2>4. /\ \A d \in Callers \ {c} : call'[d] = call[d]
        /\ call'[c].op = call[c].op /\ call'[c].todo = call[c].todo \ {i}
        /\ call'[c].pc \in {"next", "lock"}
        /\ call'[c].pc = "lock" => call'[c].target = i
    <3>1. CASE Set(c, Removed(r))
      BY <1>0, <2>3, <3>1, RemovalEnds DEF Set
    <3>2. CASE Set(c, [r EXCEPT !.pc = "lock"])
      <4>1. PICK q : q = [r EXCEPT !.pc = "lock"]
        OBVIOUS
      <4>2. q.pc = "lock" /\ q.op = r.op /\ q.todo = r.todo /\ q.target = r.target
        BY <2>3, <4>1 DEF CallType
      <4>3. QED
        BY <1>0, <2>3, <3>2, <4>1, <4>2 DEF Set
    <3>3. QED
      BY <2>1, <2>2, <3>1, <3>2
  <2>5. call[c].pc = "next"
        /\ UNCHANGED <<file, now, lock, outside, trespassed, touched>>
    BY <1>7 DEF Dispatch
  <2>6. Holding' /\ Orderly'
    BY <1>t, <2>4, <2>5 DEF Holding, Orderly
  <2>7. Proceeds(c)
    BY <2>4, <2>5 DEF Proceeds, Listed
  <2>8. Chosen'
    BY <1>t, <2>5, <2>7, ChosenOn
  <2>9. QED
    BY <1>a, <2>6, <2>8
<1>8. ASSUME NEW c \in Callers, LockFile(c)
      PROVE  FileInv'
  <2>1. PICK r : r = [call[c] EXCEPT !.pc = "read"]
    OBVIOUS
  <2>2. /\ r.pc = "read" /\ r.op = call[c].op /\ r.todo = call[c].todo
        /\ r.target = call[c].target
    BY <1>0, <2>1 DEF CallType
  <2>3. /\ call[c].pc = "lock" /\ call'[c] = r
        /\ \A d \in Callers \ {c} : call'[d] = call[d]
        /\ \/ lock = Nobody /\ lock' = c /\ trespassed' = trespassed
           \/ trespassed' = TRUE /\ lock' = lock
        /\ UNCHANGED <<file, now, outside, touched>>
    BY <1>0, <1>8, <2>1 DEF LockFile, Set, Acquire
  <2>4. Holding'
    BY <1>t, <1>0, <2>2, <2>3 DEF Holding
  <2>5. Orderly'
    BY <1>t, <1>0, <2>2, <2>3 DEF Orderly
  <2>6. Proceeds(c)
    BY <2>2, <2>3 DEF Proceeds, Listed
  <2>7. Chosen'
    BY <1>t, <2>3, <2>6, ChosenOn
  <2>8. QED
    BY <1>a, <2>4, <2>5, <2>7
<1>9. ASSUME NEW c \in Callers, ReadDoc(c)
      PROVE  FileInv'
  <2>1. PICK r : r = [call[c] EXCEPT !.pc = "write", !.doc = file.doc]
    OBVIOUS
  <2>2. /\ r.pc = "write" /\ r.doc = file.doc /\ r.op = call[c].op
        /\ r.todo = call[c].todo /\ r.target = call[c].target
    BY <1>0, <2>1 DEF CallType
  <2>3. PICK q : q = Failed(call[c])
    OBVIOUS
  <2>4. \/ q.pc = "idle" /\ q.op = "none" /\ q.todo = {}
        \/ q.pc = "next" /\ q.op = call[c].op /\ q.todo = call[c].todo
    BY <1>0, <2>3, RemovalEnds
  <2>5. /\ call[c].pc = "read"
        /\ \/ call'[c] = r /\ lock' = lock
           \/ call'[c] = q /\ Release(c)
        /\ \A d \in Callers \ {c} : call'[d] = call[d]
        /\ UNCHANGED <<file, now, outside, touched, trespassed>>
    BY <1>0, <1>9, <2>1, <2>3 DEF ReadDoc, Set
  <2>6. Holding'
    BY <1>t, <1>0, <2>2, <2>4, <2>5 DEF Holding, Release
  <2>7. Orderly'
    BY <1>t, <1>0, <2>2, <2>4, <2>5 DEF Orderly, Release
  <2>8. Proceeds(c)
    BY <2>2, <2>4, <2>5 DEF Proceeds, Listed
  <2>9. Chosen'
    BY <1>t, <2>5, <2>8, ChosenOn
  <2>10. QED
    BY <1>a, <2>6, <2>7, <2>9
<1>10. ASSUME NEW c \in Callers, WriteDoc(c)
       PROVE  FileInv'
  <2>1. PICK q : call'[c] = q /\ (q = Removed(call[c]) \/ q = Failed(call[c]))
    BY <1>0, <1>10 DEF WriteDoc, Set
  <2>2. \/ q.pc = "idle" /\ q.op = "none" /\ q.todo = {}
        \/ q.pc = "next" /\ q.op = call[c].op /\ q.todo = call[c].todo
    BY <1>0, <2>1, RemovalEnds
  <2>3. /\ call[c].pc = "write" /\ Release(c)
        /\ \A d \in Callers \ {c} : call'[d] = call[d]
        /\ UNCHANGED <<now, outside, touched, trespassed>>
    BY <1>0, <1>10 DEF WriteDoc, Set
  <2>4. \/ file' = file
        \/ /\ file'.kind = "doc"
           /\ file'.doc = [call[c].doc EXCEPT ![call[c].target] = Gone]
    BY <1>10 DEF WriteDoc, Replace, Written
  <2>5. call[c].doc \in Doc
    BY <1>0 DEF CallType
  <2>6. Holding'
    BY <1>t, <1>0, <2>2, <2>1, <2>3, <2>4 DEF Holding, Release
  <2>7. ~trespassed =>
          /\ lock = c /\ call[c].doc = file.doc /\ outside.pc = "idle"
          /\ \A d \in Callers \ {c} : call[d].pc \notin {"read", "write"}
    BY <1>t, <1>0, <2>3 DEF Orderly, Holding
  <2>8. Orderly'
    BY <1>0, <2>1, <2>2, <2>3, <2>7 DEF Orderly
  <2>9. ~trespassed => \A i \in Ids : file'.doc[i] \in {file.doc[i], Gone}
    BY <2>4, <2>5, <2>7 DEF Doc
  <2>10. Proceeds(c)
    BY <2>1, <2>2, <2>3 DEF Proceeds, Listed
  <2>11. Chosen'
    BY <1>t, <2>3, <2>9, <2>10, ChosenOn
  <2>12. QED
    BY <1>a, <2>6, <2>8, <2>11
<1>11. ASSUME NEW c \in Callers, Return(c)
       PROVE  FileInv'
  <2>1. /\ call[c].pc = "next" /\ call'[c].pc = "idle" /\ call'[c].op = "none"
        /\ \A d \in Callers \ {c} : call'[d] = call[d] /\ touched'[d] = touched[d]
        /\ UNCHANGED <<file, now, lock, outside>>
    BY <1>0, <1>11, RemovalEnds DEF Return, Set, Idle
  <2>2. ~trespassed' =>
          \/ ~trespassed
          \/ outside.pc = "idle" /\ \A d \in Callers \ {c} : call[d].pc = "idle"
    BY <1>0, <1>11 DEF Return
  <2>3. Holding'
    BY <1>t, <2>1 DEF Holding
  <2>4. Orderly'
    BY <1>t, <2>1, <2>2 DEF Orderly
  <2>5. \A d \in Callers \ {c} : call[d].pc = "idle" => call[d].op = "none"
    BY <1>t DEF Holding
  <2>6. Chosen'
    BY <1>t, <2>1, <2>2, <2>5 DEF Chosen, Listed, MayGo
  <2>7. QED
    BY <1>a, <2>3, <2>4, <2>6
<1>12. CASE WatchLoop \/ UNCHANGED fileVars
  <2>1. UNCHANGED <<file, now, lock, outside, call, trespassed, touched>>
    BY <1>12, Zenon DEF WatchLoop, WatchStart, Emit, Poll, fileVars
  <2>2. Holding' /\ Orderly' /\ Chosen'
    BY <1>t, <2>1 DEF Holding, Orderly, Chosen, Listed, MayGo
  <2>3. QED
    BY <1>a, <2>2
<1>13. QED
  BY <1>1, <1>2, <1>3, <1>4, <1>5, <1>6, <1>7, <1>8, <1>9, <1>10, <1>11, <1>12
     DEF FileNext
\* In the beginning there is no file and nobody at work.
LEMMA FileInvInit ==
  FileInit => FileInv
<1> SUFFICES ASSUME FileInit
             PROVE  FileInv
  OBVIOUS
<1>1. /\ file = NoFile /\ file.kind = "missing" /\ file.doc = EmptyDoc
      /\ outside.pc = "idle" /\ outside.doc = EmptyDoc
      /\ lock = Nobody /\ trespassed = FALSE
      /\ \A c \in Callers : /\ call[c] = Idle /\ call[c].pc = "idle"
                            /\ call[c].op = "none"
  BY DEF FileInit, NoFile, Idle
<1>2. FileTypeOK
  <2>1. call \in [Callers -> CallType] /\ file \in File
    BY DocTyped DEF FileInit
  <2>2. outside \in [pc : {"idle", "read", "write"}, doc : Doc]
    BY DocTyped DEF FileInit
  <2>3. 0 \in 0 .. MaxTime /\ 0 \in 0 .. MaxWrites
    BY StateFileAssumption
  <2>4. touched \in [Callers -> SUBSET Ids]
    BY DEF FileInit
  <2>5. QED
    BY <2>1, <2>2, <2>3, <2>4 DEF FileInit, FileTypeOK, CallType
<1>3. Holding /\ Orderly /\ Chosen
  BY <1>1, StateFileAssumption DEF Holding, Orderly, Chosen
<1>4. QED
  BY <1>2, <1>3 DEF FileInv

\* A step that changes entries of the file while everybody takes the lock writes
\* the file as it is but for one entry.
LEMMA OneEntryChanges ==
  ASSUME FileInv, FileNext, ~trespassed, ~trespassed',
         file.kind = "doc", file'.kind = "doc", file' # file
  PROVE  \E i : \A j \in Ids \ {i} : file'.doc[j] = file.doc[j]
<1>0. Orderly /\ file.doc \in Doc
  BY DEF FileInv, FileTypeOK, File
<1>1. CASE OutsideWrite
  <2>1. PICK i \in Ids, s \in OutStatuses, t \in {now, NoTime} :
          Replace(Written([outside.doc EXCEPT ![i] = [status |-> s, at |-> t]]))
    BY <1>1 DEF OutsideWrite
  <2>2. outside.doc = file.doc
    BY <1>0, <1>1 DEF OutsideWrite, Orderly
  <2>3. \A j \in Ids \ {i} : file'.doc[j] = file.doc[j]
    BY <1>0, <2>1, <2>2 DEF Replace, Written, Doc
  <2>4. QED
    BY <2>3
<1>2. ASSUME NEW c \in Callers, WriteDoc(c)
      PROVE  \E i : \A j \in Ids \ {i} : file'.doc[j] = file.doc[j]
  <2>1. /\ call[c].doc = file.doc
        /\ file'.doc = [call[c].doc EXCEPT ![call[c].target] = Gone]
    BY <1>0, <1>2 DEF WriteDoc, Orderly, Replace, Written
  <2>2. \A j \in Ids \ {call[c].target} : file'.doc[j] = file.doc[j]
    BY <1>0, <2>1 DEF Doc
  <2>3. QED
    BY <2>2
<1>3. CASE Edit
  <2>1. file \in File
    BY DEF FileInv, FileTypeOK
  <2>2. file'.kind # "doc"
    BY <1>3, <2>1 DEF Edit, Replace, NoFile, File
  <2>3. QED
    BY <2>2
<1>4. QED
  <2>1. ASSUME \/ Tick \/ OutsideLock \/ OutsideRead
               \/ \E c \in Callers : \/ ClearSession(c) \/ ClearDone(c)
                                     \/ Dispatch(c) \/ LockFile(c) \/ ReadDoc(c)
                                     \/ Return(c)
               \/ WatchLoop
        PROVE  file' = file
    BY <2>1 DEF Tick, OutsideLock, OutsideRead, ClearSession, ClearDone, Dispatch,
                LockFile, ReadDoc, Return, WatchLoop, WatchStart, Emit, Poll
  <2>2. QED
    BY <1>1, <1>2, <1>3, <2>1 DEF FileNext

\* A step of either source leaves the other alone.
LEMMA EitherMoves ==
  [FollowNext]_followVars =>
    /\ [FileNext]_fileVars /\ [ClientNext]_clientVars /\ part' = part
BY DEF FollowNext, FileStep, HubStep, followVars

\* The invariant holds of the file whichever source moves.
LEMMA FollowKeepsFile == FollowSpec => []FileInv
<1>1. FollowInit => FileInv
  BY FileInvInit DEF FollowInit
<1>2. FileInv /\ [FollowNext]_followVars => FileInv'
  BY FileInvStep, EitherMoves
<1>3. QED
  BY <1>1, <1>2, PTL DEF FollowSpec

\* While everybody takes the lock no update is lost: a write changes one entry
\* of the file as it is (state.rs, clear_session, under .state.lock).
THEOREM UpdatesSurvive == FollowSpec => UpdatesAreNotLost
<1> DEFINE Kept == /\ ~trespassed /\ ~trespassed'
                   /\ file'.kind = "doc" /\ file.kind = "doc"
                   => \A i, j \in Ids :
                        file'.doc[i] # file.doc[i] /\ file'.doc[j] # file.doc[j]
                        => i = j
<1>1. FileInv /\ [FileNext]_fileVars => [Kept]_fileVars
  BY OneEntryChanges
<1>2. FileInv /\ [FollowNext]_followVars => [Kept]_fileVars
  BY <1>1, EitherMoves
<1>3. QED
  BY <1>2, FollowKeepsFile, PTL DEF FollowSpec, UpdatesAreNotLost

\* clear_done removes no session that is alive, unless it was done when the done
\* ones were listed and has been written again since; promised only until
\* somebody goes on without the lock.
THEOREM ClearSparesTheLiving == FollowSpec => ClearTakesOnlyDone
<1> DEFINE Spared ==
      \A c \in Callers, i \in Ids :
        /\ ~trespassed /\ ~trespassed'
        /\ call[c].pc = "write" /\ call[c].op = "clear"
        /\ file.doc[i] # Gone /\ file'.doc[i] = Gone
        /\ Reap(file.doc[i], now) # "done"
        => i \in touched[c]
<1>1. ASSUME FileInv, FileNext, NEW c \in Callers, NEW i \in Ids,
             ~trespassed, ~trespassed', call[c].pc = "write", call[c].op = "clear",
             file.doc[i] # Gone, file'.doc[i] = Gone,
             Reap(file.doc[i], now) # "done"
      PROVE  i \in touched[c]
  <2>0. /\ Orderly /\ Holding /\ Chosen /\ file.doc \in Doc
        /\ outside \in [pc : {"idle", "read", "write"}, doc : Doc]
        /\ Clawlight \notin Callers
    BY <1>1, StateFileAssumption DEF FileInv, FileTypeOK, File
  <2>1. lock = c /\ call[c].doc = file.doc /\ outside.pc = "idle"
        /\ \A d \in Callers \ {c} : call[d].pc # "write"
    BY <1>1, <2>0 DEF Orderly, Holding
  <2>2. file' # file /\ ~Edit /\ ~OutsideWrite
    BY <1>1, <2>1 DEF Edit, Working, OutsideWrite
  <2>3. \E d \in Callers : WriteDoc(d)
    BY <1>1, <2>2 DEF FileNext, Tick, OutsideLock, OutsideRead, ClearSession,
       ClearDone, Dispatch, LockFile, ReadDoc, Return, WatchLoop, WatchStart, Emit,
       Poll
  <2>4. WriteDoc(c)
    BY <2>1, <2>3 DEF WriteDoc
  <2>5. file'.doc = [file.doc EXCEPT ![call[c].target] = Gone]
    BY <2>1, <2>2, <2>4 DEF WriteDoc, Replace, Written
  <2>6. i = call[c].target
    BY <1>1, <2>0, <2>5 DEF Doc
  <2>7. MayGo(c, i)
    BY <1>1, <2>0, <2>6 DEF Chosen, Listed
  <2>8. QED
    BY <1>1, <2>7 DEF MayGo
<1>2. FileInv /\ [FileNext]_fileVars => [Spared]_fileVars
  BY <1>1
<1>3. FileInv /\ [FollowNext]_followVars => [Spared]_fileVars
  BY <1>2, EitherMoves
<1>4. QED
  BY <1>3, FollowKeepsFile, PTL DEF FollowSpec, ClearTakesOnlyDone
(***************************************************************************)
(* The state file: rendering.                                              *)
(***************************************************************************)

\* Rendering one source that holds what was loaded is rendering the file: a
\* session of a file is no subagent, so all are visible, and a file that cannot
\* be read has none.
LEMMA OneSourceRendersAlike ==
  ASSUME Holding, FileTypeOK
  PROVE  SeamKeepsSnapshots
<1> SUFFICES ASSUME NEW config \in RenderConfigs
             PROVE  BuildSnapshot(Load, config) = Render(<<SourceSnapshot>>, config)
  BY DEF SeamKeepsSnapshots
<1>1. PICK source : source = SourceSnapshot
  OBVIOUS
<1>2. /\ source.kind = "file" /\ source.health = Load.health
      /\ source.sessions = Load.sessions
  BY <1>1 DEF SourceSnapshot
<1>3. /\ Load.sessions = BuildSessions(file.doc, now)
      /\ Load.health \in {"missing", "unreadable", "ready"}
      /\ Load.health = "missing" <=> file.kind = "missing"
      /\ Load.health = "unreadable" <=> file.kind = "broken"
  <2>1. /\ Load.sessions = BuildSessions(file.doc, now)
        /\ Load.health = CASE file.kind = "missing" -> "missing"
                           [] file.kind = "broken"  -> "unreadable"
                           [] OTHER                 -> "ready"
    BY DEF Load
  <2>2. QED
    BY <2>1
<1>4. Load.health # "ready" => Load.sessions = {}
  BY <1>3 DEF Holding, BuildSessions, EmptyDoc
<1>5. ToSet(<<source>>) = {source} /\ <<source>> # <<>> /\ Head(<<source>>) = source
      /\ DOMAIN <<source>> = {1} /\ <<source>>[1] = source
  BY DEF ToSet
<1>6. UNION {s.sessions : s \in {source}} = Load.sessions
  BY <1>2
<1>7. {m \in Load.sessions : SessionVisible(config, m)} = Load.sessions
  BY <1>3 DEF BuildSessions, SessionVisible
<1>8. ErrorOf(<<source>>, config)
        = CASE Load.health = "ready"      -> <<>>
            [] Load.health = "missing"    -> <<"file", "waiting">>
            [] Load.health = "unreadable" -> <<"file", "reason">>
  <2>1. {k \in DOMAIN <<source>> : <<source>>[k].health # "ready"}
          = IF Load.health = "ready" THEN {} ELSE {1}
    BY <1>2, <1>5
  <2>2. Min({1}) = 1
    BY DEF Min
  <2>3. QED
    BY <1>2, <1>3, <1>5, <2>1, <2>2 DEF ErrorOf
<1>9. PICK shown, error, colour :
        /\ shown = Load.sessions /\ error = ErrorOf(<<source>>, config)
        /\ colour = Aggregate(CountModels(shown), config.yellow_mode)
  OBVIOUS
<1> DEFINE snapshot(rows) ==
      [ok |-> Load.health = "ready", error |-> error,
       exists |-> Load.health # "missing", source_kind |-> "file",
       aggregate |-> colour, counts |-> CountModels(shown),
       sessions |-> [k \in DOMAIN rows |-> DisplaySession(config, rows[k])]]
<1>10. BuildSnapshot(Load, config)
         = {snapshot(rows) : rows \in LoadSessions(shown, config)}
  <2>1. (IF Load.health = "ready" THEN Load.sessions ELSE {}) = shown
    BY <1>4, <1>9
  <2>2. QED
    BY <1>8, <1>9, <2>1, Zenon DEF BuildSnapshot
<1>11. Render(<<source>>, config)
         = {snapshot(rows) : rows \in LoadSessions(shown, config)}
  <2>1. (error = <<>>) = (Load.health = "ready")
    BY <1>3, <1>8, <1>9
  <2>2. (\E s \in ToSet(<<source>>) : s.health # "missing")
          = (Load.health # "missing")
    BY <1>2, <1>5
  <2> DEFINE all == {m \in UNION {s.sessions : s \in ToSet(<<source>>)} :
                       SessionVisible(config, m)}
             rendered(rows) ==
               [ok          |-> ErrorOf(<<source>>, config) = <<>>,
                error       |-> ErrorOf(<<source>>, config),
                exists      |-> \E s \in ToSet(<<source>>) : s.health # "missing",
                source_kind |-> IF <<source>> = <<>> THEN config.source_kind
                                ELSE Head(<<source>>).kind,
                aggregate   |-> Aggregate(CountModels(all), config.yellow_mode),
                counts      |-> CountModels(all),
                sessions    |-> [k \in DOMAIN rows |->
                                   DisplaySession(config, rows[k])]]
  <2>3. all = shown
    BY <1>5, <1>6, <1>7, <1>9
  <2>4. Render(<<source>>, config)
          = {rendered(rows) :
               rows \in {ApplyRetention(r, config.show_done) : r \in Sorted(all)}}
    BY Zenon DEF Render
  <2>5. \A rows : rendered(rows) = snapshot(rows)
    BY <1>2, <1>5, <1>9, <2>1, <2>2, <2>3
  <2>6. LoadSessions(shown, config)
          = {ApplyRetention(r, config.show_done) : r \in Sorted(all)}
    BY <2>3, Zenon DEF LoadSessions
  <2> HIDE DEF all, rendered, snapshot
  <2>7. QED
    BY <2>4, <2>5, <2>6
<1>12. QED
  BY <1>1, <1>10, <1>11
\* The engine renders a state file as it was rendered on its own (snapshot.rs),
\* in every state the file goes through and under every setting.
THEOREM FilesAreRenderedAlike == FollowSpec => []FileIsRenderedAlike
<1>1. FileInv => FileIsRenderedAlike
  BY OneSourceRendersAlike DEF FileInv, FileIsRenderedAlike
<1>2. QED
  BY <1>1, FollowKeepsFile, PTL

(***************************************************************************)
(* The hub: entries, frames and the queue.                                 *)
(***************************************************************************)
ThreadType == [pc   : {"get", "store", "emit", "connect", "join", "read", "ended"},
               next : {"connect", "read"}, poll : BOOLEAN, entry : Entries]
PostType == [pc : {"idle", "post", "get", "store", "emit"},
             op : {"none", "remove", "clear"}, target : Rows \cup {"none"},
             entry : Entries]

\* What the hub answers becomes an entry, and entries go into frames.
LEMMA EntriesTyped ==
  /\ NoEntry \in Entries /\ Unreachable \in Entries /\ NoFrame \in Frames
  /\ NoEntry.at = -1 /\ Unreachable.at = -1 /\ NoFrame.entry = NoEntry
  /\ NoFrame.event = ""
  /\ Lagged \in Frames /\ Lagged.event = "lagged" /\ Lagged.entry = NoEntry
  /\ AtConnect \in ThreadType /\ NoPost \in PostType
  /\ \A h \in Answers : /\ EntryFromSnapshot(h) \in Entries
                        /\ EntryFromSnapshot(h).at = h.at
                        /\ Update(h) \in Frames /\ Update(h).event = "update"
                        /\ Update(h).entry = EntryFromSnapshot(h)
  /\ \A e \in Entries : CacheSignature(e) \in Entries
<1>1. NoRows \in [Rows -> RowStatuses \cup {"gone"}] /\ MaxChanges \in Nat
  BY ClientAssumption DEF NoRows
<1>2. NoEntry \in Entries /\ NoEntry.at = -1
  BY <1>1 DEF NoEntry, Entries
<1>3. Unreachable \in Entries /\ Unreachable.at = -1
  BY <1>2 DEF Unreachable, Entries
<1>4. /\ NoFrame \in Frames /\ NoFrame.entry = NoEntry /\ NoFrame.event = ""
      /\ Lagged \in Frames /\ Lagged.event = "lagged" /\ Lagged.entry = NoEntry
  BY <1>2 DEF NoFrame, Frames, Lagged
<1>5. AtConnect \in ThreadType /\ NoPost \in PostType
  BY <1>2 DEF AtConnect, NoPost, ThreadType, PostType
<1>6. \A h \in Answers : EntryFromSnapshot(h) \in Entries
                         /\ EntryFromSnapshot(h).at = h.at
  BY <1>1 DEF Answers, EntryFromSnapshot, HealthOf, Entries
<1>7. \A h \in Answers : /\ Update(h) \in Frames /\ Update(h).event = "update"
                         /\ Update(h).entry = EntryFromSnapshot(h)
  BY <1>6 DEF Update, Frames
<1>8. \A e \in Entries : CacheSignature(e) \in Entries
  BY <1>1 DEF CacheSignature, Entries
<1>9. QED
  BY <1>2, <1>3, <1>4, <1>5, <1>6, <1>7, <1>8

LEMMA NothingTyped ==
  /\ NoEntry \in Entries /\ NoEntry.at = -1
  /\ Unreachable \in Entries /\ Unreachable.at = -1
  /\ NoFrame \in Frames /\ NoFrame.event = "" /\ NoFrame.entry = NoEntry
BY EntriesTyped

LEMMA EntryTyped ==
  ASSUME NEW h \in Answers
  PROVE  /\ EntryFromSnapshot(h) \in Entries /\ EntryFromSnapshot(h).at = h.at
         /\ Update(h) \in Frames /\ Update(h).event = "update"
         /\ Update(h).entry = EntryFromSnapshot(h)
BY EntriesTyped

LEMMA LaggedIsAFrame ==
  Lagged \in Frames /\ Lagged.event = "lagged"
BY EntriesTyped

LEMMA NoEntryTyped ==
  NoEntry \in Entries
BY EntriesTyped

LEMMA NoFrameTyped ==
  NoFrame \in Frames
BY EntriesTyped

LEMMA AtConnectTyped ==
  /\ AtConnect \in ThreadType /\ AtConnect.pc = "connect"
  /\ AtConnect.entry = NoEntry
BY NoEntryTyped DEF AtConnect, ThreadType

LEMMA SignatureTyped ==
  ASSUME NEW e \in Entries
  PROVE  CacheSignature(e) \in Entries
BY EntriesTyped

\* A queue holds no more updates than the hub keeps, behind at most one frame
\* that tells of lost ones.
QueueShape(q) ==
  /\ q \in Seq(Frames)
  /\ Len(q) <= FrameCapacity + 1
  /\ Len(q) = FrameCapacity + 1 => q[1].event = "lagged"
  /\ \A k \in 1 .. Len(q) : q[k].event = "update" \/ (k = 1 /\ q[k] = Lagged)

\* A queue without its first frame.
LEMMA QueueTail ==
  ASSUME NEW q, QueueShape(q), q # <<>>
  PROVE  /\ Head(q) \in Frames /\ Head(q) = q[1] /\ QueueShape(Tail(q))
         /\ Len(Tail(q)) = Len(q) - 1
         /\ \A k \in 1 .. Len(q) - 1 : Tail(q)[k] = q[k + 1]
<1>1. /\ q \in Seq(Frames) /\ Len(q) \in Nat /\ Len(q) # 0
      /\ FrameCapacity \in Nat \ {0}
  BY ClientAssumption DEF QueueShape
<1>2. PICK t : t = Tail(q)
  OBVIOUS
<1>3. /\ t \in Seq(Frames) /\ Len(t) = Len(q) - 1
      /\ \A k \in 1 .. Len(q) - 1 : t[k] = q[k + 1]
  BY <1>1, <1>2
<1>4. \A k \in 1 .. Len(t) : t[k].event = "update"
  BY <1>1, <1>3 DEF QueueShape
<1>5. Len(t) <= FrameCapacity
  BY <1>1, <1>3 DEF QueueShape
<1>6. QueueShape(t)
  BY <1>1, <1>3, <1>4, <1>5 DEF QueueShape
<1>7. Head(q) \in Frames /\ Head(q) = q[1]
  BY <1>1
<1>8. QED
  BY <1>2, <1>3, <1>6, <1>7

\* A frame goes to the end of the queue of an open stream, and what is passed
\* over is told of; nothing else comes in.
LEMMA QueuedDoes ==
  ASSUME QueueShape(queue), NEW frame \in Frames, frame.event = "update",
         NEW q, q = Queued(frame)
  PROVE  /\ QueueShape(q)
         /\ conn = "open" => q # <<>> /\ q[Len(q)] = frame
         /\ conn # "open" => q = queue
         /\ \A k \in 1 .. Len(q) : \/ q[k] \in {frame, Lagged}
                                   \/ \E j \in 1 .. Len(queue) : q[k] = queue[j]
<1>1. CASE conn # "open"
  BY <1>1 DEF Queued
<1>2. CASE conn = "open"
  <2>0. PICK w : w = Updates
    OBVIOUS
  <2>1. /\ queue \in Seq(Frames) /\ Len(queue) \in Nat
        /\ FrameCapacity \in Nat \ {0}
    BY ClientAssumption DEF QueueShape
  <2>2. /\ w \in Seq(Frames) /\ Len(w) \in Nat /\ Len(w) <= FrameCapacity
        /\ \A k \in 1 .. Len(w) : w[k].event = "update"
        /\ \A k \in 1 .. Len(w) : \E j \in 1 .. Len(queue) : w[k] = queue[j]
    <3>1. CASE queue # <<>> /\ Head(queue).event = "lagged"
      <4>1. w = Tail(queue)
        BY <2>0, <3>1 DEF Updates
      <4>2. /\ w \in Seq(Frames) /\ Len(w) = Len(queue) - 1 /\ Len(queue) # 0
            /\ \A k \in 1 .. Len(queue) - 1 : w[k] = queue[k + 1]
        BY <2>1, <3>1, <4>1, QueueTail
      <4>3. \A k \in 1 .. Len(w) : k + 1 \in 1 .. Len(queue) /\ k + 1 # 1
        BY <2>1, <4>2
      <4>4. \A k \in 1 .. Len(w) : w[k].event = "update"
        BY <4>2, <4>3 DEF QueueShape
      <4>5. Len(w) \in Nat /\ Len(w) <= FrameCapacity
        BY <2>1, <4>2 DEF QueueShape
      <4>6. ASSUME NEW k \in 1 .. Len(w)
            PROVE  \E j \in 1 .. Len(queue) : w[k] = queue[j]
        <5>1. w[k] = queue[k + 1]
          BY <4>2
        <5>2. QED
          BY <4>3, <5>1
      <4>7. QED
        BY <4>2, <4>4, <4>5, <4>6
    <3>2. CASE ~(queue # <<>> /\ Head(queue).event = "lagged")
      <4>1. w = queue
        BY <2>0, <3>2, Zenon DEF Updates
      <4>2. queue # <<>> => queue[1].event # "lagged" /\ Len(queue) # 0
        BY <2>1, <3>2
      <4>3. QED
        <5>1. \A k \in 1 .. Len(queue) : queue[k].event = "update"
          BY <2>1, <4>2, LaggedIsAFrame DEF QueueShape
        <5>2. Len(queue) <= FrameCapacity
          BY <2>1, <4>2, LaggedIsAFrame DEF QueueShape
        <5>3. QED
          BY <2>1, <4>1, <5>1, <5>2
    <3>3. QED
      BY <3>1, <3>2
  <2>3. CASE Len(w) < FrameCapacity
    <3>1. q = Append(queue, frame)
      BY <1>2, <2>0, <2>3 DEF Queued
    <3>2. /\ q \in Seq(Frames) /\ Len(q) = Len(queue) + 1
          /\ \A k \in 1 .. Len(queue) : q[k] = queue[k]
          /\ q[Len(queue) + 1] = frame
      BY <2>1, <3>1
    <3>3. Len(queue) <= FrameCapacity
          /\ (Len(queue) = FrameCapacity => queue[1].event = "lagged")
      <4>1. CASE queue # <<>> /\ Head(queue).event = "lagged"
        BY <2>0, <2>1, <2>3, <4>1, QueueTail DEF Updates
      <4>2. CASE ~(queue # <<>> /\ Head(queue).event = "lagged")
        <5>1. w = queue
          BY <2>0, <4>2, Zenon DEF Updates
        <5>2. QED
          BY <2>1, <2>3, <5>1
      <4>3. QED
        BY <4>1, <4>2
    <3>4. QueueShape(q)
      BY <2>1, <3>2, <3>3 DEF QueueShape
    <3>5. QED
      BY <1>2, <2>1, <3>2, <3>4
  <2>4. CASE ~(Len(w) < FrameCapacity)
    <3>1. q = <<Lagged>> \o Tail(Append(w, frame))
      BY <1>2, <2>0, <2>4 DEF Queued
    <3>2. PICK a1 : a1 = Append(w, frame)
      OBVIOUS
    <3>3. /\ a1 \in Seq(Frames) /\ Len(a1) = Len(w) + 1 /\ a1 # <<>>
          /\ \A k \in 1 .. Len(w) : a1[k] = w[k]
          /\ a1[Len(w) + 1] = frame
      BY <2>2, <3>2
    <3>4. PICK t : t = Tail(a1)
      OBVIOUS
    <3>5. /\ t \in Seq(Frames) /\ Len(t) = Len(w)
          /\ \A k \in 1 .. Len(w) : t[k] = a1[k + 1]
      BY <2>2, <3>3, <3>4
    <3>6. q = <<Lagged>> \o t
      BY <3>1, <3>2, <3>4
    <3>7. /\ q \in Seq(Frames) /\ Len(q) = Len(w) + 1 /\ q[1] = Lagged
          /\ \A k \in 2 .. Len(w) + 1 : q[k] = t[k - 1]
      <4>0. PICK g \in Frames : g = Lagged
        BY EntriesTyped
      <4>2. PICK l : l = <<Lagged>> /\ l = <<g>>
        BY <4>0
      <4>1. l \in Seq(Frames) /\ Len(l) = 1 /\ l[1] = Lagged
        BY <4>0, <4>2
      <4>3. /\ q \in Seq(Frames) /\ Len(q) = 1 + Len(t)
            /\ \A k \in 1 .. 1 + Len(t) :
                 q[k] = IF k <= 1 THEN l[k] ELSE t[k - 1]
        BY <3>5, <3>6, <4>1, <4>2, ConcatProperties
      <4>4. QED
        BY <2>2, <3>5, <4>1, <4>2, <4>3
    <3>8. ASSUME NEW k \in 2 .. Len(w) + 1
          PROVE  q[k] = a1[k]
      <4>1. k - 1 \in 1 .. Len(w) /\ (k - 1) + 1 = k
        BY <2>2
      <4>2. QED
        BY <3>5, <3>7, <4>1
    <3>9. \A k \in 2 .. Len(w) : q[k] = w[k]
      BY <2>2, <3>3, <3>8
    <3>10. Len(w) = FrameCapacity /\ q[Len(w) + 1] = frame
      BY <2>1, <2>2, <2>4, <3>3, <3>8
    <3>11. \A k \in 2 .. Len(w) + 1 : q[k] = frame \/ k \in 2 .. Len(w)
      BY <2>2, <3>10
    <3>12. QueueShape(q)
      <4>1. ASSUME NEW k \in 2 .. Len(q)
            PROVE  q[k].event = "update"
        <5>1. k \in 2 .. Len(w) + 1 /\ (k \in 2 .. Len(w) => k \in 1 .. Len(w))
          BY <2>2, <3>7
        <5>2. CASE q[k] = frame
          BY <5>2
        <5>3. CASE k \in 2 .. Len(w)
          BY <2>2, <3>9, <5>1, <5>3
        <5>4. QED
          BY <3>11, <5>1, <5>2, <5>3
      <4>2. \A k \in 1 .. Len(q) : k = 1 \/ k \in 2 .. Len(q)
        BY <2>2, <3>7
      <4>3. Len(q) <= FrameCapacity + 1 /\ q[1].event = "lagged"
        BY <2>1, <3>7, <3>10, LaggedIsAFrame
      <4>4. QED
        BY <3>7, <4>1, <4>2, <4>3 DEF QueueShape
    <3>13. \A k \in 1 .. Len(q) : \/ q[k] \in {frame, Lagged}
                                  \/ \E j \in 1 .. Len(queue) : q[k] = queue[j]
      BY <2>2, <3>7, <3>9, <3>11
    <3>14. QED
      BY <1>2, <2>1, <3>7, <3>10, <3>12, <3>13
  <2>5. QED
    BY <2>3, <2>4
<1>3. QED
  BY <1>1, <1>2
(***************************************************************************)
(* The hub: how far the client is.                                         *)
(***************************************************************************)

\* An entry made of what the hub h is, or was before.
Made(e, h) ==
  e \in Entries /\ e.at <= h.at /\ (e.at = h.at => e = EntryFromSnapshot(h))

\* A frame that carries the hub's state as it is.
News(f, h) == f.event = "update" /\ f.entry.at = h.at

\* The lines of frame f that were not read, and its part in the reader.
Lies(f, lines, part_read, connection) ==
  \/ lines = Lines(f) /\ part_read = NoFrame
  \/ lines = <<<<"fields", f>>>> /\ part_read = NoFrame /\ connection # "open"
  \/ lines = <<<<"blank", f>>>> /\ part_read = f

Off == conn = "closed" /\ rest = <<>> /\ queue = <<>> /\ reader = NoFrame

ClientTyped ==
  /\ hub \in Answers
  /\ screen \in Entries /\ last_poll \in Entries
  /\ up \in BOOLEAN /\ modern \in BOOLEAN /\ stop \in BOOLEAN
  /\ conn \in {"closed", "open", "dead"}
  /\ reader \in Frames /\ thread \in ThreadType /\ post \in PostType
  /\ newest \in -1 .. MaxChanges

\* Every entry was made of the hub, and the cache is no newer than the newest.
Carried ==
  /\ Made(cache, hub) /\ Made(thread.entry, hub) /\ Made(post.entry, hub)
  /\ cache.at <= newest /\ newest <= hub.at

\* The last frame of the queue carries the hub's state as it is, and what was
\* sent is at most one frame, of which a part may have been read.
Queueing ==
  /\ QueueShape(queue)
  /\ \A k \in 1 .. Len(queue) : Made(queue[k].entry, hub)
  /\ queue # <<>> => News(queue[Len(queue)], hub)
  /\ conn # "open" => queue = <<>>
Sent ==
  \/ rest = <<>> /\ (conn = "open" => reader = NoFrame)
  \/ \E f \in Frames : Lies(f, rest, reader, conn) /\ Made(f.entry, hub)

\* A thread that is not at its stream has none.
AtStream(t) == t.pc = "read" \/ (t.pc \in {"get", "store", "emit"} /\ t.next = "read")
Linked == (thread.pc = "read" => thread.next = "read") /\ (AtStream(thread) \/ Off)

\* While the stream is open what the hub has was cached, or is on its way, or
\* is about to be fetched, unless a fetch failed.
Abreast ==
  conn = "open" =>
    \/ failed \/ newest = hub.at \/ thread.pc = "get"
    \/ thread.pc = "store" /\ thread.entry.at = hub.at
    \/ queue # <<>>
    \/ \E f \in Frames : Lies(f, rest, reader, conn) /\ News(f, hub)

ClientInv == ClientTyped /\ Carried /\ Queueing /\ Sent /\ Linked /\ Abreast

\* An entry made of the hub stays one as the hub moves on.
LEMMA MadeStays ==
  ASSUME NEW h \in Answers, NEW g \in Answers, g = h \/ g.at > h.at
  PROVE  \A e : Made(e, h) => Made(e, g)
BY ClientAssumption DEF Made, Entries, Answers

LEMMA MadeNow ==
  ASSUME NEW h \in Answers
  PROVE  /\ Made(EntryFromSnapshot(h), h) /\ Made(NoEntry, h) /\ Made(Unreachable, h)
         /\ EntryFromSnapshot(h).at = h.at
         /\ h.at \in 0 .. MaxChanges
<1>1. h.at \in 0 .. MaxChanges /\ MaxChanges \in Nat
  BY ClientAssumption DEF Answers
<1>2. QED
  <2>1. Made(EntryFromSnapshot(h), h) /\ EntryFromSnapshot(h).at = h.at
    BY <1>1, EntryTyped DEF Made
  <2>2. Made(NoEntry, h) /\ Made(Unreachable, h)
    <3>1. -1 <= h.at /\ h.at # -1
      BY <1>1
    <3>2. /\ NoEntry.at <= h.at /\ NoEntry.at # h.at
          /\ Unreachable.at <= h.at /\ Unreachable.at # h.at
      BY <3>1, NothingTyped, Zenon
    <3>3. QED
      BY <3>2, NothingTyped, Zenon DEF Made
  <2>3. QED
    BY <1>1, <2>1, <2>2

\* The invariant has the types that the run checks.
LEMMA ClientTypesHold ==
  ClientInv => ClientTypeOK
<1> SUFFICES ASSUME ClientInv
             PROVE  ClientTypeOK
  OBVIOUS
<1>1. cache \in Entries
  BY DEF ClientInv, Carried, Made
<1>2. Len(queue) <= FrameCapacity + 1 /\ ToSet(queue) \subseteq Frames
  BY DEF ClientInv, Queueing, QueueShape, ToSet
<1>3. Len(rest) <= 2
  <2>1. \/ rest = <<>>
        \/ \E f \in Frames : \/ rest = <<<<"fields", f>>, <<"blank", f>>>>
                             \/ rest = <<<<"fields", f>>>>
                             \/ rest = <<<<"blank", f>>>>
    BY DEF ClientInv, Sent, Lies, Lines
  <2>2. ASSUME NEW f \in Frames, \/ rest = <<<<"fields", f>>, <<"blank", f>>>>
                                 \/ rest = <<<<"fields", f>>>>
                                 \/ rest = <<<<"blank", f>>>>
        PROVE  Len(rest) <= 2
    <3>1. PICK x, y : x = <<"fields", f>> /\ y = <<"blank", f>>
      OBVIOUS
    <3>2. rest = <<x, y>> \/ rest = <<x>> \/ rest = <<y>>
      BY <2>2, <3>1
    <3>3. Len(<<x, y>>) = 2 /\ Len(<<x>>) = 1 /\ Len(<<y>>) = 1
      OBVIOUS
    <3>4. Len(rest) = 2 \/ Len(rest) = 1
      BY <3>2, <3>3, Zenon
    <3>5. QED
      BY <3>4
  <2>3. QED
    BY <2>1, <2>2
<1>4. QED
  BY <1>1, <1>2, <1>3 DEF ClientInv, ClientTyped, ClientTypeOK, ThreadType, PostType

\* A stream that is open and drained leaves the cache behind the hub in one way
\* only.
LEMMA DrainedIsAbreast ==
  ClientInv => OnlyOvertakenIsStale
<1> SUFFICES ASSUME ClientInv, thread.pc = "read", conn = "open", rest = <<>>,
                    queue = <<>>, ~failed, ~Overtaken
             PROVE  Current(cache)
  BY DEF OnlyOvertakenIsStale
<1>1. \A f \in Frames : ~Lies(f, rest, reader, conn)
  BY DEF Lies, Lines
<1>2. newest = hub.at
  BY <1>1 DEF ClientInv, Abreast
<1>3. cache.at = hub.at
  BY <1>2, ClientAssumption DEF ClientInv, ClientTyped, Carried, Made, Overtaken, Answers, Entries
<1>4. cache = EntryFromSnapshot(hub)
  BY <1>3 DEF ClientInv, Carried, Made
<1>5. QED
  BY <1>4 DEF Current

\* In the beginning nothing was fetched and there is no stream.
LEMMA ClientInvInit ==
  ClientInit => ClientInv
<1> SUFFICES ASSUME ClientInit
             PROVE  ClientInv
  OBVIOUS
<1>1. NoRows \in [Rows -> RowStatuses \cup {"gone"}] /\ MaxChanges \in Nat
      /\ FrameCapacity \in Nat
  BY ClientAssumption DEF NoRows
<1>2. hub \in Answers /\ hub.at = 0
  BY <1>1 DEF ClientInit, Answers
<1>3. /\ thread \in ThreadType /\ thread.entry = NoEntry /\ thread.pc = "get"
      /\ thread.next = "connect"
  BY EntriesTyped DEF ClientInit, ThreadType
<1>4. post \in PostType /\ post.entry = NoEntry
  BY EntriesTyped DEF ClientInit, NoPost
<1>5. ClientTyped
  <2>1. screen \in Entries /\ last_poll \in Entries /\ reader \in Frames
    BY NothingTyped DEF ClientInit
  <2>2. newest \in -1 .. MaxChanges
    BY <1>1 DEF ClientInit
  <2>3. QED
    BY <1>2, <1>3, <1>4, <2>1, <2>2 DEF ClientInit, ClientTyped
<1>6. Carried
  <2>1. Made(NoEntry, hub) /\ NoEntry.at = -1 /\ cache = NoEntry /\ newest = -1
    BY <1>2, MadeNow, NothingTyped DEF ClientInit
  <2>2. QED
    BY <1>2, <1>3, <1>4, <2>1 DEF Carried
<1>7. QueueShape(<<>>) /\ Queueing /\ Sent
  BY <1>1 DEF ClientInit, QueueShape, Queueing, Sent
<1>8. Linked /\ Abreast
  BY <1>3 DEF ClientInit, Linked, Off, Abreast
<1>9. QED
  BY <1>5, <1>6, <1>7, <1>8 DEF ClientInv

\* A frame for a stream that is open is behind whatever waits; the state it
\* carries is the hub's.
LEMMA HubMoves ==
  ASSUME ClientInv, hub' \in Answers, hub' = hub \/ hub'.at > hub.at,
         queue' = Queued(Update(hub')),
         UNCHANGED <<up, modern, conn, rest, reader, thread, last_poll, cache,
                     screen, stop, newest, failed>>,
         post' \in PostType, Made(post'.entry, hub')
  PROVE  ClientInv'
<1>0. PICK h : h = hub'
  OBVIOUS
<1>1. /\ hub \in Answers /\ h \in Answers /\ (h = hub \/ h.at > hub.at)
      /\ ClientTyped /\ Carried /\ Queueing /\ Sent /\ Linked /\ Abreast
  BY <1>0 DEF ClientInv, ClientTyped
<1>2. \A e : Made(e, hub) => Made(e, h)
  BY <1>1, MadeStays
<1>3. /\ Update(h) \in Frames /\ Update(h).event = "update"
      /\ Made(Update(h).entry, h) /\ Update(h).entry.at = h.at
      /\ Made(NoEntry, h)
  <2>1. /\ Update(h) \in Frames /\ Update(h).event = "update"
        /\ Update(h).entry = EntryFromSnapshot(h)
    BY <1>1, EntryTyped
  <2>2. /\ Made(EntryFromSnapshot(h), h) /\ Made(NoEntry, h)
        /\ EntryFromSnapshot(h).at = h.at
    BY <1>1, MadeNow
  <2>3. QED
    BY <2>1, <2>2, Zenon
<1>4. PICK frame, q : frame = Update(h) /\ q = queue'
  OBVIOUS
<1>5. /\ QueueShape(q)
      /\ conn = "open" => q # <<>> /\ q[Len(q)] = frame
      /\ conn # "open" => q = queue
      /\ \A k \in 1 .. Len(q) : \/ q[k] \in {frame, Lagged}
                                \/ \E j \in 1 .. Len(queue) : q[k] = queue[j]
  BY <1>0, <1>1, <1>3, <1>4, QueuedDoes DEF Queueing
<1>6. \A k \in 1 .. Len(q) : Made(q[k].entry, h)
  <2>1. Lagged.entry = NoEntry
    BY EntriesTyped
  <2>2. \A j \in 1 .. Len(queue) : Made(queue[j].entry, h)
    BY <1>1, <1>2 DEF Queueing
  <2>3. QED
    BY <1>3, <1>4, <1>5, <2>1, <2>2
<1>7. Queueing'
  <2>1. q # <<>> => News(q[Len(q)], h)
    BY <1>1, <1>3, <1>4, <1>5 DEF Queueing, News
  <2>2. conn # "open" => q = <<>>
    BY <1>1, <1>5 DEF Queueing
  <2>3. QED
    BY <1>0, <1>4, <1>5, <1>6, <2>1, <2>2 DEF Queueing
<1>8. ClientTyped'
  BY <1>1 DEF ClientTyped
<1>9. Carried'
  <2>1. newest <= h.at
    <3>1. newest \in Int /\ hub.at \in Int /\ h.at \in Int /\ newest <= hub.at
      BY <1>1, ClientAssumption DEF Carried, ClientTyped, Answers
    <3>2. h.at = hub.at \/ h.at > hub.at
      BY <1>1
    <3>3. QED
      BY <3>1, <3>2
  <2>2. QED
    BY <1>0, <1>1, <1>2, <2>1 DEF Carried
<1>10. Sent'
  BY <1>0, <1>1, <1>2 DEF Sent
<1>11. Linked'
  BY <1>1, <1>4, <1>5 DEF Linked, Off
<1>12. Abreast'
  BY <1>4, <1>5 DEF Abreast
<1>13. QED
  BY <1>7, <1>8, <1>9, <1>10, <1>11, <1>12 DEF ClientInv

\* A step that changes neither the hub and its stream nor what the client has of
\* it.
LEMMA OthersMove ==
  ASSUME ClientInv,
         UNCHANGED <<hub, modern, conn, queue, rest, reader, thread, last_poll,
                     cache, newest>>,
         up' \in BOOLEAN, stop' \in BOOLEAN, screen' \in Entries,
         failed => failed',
         post' \in PostType, Made(post'.entry, hub)
  PROVE  ClientInv'
<1>1. ClientTyped /\ Carried /\ Queueing /\ Sent /\ Linked /\ Abreast
  BY DEF ClientInv
<1>2. ClientTyped'
  BY <1>1 DEF ClientTyped
<1>3. Carried' /\ Queueing'
  BY <1>1 DEF Carried, Queueing
<1>4. Sent' /\ Linked'
  BY <1>1 DEF Sent, Linked, Off
<1>5. Abreast'
  BY <1>1 DEF Abreast
<1>6. QED
  BY <1>2, <1>3, <1>4, <1>5 DEF ClientInv

\* What a change of the hub's state, or a command it serves, does to hub and
\* queue.
LEMMA BecomeDoes ==
  ASSUME ClientTyped, NEW ok \in BOOLEAN, NEW exists \in BOOLEAN,
         NEW rows \in [Rows -> RowStatuses \cup {"gone"}], Become(ok, exists, rows)
  PROVE  hub' \in Answers /\ hub'.at > hub.at /\ queue' = Queued(Update(hub'))
BY ClientAssumption DEF ClientTyped, Become, Answers

LEMMA HubChangeKeeps ==
  ASSUME ClientInv, HubChange
  PROVE  ClientInv'
<1>1. ClientTyped /\ hub \in Answers /\ post \in PostType /\ Made(post.entry, hub)
  BY DEF ClientInv, ClientTyped, Carried
<1>2. hub' \in Answers /\ hub'.at > hub.at /\ queue' = Queued(Update(hub'))
  <2>1. CASE \E i \in Rows, s \in RowStatuses :
               Become(TRUE, TRUE, [hub.rows EXCEPT ![i] = s])
    <3>1. PICK i \in Rows, s \in RowStatuses :
            Become(TRUE, TRUE, [hub.rows EXCEPT ![i] = s])
      BY <2>1
    <3>2. [hub.rows EXCEPT ![i] = s] \in [Rows -> RowStatuses \cup {"gone"}]
      BY <1>1 DEF Answers
    <3>3. QED
      BY <1>1, <3>1, <3>2, BecomeDoes
  <2>2. CASE \E exists \in Troubles : Become(FALSE, exists, NoRows)
    <3>1. NoRows \in [Rows -> RowStatuses \cup {"gone"}] /\ Troubles \subseteq BOOLEAN
      BY ClientAssumption DEF NoRows
    <3>2. QED
      BY <1>1, <2>2, <3>1, BecomeDoes
  <2>3. QED
    BY <2>1, <2>2 DEF HubChange
<1>3. Made(post.entry, hub')
  BY <1>1, <1>2, MadeStays
<1>4. QED
  BY <1>1, <1>2, <1>3, HubMoves DEF HubChange

LEMMA ServeKeeps ==
  ASSUME ClientInv, ServeCommand
  PROVE  ClientInv'
<1>1. ClientTyped /\ hub \in Answers /\ post \in PostType
  BY DEF ClientInv, ClientTyped
<1>2. /\ hub' \in Answers /\ (hub' = hub \/ hub'.at > hub.at)
      /\ queue' = Queued(Update(hub'))
  <2>1. Without \in [Rows -> RowStatuses \cup {"gone"}]
    BY <1>1 DEF Without, Answers
  <2>2. CASE Without = hub.rows
    BY <1>1, <2>2 DEF ServeCommand
  <2>3. CASE Without # hub.rows
    BY <1>1, <2>1, <2>3, BecomeDoes DEF ServeCommand
  <2>4. QED
    BY <2>2, <2>3
<1>3. PICK e : e = EntryFromSnapshot(hub')
  OBVIOUS
<1>4. /\ Made(e, hub') /\ Made(NoEntry, hub')
      /\ e \in Entries /\ NoEntry \in Entries
  <2>1. Made(e, hub') /\ Made(NoEntry, hub')
    BY <1>2, <1>3, MadeNow
  <2>2. QED
    BY <2>1 DEF Made
<1>5. post' \in PostType /\ post'.entry \in {e, NoEntry}
  <2>1. NoPost \in PostType /\ NoPost.entry = NoEntry
    BY EntriesTyped DEF NoPost
  <2>2. \/ post' = NoPost
        \/ \E pc \in {"store", "get"}, x \in {e, NoEntry} :
             post' = [NoPost EXCEPT !.pc = pc, !.entry = x]
    BY <1>3 DEF ServeCommand
  <2>3. \A pc \in {"store", "get"}, x \in {e, NoEntry} :
          /\ [NoPost EXCEPT !.pc = pc, !.entry = x] \in PostType
          /\ [NoPost EXCEPT !.pc = pc, !.entry = x].entry = x
    BY <1>4, <2>1 DEF PostType
  <2>4. QED
    BY <2>1, <2>2, <2>3
<1>6. UNCHANGED <<up, modern, conn, rest, reader, thread, last_poll, cache,
                  screen, stop, newest, failed>>
  BY DEF ServeCommand
<1>7. QED
  BY <1>2, <1>4, <1>5, <1>6, HubMoves

\* The two lines of a frame, read one by one, and cut off anywhere.
LEMMA LinesRead ==
  ASSUME NEW x, NEW y
  PROVE  /\ Head(<<x, y>>) = x /\ Tail(<<x, y>>) = <<y>> /\ <<x, y>> # <<>>
         /\ Head(<<x>>) = x /\ Tail(<<x>>) = <<>> /\ <<x>> # <<>>
OBVIOUS

LEMMA LinesCut ==
  ASSUME NEW x, NEW y
  PROVE  /\ \A n \in 0 .. Len(<<x, y>>) : SubSeq(<<x, y>>, 1, n) \in {<<>>, <<x>>, <<x, y>>}
         /\ \A n \in 0 .. Len(<<x>>) : SubSeq(<<x>>, 1, n) \in {<<>>, <<x>>}
         /\ \A n \in 0 .. Len(<<>>) : SubSeq(<<>>, 1, n) = <<>>
<1>1. PICK s, w : s = <<x>> /\ w = <<x, y>>
  OBVIOUS
<1>2. /\ s \in Seq({x, y}) /\ Len(s) = 1
      /\ w \in Seq({x, y}) /\ Len(w) = 2 /\ w[1] = x /\ s[1] = x
  BY <1>1
<1>3. /\ SubSeq(w, 1, 0) = <<>> /\ SubSeq(s, 1, 0) = <<>>
      /\ SubSeq(<<>>, 1, 0) = <<>>
  BY SubSeqEmpty
<1>4. SubSeq(w, 1, 2) = w /\ SubSeq(s, 1, 1) = s
  BY <1>2, SubSeqFull
<1>5. SubSeq(w, 1, 1) = s
  <2>1. PICK t : t = SubSeq(w, 1, 1)
    OBVIOUS
  <2>2. t \in Seq({x, y}) /\ Len(t) = 1 /\ t[1] = x
    <3>1. \A i \in 1 .. 1 : w[i] \in {x, y}
      BY <1>2
    <3>2. QED
      BY <1>2, <2>1, <3>1, SubSeqProperties
  <2>3. t = s
    BY <1>2, <2>2, SeqEqual
  <2>4. QED
    BY <2>1, <2>3
<1>6. /\ Len(w) = 2 /\ Len(s) = 1 /\ Len(<<>>) = 0
      /\ 0 .. 2 = {0, 1, 2} /\ 0 .. 1 = {0, 1} /\ 0 .. 0 = {0}
  BY <1>2
<1>7. QED
  BY <1>1, <1>3, <1>4, <1>5, <1>6, Zenon

\* A stream that is lost ends anywhere; the client is behind from then on.
LEMMA LossKeeps ==
  ASSUME ClientInv, StreamLost
  PROVE  ClientInv'
<1>1. ClientTyped /\ Carried /\ Queueing /\ Sent /\ Linked
  BY DEF ClientInv
<1>2. /\ conn = "open" /\ conn' \in {"closed", "dead"} /\ queue' = <<>>
      /\ \E n \in 0 .. Len(rest) : rest' = SubSeq(rest, 1, n)
      /\ UNCHANGED <<hub, up, modern, reader, thread, last_poll, cache, screen,
                     post, stop, newest, failed>>
  BY DEF StreamLost
<1>3. ClientTyped' /\ Carried' /\ Linked'
  BY <1>1, <1>2 DEF ClientTyped, Carried, Linked, Off
<1>4. Queueing'
  <2>1. QueueShape(<<>>)
    BY ClientAssumption DEF QueueShape
  <2>2. QED
    BY <1>2, <2>1 DEF Queueing
<1>5. Sent'
  <2>1. CASE rest = <<>>
    BY <1>2, <2>1, LinesCut DEF Sent
  <2>2. ASSUME NEW f \in Frames, Lies(f, rest, reader, conn), Made(f.entry, hub)
        PROVE  Sent'
    <3>1. PICK x, y : x = <<"fields", f>> /\ y = <<"blank", f>>
      OBVIOUS
    <3>2. \/ rest = <<x, y>> /\ reader = NoFrame
          \/ rest = <<y>> /\ reader = f
      BY <1>2, <2>2, <3>1, Zenon DEF Lies, Lines
    <3>3. \/ rest' = <<>>
          \/ reader' = NoFrame /\ rest' \in {<<x>>, <<x, y>>}
          \/ reader' = f /\ rest' = <<y>>
      <4>1. CASE rest = <<x, y>> /\ reader = NoFrame
        BY <1>2, <4>1, LinesCut
      <4>2. CASE rest = <<y>> /\ reader = f
        BY <1>2, <4>2, LinesCut
      <4>3. QED
        BY <3>2, <4>1, <4>2
    <3>4. rest' = <<>> \/ Lies(f, rest', reader', conn')
      BY <1>2, <3>1, <3>3, Zenon DEF Lies, Lines
    <3>5. QED
      BY <1>2, <2>2, <3>4 DEF Sent
  <2>3. QED
    BY <1>1, <2>1, <2>2 DEF Sent
<1>6. Abreast'
  BY <1>2 DEF Abreast
<1>7. QED
  BY <1>3, <1>4, <1>5, <1>6 DEF ClientInv

\* The first frame of the queue is sent; if it was the last it is the hub's.
LEMMA SendKeeps ==
  ASSUME ClientInv, Send
  PROVE  ClientInv'
<1>1. ClientTyped /\ Carried /\ Queueing /\ Sent /\ Linked /\ Abreast
  BY DEF ClientInv
<1>2. /\ conn = "open" /\ rest = <<>> /\ queue # <<>> /\ conn' = conn
      /\ rest' = Lines(Head(queue)) /\ queue' = Tail(queue)
      /\ UNCHANGED <<hub, up, modern, reader, thread, last_poll, cache,
                     screen, post, stop, newest, failed>>
  BY DEF Send
<1>3. ClientTyped' /\ Carried' /\ Linked'
  BY <1>1, <1>2 DEF ClientTyped, Carried, Linked, Off
<1>4. PICK q, t, f : q = queue /\ t = Tail(queue) /\ f = Head(queue)
  OBVIOUS
<1>5. /\ f \in Frames /\ f = q[1] /\ QueueShape(t)
      /\ Len(t) = Len(q) - 1
      /\ \A k \in 1 .. Len(q) - 1 : t[k] = q[k + 1]
  BY <1>1, <1>2, <1>4, QueueTail DEF Queueing
<1>6. /\ Len(q) \in Nat /\ Len(q) # 0 /\ Len(t) \in Nat
      /\ (t # <<>> => Len(t) # 0) /\ (t = <<>> => Len(t) = 0)
      /\ News(q[Len(q)], hub)
      /\ \A k \in 1 .. Len(q) : Made(q[k].entry, hub)
  <2>1. q \in Seq(Frames) /\ t \in Seq(Frames) /\ q # <<>>
    BY <1>1, <1>2, <1>4, <1>5 DEF Queueing, QueueShape
  <2>2. /\ Len(q) \in Nat /\ Len(q) # 0 /\ Len(t) \in Nat
        /\ (t # <<>> => Len(t) # 0) /\ (t = <<>> => Len(t) = 0)
    BY <2>1
  <2>3. News(q[Len(q)], hub)
    BY <1>1, <1>2, <1>4 DEF Queueing
  <2>4. \A k \in 1 .. Len(q) : Made(q[k].entry, hub)
    BY <1>1, <1>4 DEF Queueing
  <2>5. QED
    BY <2>2, <2>3, <2>4
<1>7. \A k \in 1 .. Len(t) : k + 1 \in 1 .. Len(q) /\ t[k] = q[k + 1]
  BY <1>5, <1>6
<1>8. t # <<>> => t[Len(t)] = q[Len(q)]
  BY <1>5, <1>6, <1>7
<1>9. Queueing'
  <2>1. \A k \in 1 .. Len(t) : Made(t[k].entry, hub)
    BY <1>6, <1>7
  <2>2. QED
    BY <1>2, <1>4, <1>5, <1>6, <1>8, <2>1 DEF Queueing
<1>10. Lies(f, rest', reader', conn') /\ Made(f.entry, hub)
  <2>1. reader = NoFrame
    BY <1>1, <1>2 DEF Sent, Lies, Lines
  <2>2. 1 \in 1 .. Len(q)
    BY <1>6
  <2>3. QED
    BY <1>2, <1>4, <1>5, <1>6, <2>1, <2>2 DEF Lies
<1>11. Sent'
  BY <1>2, <1>5, <1>10 DEF Sent
<1>12. Abreast'
  <2>1. t = <<>> => News(f, hub)
    <3>1. t = <<>> => Len(q) = 1
      BY <1>5, <1>6
    <3>2. QED
      BY <1>5, <1>6, <3>1, Zenon
  <2>2. QED
    BY <1>2, <1>4, <1>5, <1>10, <2>1 DEF Abreast
<1>13. QED
  BY <1>3, <1>9, <1>11, <1>12 DEF ClientInv
\* A fetch brings what the hub has now, or that it cannot be reached.
LEMMA FetchedIsMade ==
  ASSUME ClientTyped
  PROVE  Made(FetchEntry, hub) /\ (up => FetchEntry.at = hub.at)
<1>1. /\ Made(EntryFromSnapshot(hub), hub) /\ Made(Unreachable, hub)
      /\ EntryFromSnapshot(hub).at = hub.at
  BY MadeNow DEF ClientTyped
<1>2. QED
  BY <1>1, Zenon DEF FetchEntry

\* The cache takes an entry made of the hub.
LEMMA KeepDoes ==
  ASSUME ClientTyped, Carried, NEW e, Made(e, hub), Keep(e)
  PROVE  /\ Made(cache', hub) /\ cache'.at <= newest' /\ newest' <= hub.at
         /\ newest' \in -1 .. MaxChanges
         /\ newest = hub.at \/ e.at = hub.at => newest' = hub.at
<1>1. /\ newest \in -1 .. MaxChanges /\ e.at \in -1 .. MaxChanges
      /\ hub.at \in 0 .. MaxChanges /\ MaxChanges \in Nat
      /\ e.at <= hub.at /\ newest <= hub.at
  BY ClientAssumption DEF ClientTyped, Carried, Made, Entries, Answers
<1>2. cache' = e /\ newest' = IF e.at > newest THEN e.at ELSE newest
  BY DEF Keep
<1>3. QED
  BY <1>1, <1>2

\* What is fetched is as new as the hub, unless the fetch fails.
LEMMA GetKeeps ==
  ASSUME ClientInv, Get
  PROVE  ClientInv'
<1>1. ClientTyped /\ Carried /\ Queueing /\ Sent /\ Linked /\ Abreast
  BY DEF ClientInv
<1>2. PICK e : e = FetchEntry
  OBVIOUS
<1>3. Made(e, hub) /\ (up => e.at = hub.at) /\ e \in Entries
  BY <1>1, <1>2, FetchedIsMade DEF Made
<1>4. /\ thread.pc = "get" /\ (failed \/ ~up => failed')
      /\ UNCHANGED <<hub, up, modern, conn, queue, rest, reader, last_poll,
                     cache, screen, post, stop, newest>>
  BY DEF Get, hubSide
<1>5. /\ thread' \in ThreadType /\ thread'.pc = "store"
      /\ thread'.next = thread.next /\ thread'.entry = e
  BY <1>1, <1>2, <1>3 DEF Get, ClientTyped, ThreadType
<1>6. ClientTyped' /\ Carried' /\ Queueing'
  BY <1>1, <1>3, <1>4, <1>5 DEF ClientTyped, Carried, Queueing
<1>7. Sent' /\ Linked'
  BY <1>1, <1>4, <1>5 DEF Sent, Linked, Off, AtStream
<1>8. Abreast'
  BY <1>3, <1>4, <1>5 DEF Abreast
<1>9. QED
  BY <1>6, <1>7, <1>8 DEF ClientInv

\* The cache takes what the thread holds.
LEMMA StoreKeeps ==
  ASSUME ClientInv, StoreEntry
  PROVE  ClientInv'
<1>1. ClientTyped /\ Carried /\ Queueing /\ Sent /\ Linked /\ Abreast
  BY DEF ClientInv
<1>2. /\ thread.pc = "store" /\ Keep(thread.entry)
      /\ last_poll' \in {CacheSignature(thread.entry), last_poll}
      /\ UNCHANGED <<hub, up, modern, conn, queue, rest, reader, screen, post,
                     stop, failed>>
  BY DEF StoreEntry, hubSide
<1>3. /\ thread' \in ThreadType /\ thread'.pc \in {"emit", thread.next}
      /\ thread'.next = thread.next /\ thread'.entry = NoEntry
  <2>1. PICK t : t = thread
    OBVIOUS
  <2>2. PICK label \in {"emit", t.next} :
          thread' = [t EXCEPT !.pc = label, !.entry = NoEntry]
    BY <2>1, Zenon DEF StoreEntry, Left
  <2>3. t \in ThreadType /\ NoEntry \in Entries
    BY <1>1, <2>1, NoEntryTyped DEF ClientTyped
  <2>4. QED
    BY <2>1, <2>2, <2>3 DEF ThreadType
<1>4. /\ Made(cache', hub) /\ cache'.at <= newest' /\ newest' <= hub.at
      /\ newest' \in -1 .. MaxChanges
      /\ newest = hub.at \/ thread.entry.at = hub.at => newest' = hub.at
  BY <1>1, <1>2, KeepDoes DEF Carried
<1>5. ClientTyped'
  <2>1. last_poll' \in Entries
    <3>1. CacheSignature(thread.entry) \in Entries
      BY <1>1, SignatureTyped DEF Carried, Made
    <3>2. QED
      BY <1>1, <1>2, <3>1 DEF ClientTyped
  <2>2. QED
    BY <1>1, <1>2, <1>3, <1>4, <2>1 DEF ClientTyped
<1>6. Carried' /\ Queueing'
  <2>1. Made(NoEntry, hub)
    BY <1>1, MadeNow DEF ClientTyped
  <2>2. QED
    BY <1>1, <1>2, <1>3, <1>4, <2>1 DEF Carried, Queueing
<1>7. Sent' /\ Linked'
  <2>1. thread.next \in {"connect", "read"}
    BY <1>1 DEF ClientTyped, ThreadType
  <2>2. QED
    BY <1>1, <1>2, <1>3, <2>1 DEF Sent, Linked, Off, AtStream
<1>8. Abreast'
  BY <1>1, <1>2, <1>4 DEF Abreast
<1>9. QED
  BY <1>5, <1>6, <1>7, <1>8 DEF ClientInv

LEMMA EmitKeeps ==
  ASSUME ClientInv, EmitChanged
  PROVE  ClientInv'
<1>1. ClientTyped /\ Carried /\ Queueing /\ Sent /\ Linked /\ Abreast
  BY DEF ClientInv
<1>2. /\ thread.pc = "emit" /\ screen' = Published
      /\ UNCHANGED <<hub, up, modern, conn, queue, rest, reader, last_poll,
                     cache, post, stop, newest, failed>>
  BY DEF EmitChanged, hubSide
<1>3. /\ thread' \in ThreadType /\ thread'.pc = thread.next
      /\ thread'.next = thread.next /\ thread'.entry = thread.entry
      /\ thread.next \in {"connect", "read"}
  BY <1>1 DEF EmitChanged, Goto, ClientTyped, ThreadType
<1>4. screen' \in Entries
  <2>1. cache \in Entries /\ NoEntry \in Entries
    BY <1>1, NoEntryTyped DEF Carried, Made
  <2>2. CacheSignature(cache) \in Entries
    BY <2>1, SignatureTyped
  <2>3. QED
    BY <1>2, <2>1, <2>2, Zenon DEF Published
<1>5. ClientTyped' /\ Carried' /\ Queueing'
  BY <1>1, <1>2, <1>3, <1>4 DEF ClientTyped, Carried, Queueing
<1>6. Sent' /\ Linked'
  BY <1>1, <1>2, <1>3 DEF Sent, Linked, Off, AtStream
<1>7. Abreast'
  BY <1>1, <1>2 DEF Abreast
<1>8. QED
  BY <1>5, <1>6, <1>7 DEF ClientInv

\* A thread that connects has no stream yet.
LEMMA ConnectKeeps ==
  ASSUME ClientInv, Connect
  PROVE  ClientInv'
<1>1. ClientTyped /\ Carried /\ Queueing /\ Sent /\ Linked /\ Abreast
  BY DEF ClientInv
<1>2. /\ thread.pc = "connect"
      /\ UNCHANGED <<hub, up, modern, conn, queue, rest, reader, last_poll,
                     cache, screen, post, stop, newest, failed>>
  BY DEF Connect, hubSide
<1>3. Off
  BY <1>1, <1>2 DEF Linked, AtStream
<1>4. PICK e : e = EntryFromSnapshot(hub)
  OBVIOUS
<1>5. Made(e, hub) /\ e \in Entries /\ Made(NoEntry, hub) /\ NoEntry \in Entries
  BY <1>1, <1>4, MadeNow DEF ClientTyped, Made
<1>6. /\ thread' \in ThreadType /\ thread'.pc # "read"
      /\ thread'.entry \in {thread.entry, e, NoEntry}
  BY <1>1, <1>4, <1>5 DEF Connect, Goto, PollOnce, ClientTyped, ThreadType
<1>7. ClientTyped' /\ Queueing'
  BY <1>1, <1>2, <1>6 DEF ClientTyped, Queueing
<1>8. Carried'
  BY <1>1, <1>2, <1>5, <1>6 DEF Carried
<1>9. Sent' /\ Linked' /\ Abreast'
  BY <1>1, <1>2, <1>3, <1>6 DEF Sent, Linked, Off, Abreast
<1>10. QED
  BY <1>7, <1>8, <1>9 DEF ClientInv

\* A stream that is opened starts with the frame the hub made before.
LEMMA JoinKeeps ==
  ASSUME ClientInv, Join
  PROVE  ClientInv'
<1>1. ClientTyped /\ Carried /\ Queueing /\ Sent /\ Linked /\ Abreast
  BY DEF ClientInv
<1>2. /\ thread.pc = "join"
      /\ UNCHANGED <<hub, up, modern, queue, reader, last_poll, cache, screen,
                     post, stop, newest>>
  BY DEF Join
<1>3. Off
  BY <1>1, <1>2 DEF Linked, AtStream
<1>4. NoEntry \in Entries /\ Made(NoEntry, hub)
  BY <1>1, MadeNow DEF ClientTyped, Made
<1>5. /\ thread' \in ThreadType /\ thread'.pc = "get"
      /\ thread'.entry \in {thread.entry, NoEntry}
      /\ up => thread'.next = "read"
  BY <1>1, <1>4 DEF Join, PollOnce, ClientTyped, ThreadType
<1>6. Carried' /\ Abreast'
  BY <1>1, <1>2, <1>4, <1>5 DEF Carried, Abreast
<1>7. Queueing'
  BY <1>1, <1>2, <1>3 DEF Queueing, Off
<1>8. CASE up
  <2>1. PICK f : f = [event |-> "update", entry |-> thread.entry]
    OBVIOUS
  <2>2. f \in Frames /\ f.entry = thread.entry
    BY <1>1, <2>1 DEF Carried, Made, Frames
  <2>3. conn' = "open" /\ rest' = Lines(f) /\ reader' = NoFrame
    BY <1>2, <1>3, <1>8, <2>1 DEF Join, Off
  <2>4. Sent'
    BY <1>1, <1>2, <2>2, <2>3 DEF Sent, Lies, Carried
  <2>5. ClientTyped' /\ Linked'
    BY <1>1, <1>2, <1>5, <1>8, <2>3 DEF ClientTyped, Linked, AtStream
  <2>6. QED
    BY <1>6, <1>7, <2>4, <2>5 DEF ClientInv
<1>9. CASE ~up
  <2>1. conn' = conn /\ rest' = rest
    BY <1>9 DEF Join
  <2>2. ClientTyped' /\ Sent' /\ Linked'
    BY <1>1, <1>2, <1>3, <1>5, <2>1 DEF ClientTyped, Sent, Linked, Off
  <2>3. QED
    BY <1>6, <1>7, <2>2 DEF ClientInv
<1>10. QED
  BY <1>8, <1>9
\* The line that is read: the fields of a frame go to the reader, the blank line
\* hands the frame over.
LEMMA ReadDoes ==
  ASSUME NEW f, Lies(f, rest, reader, conn), ReadLine
  PROVE  \/ thread' = thread /\ Lies(f, rest', reader', conn)
         \/ thread' = thread /\ rest' = <<>> /\ reader' = f /\ conn # "open"
         \/ /\ rest' = <<>> /\ reader' = NoFrame
            /\ \/ f.event = "update" /\ thread' = [thread EXCEPT !.pc = "store",
                                                                 !.entry = f.entry]
               \/ thread' = [thread EXCEPT !.pc = "get"]
<1>1. PICK x, y : x = <<"fields", f>> /\ y = <<"blank", f>>
  OBVIOUS
<1>2. x[1] = "fields" /\ x[2] = f /\ y[1] = "blank" /\ y[2] = f
  BY <1>1
<1>3. /\ rest' = Tail(rest)
      /\ \/ Head(rest)[1] = "fields" /\ reader' = Head(rest)[2] /\ thread' = thread
         \/ /\ Head(rest)[1] = "blank" /\ reader' = NoFrame
            /\ thread' = IF reader.event = "update" /\ modern
                         THEN [thread EXCEPT !.pc = "store", !.entry = reader.entry]
                         ELSE [thread EXCEPT !.pc = "get"]
  BY Zenon DEF ReadLine
<1>4. CASE rest = <<x, y>> /\ reader = NoFrame
  <2>1. Head(rest) = x /\ Tail(rest) = <<y>>
    BY <1>4, LinesRead
  <2>2. thread' = thread /\ reader' = f /\ rest' = <<y>>
    <3>1. "fields" # "blank"
      OBVIOUS
    <3>2. QED
      BY <1>2, <1>3, <2>1, <3>1, Zenon
  <2>3. QED
    BY <1>1, <2>2, Zenon DEF Lies
<1>5. CASE rest = <<x>> /\ reader = NoFrame /\ conn # "open"
  <2>1. Head(rest) = x /\ Tail(rest) = <<>>
    BY <1>5, LinesRead
  <2>2. "fields" # "blank"
    OBVIOUS
  <2>3. QED
    BY <1>2, <1>3, <1>5, <2>1, <2>2, Zenon
<1>6. CASE rest = <<y>> /\ reader = f
  <2>1. Head(rest) = y /\ Tail(rest) = <<>>
    BY <1>6, LinesRead
  <2>2. "fields" # "blank"
    OBVIOUS
  <2>3. QED
    BY <1>2, <1>3, <1>6, <2>1, <2>2, Zenon
<1>7. QED
  BY <1>1, <1>4, <1>5, <1>6, Zenon DEF Lies, Lines

\* What a frame carries reaches the cache, or the snapshot is fetched for it.
LEMMA ReadKeeps ==
  ASSUME ClientInv, ReadLine
  PROVE  ClientInv'
<1>1. ClientTyped /\ Carried /\ Queueing /\ Sent /\ Linked /\ Abreast
  BY DEF ClientInv
<1>2. /\ thread.pc = "read" /\ thread.next = "read" /\ rest # <<>>
      /\ UNCHANGED <<hub, up, modern, conn, queue, last_poll, cache, screen,
                     post, stop, newest, failed>>
  BY <1>1 DEF ReadLine, Linked
<1>3. PICK f \in Frames : Lies(f, rest, reader, conn) /\ Made(f.entry, hub)
  BY <1>1, <1>2 DEF Sent
<1>4. NoFrame \in Frames
  BY NoFrameTyped
<1>5. reader' \in Frames
  BY <1>3, <1>4, ReadDoes, Zenon DEF Lies
<1>6. /\ thread' \in ThreadType /\ thread'.next = "read"
      /\ thread'.pc \in {"read", "store", "get"}
      /\ thread'.entry \in {thread.entry, f.entry}
  <2>1. thread \in ThreadType /\ f.entry \in Entries
    BY <1>1, <1>3 DEF ClientTyped, Made
  <2>2. \/ thread' = thread
        \/ thread' = [thread EXCEPT !.pc = "store", !.entry = f.entry]
        \/ thread' = [thread EXCEPT !.pc = "get"]
    BY <1>3, ReadDoes, Zenon
  <2>3. QED
    BY <1>2, <2>1, <2>2 DEF ThreadType
<1>7. ClientTyped' /\ Queueing'
  BY <1>1, <1>2, <1>5, <1>6 DEF ClientTyped, Queueing
<1>8. Carried'
  BY <1>1, <1>2, <1>3, <1>6 DEF Carried
<1>9. Sent'
  <2>1. \/ Lies(f, rest', reader', conn)
        \/ rest' = <<>> /\ conn # "open"
        \/ rest' = <<>> /\ reader' = NoFrame
    BY <1>3, ReadDoes, Zenon
  <2>2. QED
    BY <1>2, <1>3, <2>1 DEF Sent
<1>10. Linked'
  BY <1>6 DEF Linked, AtStream
<1>11. Abreast'
  <2>1. ASSUME conn = "open", NEW g \in Frames, Lies(g, rest, reader, conn), News(g, hub)
        PROVE  Abreast'
    <3>1. g.entry.at = hub.at
      BY <2>1 DEF News
    <3>2. CASE Lies(g, rest', reader', conn)
      BY <1>2, <2>1, <3>2 DEF Abreast
    <3>3. CASE thread' = [thread EXCEPT !.pc = "store", !.entry = g.entry]
      <4>1. thread'.pc = "store" /\ thread'.entry = g.entry
        BY <1>1, <3>3 DEF ClientTyped, ThreadType
      <4>2. QED
        BY <1>2, <3>1, <4>1 DEF Abreast
    <3>4. CASE thread' = [thread EXCEPT !.pc = "get"]
      <4>1. thread'.pc = "get"
        BY <1>1, <3>4 DEF ClientTyped, ThreadType
      <4>2. QED
        BY <4>1 DEF Abreast
    <3>5. QED
      BY <2>1, <3>2, <3>3, <3>4, ReadDoes, Zenon
  <2>2. QED
    BY <1>1, <1>2, <2>1 DEF Abreast
<1>12. QED
  BY <1>5, <1>7, <1>8, <1>9, <1>10, <1>11 DEF ClientInv

\* At the end of the stream nothing of it is left.
LEMMA EndKeeps ==
  ASSUME ClientInv, EndOfStream
  PROVE  ClientInv'
<1>1. ClientTyped /\ Carried /\ Queueing /\ Sent /\ Linked /\ Abreast
  BY DEF ClientInv
<1>2. /\ conn' = "closed" /\ rest' = <<>> /\ queue' = <<>> /\ reader' = NoFrame
      /\ thread' = AtConnect
      /\ UNCHANGED <<hub, up, modern, last_poll, cache, screen, post, stop,
                     newest, failed>>
  BY DEF EndOfStream
<1>3. /\ AtConnect \in ThreadType /\ AtConnect.entry = NoEntry
      /\ AtConnect.pc = "connect" /\ NoFrame \in Frames
  BY AtConnectTyped, NoFrameTyped, Zenon
<1>4. ClientTyped'
  BY <1>1, <1>2, <1>3 DEF ClientTyped
<1>5. Carried'
  <2>1. Made(NoEntry, hub)
    BY <1>1, MadeNow DEF ClientTyped
  <2>2. QED
    BY <1>1, <1>2, <1>3, <2>1 DEF Carried
<1>6. Queueing'
  <2>1. QueueShape(<<>>)
    BY ClientAssumption DEF QueueShape
  <2>2. QED
    BY <1>2, <2>1 DEF Queueing
<1>7. Sent' /\ Linked' /\ Abreast'
  BY <1>2, <1>3 DEF Sent, Linked, Off, Abreast
<1>8. QED
  BY <1>4, <1>5, <1>6, <1>7 DEF ClientInv

LEMMA FetchReplyKeeps ==
  ASSUME ClientInv, FetchReply
  PROVE  ClientInv'
<1>1. ClientTyped
  BY DEF ClientInv
<1>2. PICK e : e = FetchEntry
  OBVIOUS
<1>3. Made(e, hub) /\ e \in Entries
  BY <1>1, <1>2, FetchedIsMade DEF Made
<1>4. post' \in PostType /\ post'.entry = e
  BY <1>1, <1>2, <1>3 DEF FetchReply, ClientTyped, PostType
<1>5. QED
  BY <1>1, <1>3, <1>4, OthersMove DEF FetchReply, hubSide, ClientTyped

\* The cache takes the reply of a command.
LEMMA StoreReplyKeeps ==
  ASSUME ClientInv, StoreReply
  PROVE  ClientInv'
<1>1. ClientTyped /\ Carried /\ Queueing /\ Sent /\ Linked /\ Abreast
  BY DEF ClientInv
<1>2. /\ Keep(post.entry)
      /\ UNCHANGED <<hub, up, modern, conn, queue, rest, reader, thread,
                     last_poll, screen, stop, failed>>
  BY DEF StoreReply, hubSide
<1>3. post' \in PostType /\ post'.entry = NoEntry
  BY <1>1, NoEntryTyped DEF StoreReply, ClientTyped, PostType
<1>4. /\ Made(cache', hub) /\ cache'.at <= newest' /\ newest' <= hub.at
      /\ newest' \in -1 .. MaxChanges
      /\ newest = hub.at => newest' = hub.at
  BY <1>1, <1>2, KeepDoes DEF Carried
<1>5. ClientTyped'
  BY <1>1, <1>2, <1>3, <1>4 DEF ClientTyped
<1>6. Carried' /\ Queueing'
  <2>1. Made(NoEntry, hub)
    BY <1>1, MadeNow DEF ClientTyped
  <2>2. QED
    BY <1>1, <1>2, <1>3, <1>4, <2>1 DEF Carried, Queueing
<1>7. Sent' /\ Linked' /\ Abreast'
  BY <1>1, <1>2, <1>4 DEF Sent, Linked, Off, Abreast
<1>8. QED
  BY <1>5, <1>6, <1>7 DEF ClientInv
\* The failures of the hub and the commands of the user change what the client
\* has of the hub not at all.
LEMMA OthersKeep ==
  ASSUME ClientInv, \/ HubDown \/ HubUp \/ DropSource \/ RemoveRemote \/ ClearRemote
                    \/ RefuseCommand \/ EmitReply \/ UNCHANGED clientVars
  PROVE  ClientInv'
<1>1. ClientTyped /\ Made(cache, hub) /\ Made(post.entry, hub) /\ Made(NoEntry, hub)
  BY MadeNow DEF ClientInv, ClientTyped, Carried
<1>2. post \in PostType /\ up \in BOOLEAN /\ stop \in BOOLEAN /\ screen \in Entries
  BY <1>1 DEF ClientTyped
<1>3. NoPost \in PostType /\ NoPost.entry = NoEntry
  BY NoEntryTyped DEF NoPost, PostType
<1>4. CASE HubDown \/ HubUp
  <2>1. /\ UNCHANGED <<hub, modern, conn, queue, rest, reader, thread, last_poll,
                        cache, screen, post, stop, newest, failed>>
        /\ up' \in BOOLEAN
    BY <1>4 DEF HubDown, HubUp
  <2>2. QED
    BY <1>1, <1>2, <2>1, OthersMove
<1>5. CASE DropSource
  BY <1>1, <1>2, <1>5, NoEntryTyped, OthersMove DEF DropSource, hubSide
<1>6. CASE RemoveRemote \/ ClearRemote
  <2>1. PICK op \in {"remove", "clear"}, i \in Rows \cup {"none"} : Command(op, i)
    BY <1>6 DEF RemoveRemote, ClearRemote
  <2>2. post' \in PostType /\ post'.entry = NoEntry
    BY <1>3, <2>1 DEF Command, PostType
  <2>3. QED
    BY <1>1, <1>2, <2>1, <2>2, OthersMove DEF Command, hubSide
<1>7. CASE RefuseCommand
  BY <1>1, <1>2, <1>3, <1>7, OthersMove DEF RefuseCommand, hubSide
<1>8. CASE EmitReply
  <2>1. Published \in Entries
    <3>1. cache \in Entries /\ NoEntry \in Entries
      BY <1>1, NoEntryTyped DEF Made
    <3>2. CacheSignature(cache) \in Entries
      BY <3>1, SignatureTyped
    <3>3. QED
      BY <3>1, <3>2, Zenon DEF Published
  <2>2. QED
    BY <1>1, <1>2, <1>3, <1>8, <2>1, OthersMove DEF EmitReply, hubSide
<1>9. CASE UNCHANGED clientVars
  BY <1>1, <1>2, <1>9, OthersMove DEF clientVars, hubSide
<1>10. QED
  BY <1>4, <1>5, <1>6, <1>7, <1>8, <1>9

LEMMA ClientInvStep ==
  ClientInv /\ [ClientNext]_clientVars => ClientInv'
<1> SUFFICES ASSUME ClientInv, [ClientNext]_clientVars
             PROVE  ClientInv'
  OBVIOUS
<1>1. CASE HubChange
  BY <1>1, HubChangeKeeps
<1>2. CASE StreamLost \/ Send
  BY <1>2, LossKeeps, SendKeeps
<1>3. CASE StreamLoop
  BY <1>3, GetKeeps, StoreKeeps, EmitKeeps, ConnectKeeps, JoinKeeps, ReadKeeps,
     EndKeeps DEF StreamLoop
<1>4. CASE ServeCommand \/ FetchReply \/ StoreReply
  BY <1>4, ServeKeeps, FetchReplyKeeps, StoreReplyKeeps
<1>5. CASE \/ HubDown \/ HubUp \/ DropSource \/ RemoveRemote \/ ClearRemote
           \/ RefuseCommand \/ EmitReply \/ UNCHANGED clientVars
  BY <1>5, OthersKeep
<1>6. QED
  BY <1>1, <1>2, <1>3, <1>4, <1>5 DEF ClientNext, CommandSteps

LEMMA FollowKeepsClient == FollowSpec => []ClientInv
<1>1. FollowInit => ClientInv
  BY ClientInvInit DEF FollowInit
<1>2. ClientInv /\ [FollowNext]_followVars => ClientInv'
  BY EitherMoves, ClientInvStep
<1>3. QED
  BY <1>1, <1>2, PTL DEF FollowSpec

\* Every entry, frame and reply in the desktop has its type, whichever source it
\* follows (MCFollow).
THEOREM FollowTypeCorrect == FollowSpec => []FollowTypeOK
<1>1. FileInv /\ ClientInv => FollowTypeOK
  BY ClientTypesHold DEF FileInv, FollowTypeOK
<1>2. QED
  BY <1>1, FollowKeepsFile, FollowKeepsClient, PTL

\* No update of the hub is lost between the fetch at the start of a stream and
\* the frames that follow it, however slow the reader is and whatever the hub
\* passes over: a stream that is open and drained leaves the cache behind the
\* hub only if something older came after something newer, or a fetch failed
\* (HubClient).
THEOREM DrainedStreamIsCurrent == FollowSpec => []OnlyOvertakenIsStale
<1>1. QED
  BY DrainedIsAbreast, FollowKeepsClient, PTL

=============================================================================
