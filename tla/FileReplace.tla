---------------------------- MODULE FileReplace -----------------------------
(***************************************************************************)
(* Replacing a file by a temporary file and a rename, the way all of the   *)
(* program's stores are written: the push store (source.rs, write_atomic), *)
(* the paired devices (devices.rs, write_devices), the settings            *)
(* (config.rs, save) and the clawlight state file (state.rs,               *)
(* write_state_atomic).  They differ in the name of the temporary file,    *)
(* which is unique per process and call in state.rs and per process in the *)
(* others; TmpName says which call uses which name.                        *)
(*                                                                         *)
(* std::fs::write opens (creating or truncating), writes from its own      *)
(* offset and closes; a file is written in Chunks pieces.  An open file    *)
(* keeps its identity when it is renamed: a call that still has it open    *)
(* goes on writing into it under its new name.  A file is called after the *)
(* call that created it.                                                   *)
(***************************************************************************)
EXTENDS Integers, FiniteSets

CONSTANTS
  Writers,   \* calls, each of which replaces the file once
  Names,     \* temporary file names
  TmpName,   \* the name each call uses
  Chunks,    \* pieces a payload is written in
  NoFile,    \* no file of that name
  Hole       \* a piece of a file that nobody has written

ASSUME FileAssumption ==
  /\ TmpName \in [Writers -> Names]
  /\ Chunks \in Nat \ {0}
  /\ NoFile \notin Writers
  /\ Hole \notin Writers

VARIABLES
  content,   \* what is in each file: the call that wrote each piece
  tmp,       \* the file each temporary name names
  path,      \* the file at the store's path
  fd,        \* the file each call has open
  written,   \* pieces the call has written
  pc         \* where each call is

vars == <<content, tmp, path, fd, written, pc>>

File == [1 .. Chunks -> Writers \cup {Hole}]
Empty == [j \in 1 .. Chunks |-> Hole]
Payload(w) == [j \in 1 .. Chunks |-> w]

TypeOK ==
  /\ content \in [Writers -> File]
  /\ tmp \in [Names -> Writers \cup {NoFile}]
  /\ path \in Writers \cup {NoFile}
  /\ fd \in [Writers -> Writers \cup {NoFile}]
  /\ written \in [Writers -> 0 .. Chunks]
  /\ pc \in [Writers -> {"start", "write", "rename", "ok", "failed"}]

Init ==
  /\ content = [w \in Writers |-> Empty]
  /\ tmp = [n \in Names |-> NoFile]
  /\ path = NoFile
  /\ fd = [w \in Writers |-> NoFile]
  /\ written = [w \in Writers |-> 0]
  /\ pc = [w \in Writers |-> "start"]

Goto(w, label) == pc' = [pc EXCEPT ![w] = label]

\* The call writes over the file at the path.
MutOpen(w) ==
  /\ pc[w] = "start"
  /\ LET file == IF path = NoFile THEN w ELSE path
     IN  /\ fd' = [fd EXCEPT ![w] = file]
         /\ content' = [content EXCEPT ![file] = Empty]
         /\ tmp' = [tmp EXCEPT ![TmpName[w]] = file]
  /\ Goto(w, "write")
  /\ UNCHANGED <<path, written>>

\* Create the temporary file, or empty the one that is there.
Open(w) ==
  /\ pc[w] = "start"
  /\ LET there == tmp[TmpName[w]]
         file  == IF there = NoFile THEN w ELSE there
     IN  /\ fd' = [fd EXCEPT ![w] = file]
         /\ content' = [content EXCEPT ![file] = Empty]
         /\ tmp' = [tmp EXCEPT ![TmpName[w]] = file]
  /\ Goto(w, "write")
  /\ UNCHANGED <<path, written>>

\* The loop runs one piece too far.
MutWriteChunk(w) ==
  /\ pc[w] = "write" /\ written[w] <= Chunks
  /\ content' = [content EXCEPT ![fd[w]][written[w] + 1] = w]
  /\ written' = [written EXCEPT ![w] = @ + 1]
  /\ UNCHANGED <<tmp, path, fd, pc>>

WriteChunk(w) ==
  /\ pc[w] = "write" /\ written[w] < Chunks
  /\ content' = [content EXCEPT ![fd[w]][written[w] + 1] = w]
  /\ written' = [written EXCEPT ![w] = @ + 1]
  /\ UNCHANGED <<tmp, path, fd, pc>>

\* The rename comes before the last piece is written.
MutClose(w) ==
  /\ pc[w] = "write" /\ written[w] + 1 >= Chunks
  /\ fd' = [fd EXCEPT ![w] = NoFile]
  /\ Goto(w, "rename")
  /\ UNCHANGED <<content, tmp, path, written>>

Close(w) ==
  /\ pc[w] = "write" /\ written[w] = Chunks
  /\ fd' = [fd EXCEPT ![w] = NoFile]
  /\ Goto(w, "rename")
  /\ UNCHANGED <<content, tmp, path, written>>

\* The disk is full: the call returns its error and leaves the temporary file.
WriteFails(w) ==
  /\ pc[w] = "write"
  /\ fd' = [fd EXCEPT ![w] = NoFile]
  /\ Goto(w, "failed")
  /\ UNCHANGED <<content, tmp, path, written>>

\* Whatever file has the name now goes to the path; none is an error.
Rename(w) ==
  /\ pc[w] = "rename"
  /\ IF tmp[TmpName[w]] = NoFile
     THEN Goto(w, "failed") /\ UNCHANGED <<tmp, path>>
     ELSE /\ path' = tmp[TmpName[w]]
          /\ tmp' = [tmp EXCEPT ![TmpName[w]] = NoFile]
          /\ Goto(w, "ok")
  /\ UNCHANGED <<content, fd, written>>

\* The process dies with every call that has begun and not returned.
Crash ==
  /\ \E w \in Writers : pc[w] \in {"write", "rename"}
  /\ pc' = [w \in Writers |-> IF pc[w] \in {"write", "rename"} THEN "failed"
                                                               ELSE pc[w]]
  /\ fd' = [w \in Writers |-> NoFile]
  /\ UNCHANGED <<content, tmp, path, written>>

\* Every call has returned.
Finished == (\A w \in Writers : pc[w] \in {"ok", "failed"}) /\ UNCHANGED vars

Next ==
  \/ \E w \in Writers : \/ Open(w)
                        \/ WriteChunk(w)
                        \/ Close(w)
                        \/ WriteFails(w)
                        \/ Rename(w)
  \/ Crash
  \/ Finished

Spec == Init /\ [][Next]_vars

-----------------------------------------------------------------------------
\* A reader, or the next process, never finds a part of a payload or a mix of
\* two, whenever a call fails or the process dies.
PathIsWhole == path # NoFile => \E w \in Writers : content[path] = Payload(w)

\* A call fails for its own reasons only: with the payload written, no other
\* call takes its temporary file away.
RenameFindsFile ==
  \A w \in Writers : pc[w] = "rename" => tmp[TmpName[w]] # NoFile

\* The path goes through the steps of AtomicFile.tla.
InPlace ==
  IF path = NoFile THEN NoFile
  ELSE IF content[path] \in {Payload(w) : w \in Writers}
       THEN CHOOSE w \in Writers : content[path] = Payload(w)
       ELSE Hole
Atomic == INSTANCE AtomicFile WITH
            payload <- InPlace, returned <- {w \in Writers : pc[w] = "ok"}
FileIsAtomic == Atomic!Spec

=============================================================================
