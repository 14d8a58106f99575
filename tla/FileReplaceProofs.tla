------------------------- MODULE FileReplaceProofs --------------------------
(***************************************************************************)
(* A temporary file of its own for every call is enough: for any number of *)
(* calls and any payload size the path always holds one whole payload, and *)
(* replacing the file is atomic.  The runs show that the names the stores  *)
(* use, shared by the calls of a process, are not.                         *)
(***************************************************************************)
EXTENDS FileReplace, TLAPS

\* No two calls use the same temporary name.
OwnName == \A u, w \in Writers : TmpName[u] = TmpName[w] => u = w

\* What a call has in its hands until it renames, and what it leaves behind:
\* its file is the one it created, nobody else has it open, and it is not at
\* the path before it is whole.
Private ==
  \A w \in Writers :
    /\ pc[w] = "start" => tmp[TmpName[w]] = NoFile /\ written[w] = 0
    /\ pc[w] \in {"start", "write", "rename"} => path # w
    /\ pc[w] = "write" => /\ fd[w] = w
                          /\ tmp[TmpName[w]] = w
                          /\ \A j \in 1 .. written[w] : content[w][j] = w
    /\ pc[w] = "rename" => tmp[TmpName[w]] = w /\ content[w] = Payload(w)

IInv == /\ TypeOK
        /\ Private
        /\ path # NoFile => content[path] = Payload(path) /\ pc[path] = "ok"

\* Only one call has a given payload.
LEMMA PayloadInjective ==
  ASSUME NEW u, NEW w, Payload(u) = Payload(w)
  PROVE  u = w
<1>1. 1 \in 1 .. Chunks
  BY FileAssumption
<1>2. Payload(u)[1] = u /\ Payload(w)[1] = w
  BY <1>1 DEF Payload
<1>3. QED
  BY <1>2

-----------------------------------------------------------------------------
(***************************************************************************)
(* Types, whatever the temporary names.                                    *)
(***************************************************************************)

\* A call that writes has a file open.
Writing == TypeOK /\ \A w \in Writers : pc[w] = "write" => fd[w] \in Writers

LEMMA WritingInit == Init => Writing
BY FileAssumption DEF Init, Writing, TypeOK, Empty, File

LEMMA WritingStep == Writing /\ [Next]_vars => Writing'
<1> SUFFICES ASSUME Writing, [Next]_vars
             PROVE  Writing'
  OBVIOUS
<1> USE FileAssumption DEF Writing, TypeOK, Goto
<1>1. ASSUME NEW w \in Writers, Open(w)
      PROVE  Writing'
  <2>1. PICK file \in Writers :
          /\ fd' = [fd EXCEPT ![w] = file]
          /\ content' = [content EXCEPT ![file] = Empty]
          /\ tmp' = [tmp EXCEPT ![TmpName[w]] = file]
    BY <1>1 DEF Open
  <2>2. Empty \in File
    BY DEF Empty, File
  <2>3. pc' = [pc EXCEPT ![w] = "write"] /\ path' = path /\ written' = written
    BY <1>1 DEF Open
  <2>4. QED
    BY <2>1, <2>2, <2>3
<1>2. ASSUME NEW w \in Writers, WriteChunk(w)
      PROVE  Writing'
  BY <1>2 DEF WriteChunk, File
<1>3. ASSUME NEW w \in Writers, Close(w) \/ WriteFails(w) \/ Rename(w)
      PROVE  Writing'
  BY <1>3 DEF Close, WriteFails, Rename
<1>4. CASE Crash \/ UNCHANGED vars
  BY <1>4 DEF Crash, vars
<1>5. QED
  BY <1>1, <1>2, <1>3, <1>4 DEF Next, Finished

\* Every step of every call keeps the types, shared names or not.
THEOREM FileTypeCorrect == Spec => []TypeOK
<1>1. Writing => TypeOK
  BY DEF Writing
<1>2. QED
  BY <1>1, WritingInit, WritingStep, PTL DEF Spec

-----------------------------------------------------------------------------
\* With names of their own, every step of every call keeps files private.
LEMMA PrivateStep ==
  ASSUME OwnName, IInv, [Next]_vars
  PROVE  IInv'
<1> USE FileAssumption DEF IInv, TypeOK, Private, OwnName, Goto
<1>1. ASSUME NEW w \in Writers, Open(w)
      PROVE  IInv'
  <2>1. /\ tmp[TmpName[w]] = NoFile
        /\ fd' = [fd EXCEPT ![w] = w]
        /\ content' = [content EXCEPT ![w] = Empty]
        /\ tmp' = [tmp EXCEPT ![TmpName[w]] = w]
        /\ pc' = [pc EXCEPT ![w] = "write"]
        /\ path' = path /\ written' = written
        /\ pc[w] = "start" /\ path # w
    BY <1>1 DEF Open
  <2>2. Empty \in File
    BY DEF Empty, File
  <2>3. TypeOK'
    BY <2>1, <2>2
  <2>4. Private'
    BY <2>1
  <2>5. QED
    BY <2>1, <2>3, <2>4
<1>2. ASSUME NEW w \in Writers, WriteChunk(w)
      PROVE  IInv'
  BY <1>2 DEF WriteChunk, File
<1>3. ASSUME NEW w \in Writers, Close(w)
      PROVE  IInv'
  BY <1>3 DEF Close, Payload, File
<1>4. ASSUME NEW w \in Writers, WriteFails(w)
      PROVE  IInv'
  BY <1>4 DEF WriteFails
<1>5. ASSUME NEW w \in Writers, Rename(w)
      PROVE  IInv'
  BY <1>5 DEF Rename
<1>6. CASE Crash
  BY <1>6 DEF Crash
<1>7. CASE UNCHANGED vars
  BY <1>7 DEF vars
<1>8. QED
  BY <1>1, <1>2, <1>3, <1>4, <1>5, <1>6, <1>7 DEF Next, Finished

\* Before any call begins nothing is open and nothing is in place.
LEMMA PrivateInit == Init => IInv
BY FileAssumption
   DEF Init, IInv, TypeOK, Private, Empty, File

-----------------------------------------------------------------------------
\* Whenever calls fail and wherever the process dies, the path holds one whole
\* payload.
THEOREM StoreIsWhole ==
  ASSUME OwnName
  PROVE  Spec => []PathIsWhole
<1>1. IInv => PathIsWhole
  BY DEF IInv, TypeOK, PathIsWhole
<1>2. IInv /\ [Next]_vars => IInv'
  BY PrivateStep
<1>3. QED
  BY <1>1, <1>2, PrivateInit, PTL DEF Spec

\* A call that has written its payload finds its temporary file.
THEOREM RenameSucceeds ==
  ASSUME OwnName
  PROVE  Spec => []RenameFindsFile
<1>1. IInv => RenameFindsFile
  BY FileAssumption DEF IInv, Private, RenameFindsFile
<1>2. IInv /\ [Next]_vars => IInv'
  BY PrivateStep
<1>3. QED
  BY <1>1, <1>2, PrivateInit, PTL DEF Spec

-----------------------------------------------------------------------------
(***************************************************************************)
(* The refinement.                                                         *)
(***************************************************************************)

\* Under the invariant the payload in place is the path's own.
LEMMA InPlaceIsPath == IInv => InPlace = path
<1> SUFFICES ASSUME IInv
             PROVE  InPlace = path
  OBVIOUS
<1>1. CASE path = NoFile
  BY <1>1 DEF InPlace
<1>2. CASE path # NoFile
  <2>1. path \in Writers /\ content[path] = Payload(path)
    BY <1>2 DEF IInv, TypeOK
  <2>2. \A w \in Writers : content[path] = Payload(w) => w = path
    BY <2>1, PayloadInjective
  <2>3. QED
    BY <1>2, <2>1, <2>2 DEF InPlace
<1>3. QED
  BY <1>1, <1>2

\* Replacing a file with a temporary file of its own is atomic: only a
\* successful rename changes what is in place, to the caller's payload.
THEOREM ReplaceIsAtomic ==
  ASSUME OwnName
  PROVE  Spec => FileIsAtomic
<1>1. Init => Atomic!Init
  BY DEF Init, Atomic!Init, InPlace
<1>2. IInv' => (InPlace = path)'
  BY InPlaceIsPath, PTL
<1>3. IInv /\ IInv' /\ [Next]_vars => [Atomic!Next]_Atomic!vars
  <2> SUFFICES ASSUME IInv, IInv', [Next]_vars
               PROVE  [Atomic!Next]_Atomic!vars
    OBVIOUS
  <2>1. InPlace = path /\ InPlace' = path'
    BY <1>2, InPlaceIsPath
  <2>2. ASSUME NEW w \in Writers, Rename(w)
        PROVE  Atomic!Replace(w)
    <3>1. pc[w] = "rename" /\ tmp[TmpName[w]] = w
      BY <2>2 DEF Rename, IInv, Private
    <3>2. path' = w /\ pc' = [pc EXCEPT ![w] = "ok"]
      BY <2>2, <3>1, FileAssumption DEF Rename, Goto
    <3>3. {u \in Writers : pc'[u] = "ok"}
            = {u \in Writers : pc[u] = "ok"} \cup {w}
      BY <3>2 DEF IInv, TypeOK
    <3>4. QED
      BY <2>1, <3>1, <3>2, <3>3 DEF Atomic!Replace
  <2>3. ASSUME \/ \E w \in Writers : \/ Open(w) \/ WriteChunk(w) \/ Close(w)
                                     \/ WriteFails(w)
               \/ Crash \/ Finished \/ UNCHANGED vars
        PROVE  UNCHANGED Atomic!vars
    <3>1. path' = path
      BY <2>3 DEF Open, WriteChunk, Close, WriteFails, Crash, Finished, vars
    <3>2. \A u \in Writers : pc'[u] = "ok" <=> pc[u] = "ok"
      BY <2>3, ZenonT(30) DEF Open, WriteChunk, Close, WriteFails, Crash, Finished, vars,
                  Goto, IInv, TypeOK
    <3>3. QED
      BY <2>1, <3>1, <3>2 DEF Atomic!vars
  <2>4. QED
    BY <2>2, <2>3 DEF Next, Atomic!Next
<1>4. IInv /\ [Next]_vars => IInv'
  BY PrivateStep
<1>5. QED
  BY <1>1, <1>3, <1>4, PrivateInit, PTL DEF Spec, FileIsAtomic, Atomic!Spec

=============================================================================
