--------------------------- MODULE MCFileReplace ----------------------------
(***************************************************************************)
(* FileReplace with the two ways the code names temporary files.           *)
(***************************************************************************)
EXTENDS FileReplace

\* state.rs: the process id and a counter.
PerCall == [w \in Writers |-> w]

\* source.rs, devices.rs, config.rs: the process id.
CONSTANT shared
PerProcess == [w \in Writers |-> shared]
=============================================================================
