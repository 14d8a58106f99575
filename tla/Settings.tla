------------------------------ MODULE Settings ------------------------------
(***************************************************************************)
(* The desktop's settings and what must agree with them: the file on disk, *)
(* the copy in memory, the engine's, the source the engine reads, the      *)
(* window's pin, the embedded server, and the cached probe of the hub      *)
(* (src-tauri/src/lib.rs with agentlight-core/src/config.rs).              *)
(*                                                                         *)
(* Synchronous commands and menu events run on the main thread, one at a   *)
(* time; the file dialog's command runs on a worker next to them.  A       *)
(* command copies the settings first and then works through its steps, of  *)
(* which each may fail and end it; `plan' is what it has left to do.       *)
(*                                                                         *)
(* Settings that nothing here branches on are left out.  Raw values are    *)
(* the ones a form or a file may hold and `sanitized' replaces: "" is a    *)
(* blank field, "sloppy" a value out of range or with blanks around it.    *)
(*                                                                         *)
(* Operators named Mut... are bugs that a property of some run must catch; *)
(* no other definition uses them.                                          *)
(***************************************************************************)
EXTENDS Integers, Sequences, FiniteSets

CONSTANTS
  Urls,       \* hub addresses, in their sanitized form
  Paths,      \* state files
  Binds,      \* addresses the server can bind
  MaxSaves,   \* bound on commands
  MaxRuns     \* bound on launches after the first

ASSUME SettingsAssumption ==
  /\ "default" \in Urls /\ "default" \in Binds
  /\ {"none", ""} \cap Paths = {}
  /\ {"none", "bad"} \cap Binds = {}
  /\ MaxSaves \in Nat /\ MaxRuns \in Nat

VARIABLES
  disk,          \* the settings file
  memory,        \* AppState.config
  engine_config, \* the engine's settings
  engine_source, \* what the engine's source was built from
  pin,           \* whether the window is topmost
  server,        \* the running embedded server, or NoServer
  job,           \* what each thread has to do
  spawned,       \* probe threads that have not read the settings
  probes,        \* how many probes of an address are under way
  hub_status,    \* the address of the cached probe
  saves,         \* commands so far
  runs,          \* launches so far
  overlapped,    \* history: two commands ran at once
  unsaved,       \* history: a save failed
  raced          \* history: the last probe to begin was not of the configured
                 \* address, or began while another address was being probed

shellVars == <<disk, memory, engine_config, engine_source, pin, server, job,
               spawned, probes, hub_status, saves, runs, overlapped, unsaved,
               raced>>

Threads == {"main", "worker"}
NoServer == [bind |-> "none", token |-> "none"]
NoProbes == [u \in Urls |-> 0]
Settings == [always_on_top : BOOLEAN, collapse_style : {"single", "triple"},
             source_kind : {"file", "hub", "push"},
             state_path : Paths \cup {"none"}, hub_url : Urls,
             server_enabled : BOOLEAN, server_bind : Binds \cup {"bad"},
             server_token_hash : {"none", "hash"}]
NoJob(c) == [prev |-> c, next |-> c, plan |-> <<>>]
Steps == {"save", "try save", "memory", "engine", "source", "server", "start", "restart",
          "restore"}

SettingsTypeOK ==
  /\ {disk, memory, engine_config} \subseteq Settings
  /\ pin \in BOOLEAN
  /\ server \in [bind : Binds \cup {"none"}, token : {"none", "hash"}]
  /\ \A t \in Threads : /\ {job[t].prev, job[t].next} \subseteq Settings
                        /\ \A k \in DOMAIN job[t].plan : job[t].plan[k] \in Steps
  /\ spawned \in 0 .. MaxSaves + 1 /\ probes \in [Urls -> Nat]
  /\ hub_status \in Urls \cup {"none"}

Busy(t) == job[t].plan # <<>>

\* Config::sanitized: blanks become defaults; a token typed in plain is hashed
\* and a blank one is dropped.
Sanitized(form) ==
  [form EXCEPT
     !.state_path  = IF @ = "" THEN "none" ELSE @,
     !.hub_url     = IF @ = "" THEN "default" ELSE @,
     !.server_bind = IF @ = "" THEN "default" ELSE @,
     !.server_token_hash = CASE @ = "typed" -> "hash" [] @ = "" -> "none"
                             [] OTHER -> @]

\* The form is opened on the settings in memory and one field is edited.
Forms(c) ==
  {[c EXCEPT !.always_on_top = ~@]} \cup
  {[c EXCEPT !.source_kind = k] : k \in {"file", "hub", "push"}} \cup
  {[c EXCEPT !.state_path = p] : p \in Paths \cup {""}} \cup
  {[c EXCEPT !.hub_url = u] : u \in Urls \cup {""}} \cup
  {[c EXCEPT !.server_enabled = ~@]} \cup
  {[c EXCEPT !.server_bind = b] : b \in Binds \cup {"", "bad"}} \cup
  {[c EXCEPT !.server_token_hash = t] : t \in {"typed", ""}}

-----------------------------------------------------------------------------
(***************************************************************************)
(* What settings make of the engine's source and of the server.            *)
(***************************************************************************)

\* Push settings fall back to the file.
BuildSource(c) ==
  IF c.source_kind = "hub" THEN <<"hub", c.hub_url>> ELSE <<"file", c.state_path>>

SourceFieldsChanged(p, c) ==
  \/ p.source_kind # c.source_kind
  \/ p.state_path # c.state_path
  \/ p.hub_url # c.hub_url

Handle(c) == [bind |-> c.server_bind, token |-> c.server_token_hash]
Running == server # NoServer
CanBind(c) == c.server_bind # "bad" /\ server.bind # c.server_bind

ServerFieldsChanged(p, c) ==
  \/ p.server_enabled # c.server_enabled
  \/ p.server_bind # c.server_bind
  \/ p.server_token_hash # c.server_token_hash

\* A server that cannot be bound at the start is left for the next launch.
LaunchedServers(c) ==
  {NoServer} \cup (IF c.server_enabled /\ c.server_bind # "bad"
                  THEN {Handle(c)} ELSE {})

DefaultConfig ==
  [always_on_top |-> TRUE, collapse_style |-> "single", source_kind |-> "file",
   state_path |-> "none", hub_url |-> "default", server_enabled |-> FALSE,
   server_bind |-> "default", server_token_hash |-> "none"]

NoJobs == [t \in Threads |-> NoJob(DefaultConfig)]

\* The program starts: it loads the settings and applies them.
SettingsInit ==
  /\ disk \in {DefaultConfig, [DefaultConfig EXCEPT !.source_kind = "hub",
                                                    !.server_enabled = TRUE]}
  /\ memory = disk /\ engine_config = disk
  /\ engine_source = BuildSource(disk)
  /\ pin = disk.always_on_top
  /\ server \in LaunchedServers(disk)
  /\ job = NoJobs
  /\ spawned = IF disk.source_kind = "hub" THEN 1 ELSE 0
  /\ probes = NoProbes /\ hub_status = "none"
  /\ saves = 0 /\ runs = 0
  /\ overlapped = FALSE /\ unsaved = FALSE /\ raced = FALSE

\* The program ends at any moment and starts again.
Relaunch ==
  /\ runs < MaxRuns
  /\ runs' = runs + 1
  /\ memory' = disk /\ engine_config' = disk
  /\ engine_source' = BuildSource(disk)
  /\ pin' = disk.always_on_top
  /\ server' \in LaunchedServers(disk)
  /\ job' = NoJobs
  /\ spawned' = IF disk.source_kind = "hub" THEN 1 ELSE 0
  /\ probes' = NoProbes /\ hub_status' = "none"
  /\ overlapped' = FALSE /\ unsaved' = FALSE /\ raced' = FALSE
  /\ UNCHANGED <<disk, saves>>

-----------------------------------------------------------------------------
(***************************************************************************)
(* Commands.                                                               *)
(***************************************************************************)
Begin(t, next, plan) ==
  /\ ~Busy(t) /\ saves < MaxSaves
  /\ saves' = saves + 1
  /\ job' = [job EXCEPT ![t] = [prev |-> memory, next |-> next, plan |-> plan]]
  /\ overlapped' = (overlapped \/ \E u \in Threads \ {t} : Busy(u))

\* The settings are saved before the server is changed.
MutSetConfig ==
  /\ \E form \in Forms(memory) :
       LET next == Sanitized(form) IN
       /\ next # memory \/ next.server_enabled # Running
       /\ next.server_enabled => next.server_bind # "bad"
       /\ Begin("main", next, <<"save", "server", "memory", "engine", "source">>)
  /\ UNCHANGED <<disk, memory, engine_config, engine_source, pin, server,
                 spawned, probes, hub_status, runs, unsaved, raced>>

\* A save that changes nothing does nothing, unless the server should run and
\* does not.  An address that does not parse is refused at once.  The server
\* comes first.
SetConfig ==
  /\ \E form \in Forms(memory) :
       LET next == Sanitized(form) IN
       /\ next # memory \/ next.server_enabled # Running
       /\ next.server_enabled => next.server_bind # "bad"
       /\ Begin("main", next, <<"server", "save", "memory", "engine", "source">>)
  /\ UNCHANGED <<disk, memory, engine_config, engine_source, pin, server,
                 spawned, probes, hub_status, runs, unsaved, raced>>

\* The engine is not told.
MutPickStateFile ==
  /\ \E p \in Paths :
       Begin("worker",
             [memory EXCEPT !.state_path = p, !.source_kind = "file"],
             <<"save", "memory", "source", "server">>)
  /\ UNCHANGED <<disk, memory, engine_config, engine_source, pin, server,
                 spawned, probes, hub_status, runs, unsaved, raced>>

\* The dialog has returned a path: back to file mode; the server comes last.
PickStateFile ==
  /\ \E p \in Paths :
       Begin("worker",
             [memory EXCEPT !.state_path = p, !.source_kind = "file"],
             <<"save", "memory", "engine", "source", "server">>)
  /\ UNCHANGED <<disk, memory, engine_config, engine_source, pin, server,
                 spawned, probes, hub_status, runs, unsaved, raced>>

\* The pin: the window first, then the settings if they differ.
ApplyAlwaysOnTop ==
  /\ Begin("main", [memory EXCEPT !.always_on_top = ~@],
           <<"save", "memory", "engine">>)
  /\ pin' = ~memory.always_on_top
  /\ UNCHANGED <<disk, memory, engine_config, engine_source, server, spawned,
                 probes, hub_status, runs, unsaved, raced>>

\* The menu of the light: a save that fails is not looked at.
SetCollapseStyle ==
  /\ \E style \in {"single", "triple"} \ {memory.collapse_style} :
       Begin("main", [memory EXCEPT !.collapse_style = style],
             <<"try save", "memory", "engine">>)
  /\ UNCHANGED <<disk, memory, engine_config, engine_source, pin, server,
                 spawned, probes, hub_status, runs, unsaved, raced>>

-----------------------------------------------------------------------------
(***************************************************************************)
(* Their steps.                                                            *)
(***************************************************************************)
At(t, step) == Busy(t) /\ Head(job[t].plan) = step
Then(t, plan) == job' = [job EXCEPT ![t] = IF plan = <<>> THEN NoJob(DefaultConfig)
                                           ELSE [@ EXCEPT !.plan = plan]]
Done(t) == Then(t, Tail(job[t].plan))
Instead(t, step) == Then(t, <<step>> \o Tail(job[t].plan))
Fail(t) == Then(t, <<>>)

Save(t) ==
  /\ At(t, "save")
  /\ \/ disk' = job[t].next /\ Done(t) /\ UNCHANGED unsaved
     \/ unsaved' = TRUE /\ Fail(t) /\ UNCHANGED disk
  /\ UNCHANGED <<memory, engine_config, engine_source, pin, server, spawned,
                 probes, hub_status, saves, runs, overlapped, raced>>

TrySave(t) ==
  /\ At(t, "try save")
  /\ \/ disk' = job[t].next /\ UNCHANGED unsaved
     \/ unsaved' = TRUE /\ UNCHANGED disk
  /\ Done(t)
  /\ UNCHANGED <<memory, engine_config, engine_source, pin, server, spawned,
                 probes, hub_status, saves, runs, overlapped, raced>>

\* The pin is applied if set_config changed it, then the copy is replaced.
SetMemory(t) ==
  /\ At(t, "memory")
  /\ pin' = IF job[t].next.always_on_top # job[t].prev.always_on_top
            THEN job[t].next.always_on_top ELSE pin
  /\ memory' = job[t].next
  /\ Done(t)
  /\ UNCHANGED <<disk, engine_config, engine_source, server, spawned, probes,
                 hub_status, saves, runs, overlapped, unsaved, raced>>

SetEngine(t) ==
  /\ At(t, "engine")
  /\ engine_config' = job[t].next
  /\ Done(t)
  /\ UNCHANGED <<disk, memory, engine_source, pin, server, spawned, probes,
                 hub_status, saves, runs, overlapped, unsaved, raced>>

\* The dialog's command always rebuilds the source and never probes.
RestartSource(t) ==
  /\ At(t, "source")
  /\ LET changed == SourceFieldsChanged(job[t].prev, job[t].next)
     IN  /\ engine_source' = IF changed \/ t = "worker"
                             THEN BuildSource(job[t].next) ELSE engine_source
         /\ spawned' = IF changed /\ t = "main" THEN spawned + 1 ELSE spawned
  /\ Done(t)
  /\ UNCHANGED <<disk, memory, engine_config, pin, server, probes, hub_status,
                 saves, runs, overlapped, unsaved, raced>>

serverOnly == <<disk, memory, engine_config, engine_source, pin, spawned,
                probes, hub_status, saves, runs, overlapped, unsaved, raced>>

\* Decide what becomes of the server.  A restart on the address it has must
\* free the address first.
ApplyServerChange(t) ==
  LET p == job[t].prev  c == job[t].next IN
  /\ At(t, "server")
  /\ \/ /\ ~ServerFieldsChanged(p, c) /\ Running = c.server_enabled
        /\ Done(t) /\ UNCHANGED server
     \/ /\ ServerFieldsChanged(p, c) \/ Running # c.server_enabled
        /\ \/ ~c.server_enabled /\ server' = NoServer /\ Done(t)
           \/ /\ c.server_enabled /\ Running /\ p.server_bind = c.server_bind
              /\ server' = NoServer /\ Instead(t, "restart")
           \/ /\ c.server_enabled
              /\ ~Running \/ p.server_bind # c.server_bind
              /\ Instead(t, "start") /\ UNCHANGED server
  /\ UNCHANGED serverOnly

\* Bound first, then the old one is stopped; any start may fail.
StartServer(t) ==
  /\ At(t, "start")
  /\ \/ CanBind(job[t].next) /\ server' = Handle(job[t].next) /\ Done(t)
     \/ Fail(t) /\ UNCHANGED server
  /\ UNCHANGED serverOnly

RestartServer(t) ==
  /\ At(t, "restart")
  /\ \/ CanBind(job[t].next) /\ server' = Handle(job[t].next) /\ Done(t)
     \/ Instead(t, "restore") /\ UNCHANGED server
  /\ UNCHANGED serverOnly

RestoreServer(t) ==
  /\ At(t, "restore")
  /\ \/ CanBind(job[t].prev) /\ server' = Handle(job[t].prev)
     \/ UNCHANGED server
  /\ Fail(t)
  /\ UNCHANGED serverOnly

-----------------------------------------------------------------------------
(***************************************************************************)
(* Probes of the hub, on threads of their own.                             *)
(***************************************************************************)
probeOnly == <<disk, memory, engine_config, engine_source, pin, server, job,
               runs, overlapped, unsaved>>

BeingProbed(u) == probes[u] # 0

Probing(u) ==
  /\ probes' = [probes EXCEPT ![u] = @ + 1]
  /\ raced' = (u # memory.hub_url \/ \E v \in Urls \ {u} : BeingProbed(v))

RefreshHubStatus ==
  /\ spawned > 0 /\ spawned' = spawned - 1
  /\ IF memory.source_kind = "hub" THEN Probing(memory.hub_url)
     ELSE UNCHANGED <<probes, raced>>
  /\ UNCHANGED <<probeOnly, hub_status, saves>>

\* The Refresh button probes the address in the form, saved or not.
GetHubStatus ==
  /\ saves < MaxSaves /\ saves' = saves + 1
  /\ \E u \in Urls : Probing(u)
  /\ UNCHANGED <<probeOnly, spawned, hub_status>>

ProbeHub ==
  /\ \E u \in Urls : /\ BeingProbed(u)
                     /\ probes' = [probes EXCEPT ![u] = @ - 1]
                     /\ hub_status' = u
  /\ UNCHANGED <<probeOnly, spawned, saves, raced>>

SettingsNext ==
  \/ SetConfig \/ PickStateFile \/ ApplyAlwaysOnTop \/ SetCollapseStyle
  \/ \E t \in Threads :
       \/ Save(t) \/ TrySave(t) \/ SetMemory(t) \/ SetEngine(t)
       \/ RestartSource(t)
       \/ ApplyServerChange(t) \/ StartServer(t) \/ RestartServer(t)
       \/ RestoreServer(t)
  \/ RefreshHubStatus \/ GetHubStatus \/ ProbeHub
  \/ Relaunch

SettingsSpec == SettingsInit /\ [][SettingsNext]_shellVars

-----------------------------------------------------------------------------
\* Between commands everything agrees with the settings in memory, whichever
\* steps failed, as long as no two commands overlapped and no save failed: the
\* file, the engine, its source and the pin, and a server that runs is the one
\* the settings describe.  The cached probe, when none is under way, is of the
\* configured hub too, unless the last one to begin was of another address (a
\* Refresh of one that is not saved) or began while another was being probed.
ShellAgrees ==
  (\A t \in Threads : ~Busy(t)) /\ ~overlapped /\ ~unsaved =>
    /\ disk = memory /\ engine_config = memory
    /\ engine_source = BuildSource(memory)
    /\ pin = memory.always_on_top
    /\ Running => memory.server_enabled /\ server = Handle(memory)
    /\ (memory.source_kind = "hub" /\ spawned = 0 /\ probes = NoProbes /\ ~raced)
         => hub_status = memory.hub_url

\* "server_enabled" on disk never changes unless the server was started or
\* stopped accordingly.
PersistedFollowsServer ==
  [][ disk'.server_enabled # disk.server_enabled /\ ~overlapped
      => disk'.server_enabled = Running ]_shellVars

=============================================================================
