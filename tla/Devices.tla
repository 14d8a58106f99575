------------------------------ MODULE Devices -------------------------------
(***************************************************************************)
(* Paired devices: the store of the hub (agentlight-server, devices.rs),   *)
(* the requests that change it (routes.rs, auth.rs), and the server that   *)
(* holds it, which may be rebound or restarted (lib.rs).                   *)
(*                                                                         *)
(* A store is locked for one look or one change at a time.  Every change   *)
(* is followed by a save: the devices are copied under the lock and the    *)
(* copy is written without it (the write itself is FileReplace.tla); only  *)
(* then is the request answered.  Rebinding the server loads a second      *)
(* store from the file while requests still run on the first.              *)
(*                                                                         *)
(* A device is its id and the time it was last seen; its token goes with   *)
(* the id, and names and creation times are never looked at.  The pairing  *)
(* code is whether the one that is shown is still valid.  Time is counted  *)
(* in units of TOUCH_INTERVAL_SECONDS.                                     *)
(*                                                                         *)
(* Operators named Mut... are bugs that a property of some run must catch; *)
(* no other definition uses them.                                          *)
(***************************************************************************)
EXTENDS Integers, FiniteSets

CONSTANTS
  DeviceIds,    \* device ids the hub may draw
  Unpaired,     \* such an id names no device
  Requests,     \* request threads
  MaxClock,     \* bound on the time
  MaxStarts     \* bound on the stores ever loaded

ASSUME DevicesAssumption ==
  /\ Unpaired \notin Int
  /\ MaxClock \in Nat /\ MaxStarts \in Nat \ {0}

VARIABLES
  devices_json, \* the file
  stores,       \* the devices of each store, by number
  loaded,       \* the newest store
  live,         \* the store whose server answers
  code_valid,   \* whether the live store's code would be accepted
  request,      \* what each request thread does
  clock,        \* the time
  drawn,        \* ids that were given out
  told,         \* history: devices that got their token and are not revoked
  forgotten,    \* history: devices whose revocation was answered
  crossed,      \* history: an older copy was written over a newer one
  unwritten     \* history: a write failed

deviceVars == <<devices_json, stores, loaded, live, code_valid, request, clock,
                drawn, told, forgotten, crossed, unwritten>>

Registry == [DeviceIds -> 0 .. MaxClock \cup {Unpaired}]
NoDevices == [d \in DeviceIds |-> Unpaired]
Waiting == [pc |-> "idle", op |-> "none", id |-> Unpaired, store |-> 1,
            copy |-> NoDevices, late |-> "no"]

DevicesTypeOK ==
  /\ devices_json \in Registry
  /\ stores \in [1 .. MaxStarts -> Registry]
  /\ live \in 1 .. loaded /\ loaded \in 1 .. MaxStarts
  /\ code_valid \in BOOLEAN
  /\ request \in [Requests -> [pc : {"idle", "add", "save", "write"},
                               op : {"none", "pair", "revoke", "touch"},
                               id : DeviceIds \cup {Unpaired},
                               store : 1 .. MaxStarts, copy : Registry,
                               late : {"no", "maybe", "yes"}]]
  /\ clock \in 0 .. MaxClock
  /\ told \subseteq drawn /\ forgotten \subseteq drawn

DevicesInit ==
  /\ devices_json = NoDevices
  /\ stores = [s \in 1 .. MaxStarts |-> NoDevices]
  /\ loaded = 1 /\ live = 1
  /\ code_valid = TRUE
  /\ request = [r \in Requests |-> Waiting]
  /\ clock = 0
  /\ drawn = {} /\ told = {} /\ forgotten = {}
  /\ crossed = FALSE /\ unwritten = FALSE

-----------------------------------------------------------------------------
(***************************************************************************)
(* The store.                                                              *)
(***************************************************************************)
SetRequest(r, rec) == request' = [request EXCEPT ![r] = rec]
Known(s) == {d \in DeviceIds : stores[s][d] # Unpaired}
Authenticated(d) == d \in Known(live)

\* Ids are random; which unused one is drawn makes no difference.
Fresh == IF DeviceIds \subseteq drawn THEN {}
         ELSE {CHOOSE d \in DeviceIds : d \notin drawn}

\* A valid code draws an id and a token.
Pair(r) ==
  /\ request[r].pc = "idle" /\ code_valid
  /\ \E d \in Fresh :
       /\ drawn' = drawn \cup {d}
       /\ SetRequest(r, [Waiting EXCEPT !.pc = "add", !.op = "pair", !.id = d,
                                     !.store = live])
  /\ UNCHANGED <<devices_json, stores, loaded, live, code_valid, clock, told,
                 forgotten, crossed, unwritten>>

\* The token is given out before the device is saved.
MutAdd(r) ==
  /\ request[r].pc = "add"
  /\ stores' = [stores EXCEPT ![request[r].store][request[r].id] = clock]
  /\ told' = told \cup {request[r].id}
  /\ SetRequest(r, [request[r] EXCEPT !.pc = "save"])
  /\ UNCHANGED <<devices_json, loaded, live, code_valid, clock, drawn,
                 forgotten, crossed, unwritten>>

\* The code was checked; the device is added, under the lock once more.
Add(r) ==
  /\ request[r].pc = "add"
  /\ stores' = [stores EXCEPT ![request[r].store][request[r].id] = clock]
  /\ SetRequest(r, [request[r] EXCEPT !.pc = "save"])
  /\ UNCHANGED <<devices_json, loaded, live, code_valid, clock, drawn, told,
                 forgotten, crossed, unwritten>>

\* An id that is not known is answered at once.
Revoke(r) ==
  /\ request[r].pc = "idle"
  /\ \E d \in Known(live) :
       /\ stores' = [stores EXCEPT ![live][d] = Unpaired]
       /\ told' = told \ {d}
       /\ SetRequest(r, [Waiting EXCEPT !.pc = "save", !.op = "revoke", !.id = d,
                                     !.store = live])
  /\ UNCHANGED <<devices_json, loaded, live, code_valid, clock, drawn,
                 forgotten, crossed, unwritten>>

\* The time is kept in memory and not saved.
MutTouch(r) ==
  /\ request[r].pc = "idle"
  /\ \E d \in told :
       /\ Authenticated(d) /\ clock > stores[live][d]
       /\ stores' = [stores EXCEPT ![live][d] = clock]
  /\ UNCHANGED <<devices_json, loaded, live, code_valid, request, clock, drawn,
                 told, forgotten, crossed, unwritten>>

\* A request with a device's token: nothing is done for a device that was seen
\* a moment ago.
Touch(r) ==
  /\ request[r].pc = "idle"
  /\ \E d \in told :
       /\ Authenticated(d) /\ clock > stores[live][d]
       /\ stores' = [stores EXCEPT ![live][d] = clock]
       /\ SetRequest(r, [Waiting EXCEPT !.pc = "save", !.op = "touch", !.id = d,
                                     !.store = live])
  /\ UNCHANGED <<devices_json, loaded, live, code_valid, clock, drawn, told,
                 forgotten, crossed, unwritten>>

\* save() copies the devices; a copy not yet written may be overtaken now.
SaveCopy(r) ==
  /\ request[r].pc = "save"
  /\ request' = [q \in Requests |->
       IF q = r THEN [request[r] EXCEPT !.pc = "write",
                                        !.copy = stores[request[r].store]]
       ELSE IF request[q].pc = "write" /\ request[q].late = "no"
            THEN [request[q] EXCEPT !.late = "maybe"]
            ELSE request[q]]
  /\ UNCHANGED <<devices_json, stores, loaded, live, code_valid, clock, drawn,
                 told, forgotten, crossed, unwritten>>

\* The copy is written, if it can be, and the request is answered.
WriteCopy(r) ==
  /\ request[r].pc = "write"
  /\ \/ /\ devices_json' = request[r].copy
        /\ crossed' = \/ crossed
                      \/ request[r].late = "yes"
                      \/ request[r].store # loaded
        /\ UNCHANGED unwritten
     \/ unwritten' = TRUE /\ UNCHANGED <<devices_json, crossed>>
  /\ told' = IF request[r].op = "pair" /\ request[r].id \in Known(live)
             THEN told \cup {request[r].id} ELSE told
  /\ forgotten' = IF request[r].op = "revoke"
                  THEN forgotten \cup {request[r].id} ELSE forgotten
  /\ request' = [q \in Requests |->
       IF q = r THEN Waiting
       ELSE IF request[q].late = "maybe" THEN [request[q] EXCEPT !.late = "yes"]
       ELSE request[q]]
  /\ UNCHANGED <<stores, loaded, live, code_valid, clock, drawn>>

Regenerate ==
  /\ ~code_valid /\ code_valid' = TRUE
  /\ UNCHANGED <<devices_json, stores, loaded, live, request, clock, drawn,
                 told, forgotten, crossed, unwritten>>

\* Half a minute passes; a code expires after five minutes.
TimePasses ==
  /\ clock < MaxClock
  /\ clock' = clock + 1
  /\ code_valid' \in {code_valid, FALSE}
  /\ UNCHANGED <<devices_json, stores, loaded, live, request, drawn, told,
                 forgotten, crossed, unwritten>>

-----------------------------------------------------------------------------
(***************************************************************************)
(* The server.                                                             *)
(***************************************************************************)
LoadStore == /\ loaded < MaxStarts
             /\ loaded' = loaded + 1
             /\ stores' = [stores EXCEPT ![loaded + 1] = devices_json]

\* start: the new server has its store and is bound; the old one still runs.
StartAnother ==
  /\ live = loaded /\ LoadStore
  /\ UNCHANGED <<devices_json, live, code_valid, request, clock, drawn, told,
                 forgotten, crossed, unwritten>>

\* The old server is shut down; its requests have a moment to finish.
StopOld ==
  /\ live < loaded /\ live' = loaded
  /\ code_valid' = TRUE
  /\ UNCHANGED <<devices_json, stores, loaded, request, clock, drawn, told,
                 forgotten, crossed, unwritten>>

\* The process ends and starts again: requests are gone unanswered.
RestartHub ==
  /\ LoadStore
  /\ live' = loaded + 1
  /\ code_valid' = TRUE
  /\ request' = [r \in Requests |-> Waiting]
  /\ UNCHANGED <<devices_json, clock, drawn, told, forgotten, crossed,
                 unwritten>>

DevicesNext ==
  \/ \E r \in Requests :
       \/ Pair(r) \/ Add(r) \/ Revoke(r) \/ Touch(r)
       \/ SaveCopy(r) \/ WriteCopy(r)
  \/ Regenerate \/ TimePasses
  \/ StartAnother \/ StopOld \/ RestartHub

DevicesSpec == DevicesInit /\ [][DevicesNext]_deviceVars

-----------------------------------------------------------------------------
\* When no request is under way the file has what the store has, across
\* rebinds and restarts, unless a copy was written over a newer one or a write
\* failed: then the next save repairs it, and a restart before it does not.
FileKeepsUp ==
  (\A r \in Requests : request[r].pc = "idle") /\ ~crossed /\ ~unwritten
  => devices_json = stores[live]

\* What was answered lasts: a device that got its token is on file until it is
\* revoked, and a device whose revocation was answered is not on file again.
AnswersLast ==
  ~crossed /\ ~unwritten =>
    /\ \A d \in told : devices_json[d] # Unpaired
    /\ \A d \in forgotten : devices_json[d] = Unpaired

=============================================================================
