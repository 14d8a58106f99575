----------------------------- MODULE HubClient ------------------------------
(***************************************************************************)
(* A desktop that follows a remote hub: HubSource (agentlight-hub-client,  *)
(* source.rs) with its HTTP client (client.rs) and frame reader (sse.rs),  *)
(* and the commands of the desktop that go through it.                     *)
(*                                                                         *)
(* The thread polls once, then connects to the event stream, fetches the   *)
(* snapshot, and replaces the cache with what every frame carries; a       *)
(* command replaces the cache with the snapshot in its reply.  Renders     *)
(* read the cache only.  The hub is what this code sees of it: snapshots,  *)
(* frames and replies (HubStream.tla has the other side); it serves a      *)
(* request in one step.  Rows carry the status alone: `normalize' lifts    *)
(* the other fields as they are.                                           *)
(*                                                                         *)
(* An entry has the version of the hub's state it was made from; that is a *)
(* history value, the code has no such number.                             *)
(*                                                                         *)
(* Operators named Mut... are bugs that a property of some run must catch; *)
(* no other definition uses them.                                          *)
(***************************************************************************)
EXTENDS Integers, Sequences, FiniteSets, SequencesExt

CONSTANTS
  Rows,          \* session ids of the hub
  RowStatuses,   \* statuses of rows
  Troubles,      \* what "exists" may be when the hub cannot read its state
  FrameCapacity, \* updates the hub keeps for a slow reader
  MaxChanges,    \* bound on the versions of the hub's state
  MaxFaults,     \* bound on the failures of hub and network
  MaxCommands    \* bound on the commands of the user

ASSUME ClientAssumption ==
  /\ "done" \in RowStatuses /\ "gone" \notin RowStatuses
  /\ Troubles \subseteq BOOLEAN
  /\ FrameCapacity \in Nat \ {0}
  /\ MaxChanges \in Nat /\ MaxFaults \in Nat /\ MaxCommands \in Nat

VARIABLES
  hub,        \* the hub's state
  up,         \* whether the hub answers requests
  modern,     \* whether frames and replies carry a snapshot
  conn,       \* the event stream, as the network has it
  queue,      \* frames the hub has not sent
  rest,       \* lines sent and not read
  reader,     \* the frame being put together
  thread,     \* where the stream thread is, and the entry it holds
  last_poll,  \* the entry the last poll compared with
  cache,      \* the cached entry, or NoEntry
  screen,     \* what the engine's last publish showed of the cache
  post,       \* the command in progress
  stop,       \* the source was dropped
  faults,     \* failures so far
  commands,   \* commands so far
  newest,     \* history: the newest version ever cached
  failed      \* history: a fetch failed since the stream was opened

hubSide == <<hub, up, modern, conn, queue, rest>>
clientVars == <<hubSide, reader, thread, last_poll, cache, screen, post, stop,
                faults, commands, newest, failed>>

Entries == [health : {"ready", "unreadable", "missing", "unreachable", "none"},
            rows : [Rows -> RowStatuses \cup {"gone"}],
            at : -1 .. MaxChanges]
Frames == [event : {"", "update", "lagged"}, entry : Entries]

NoRows == [i \in Rows |-> "gone"]
NoEntry == [health |-> "none", rows |-> NoRows, at |-> -1]
Unreachable == [NoEntry EXCEPT !.health = "unreachable"]
NoFrame == [event |-> "", entry |-> NoEntry]
AtConnect == [pc |-> "connect", next |-> "connect", poll |-> TRUE,
              entry |-> NoEntry]
NoPost == [pc |-> "idle", op |-> "none", target |-> "none", entry |-> NoEntry]

\* What the hub answers: ok and exists tell a hub that reads its state from
\* one that cannot and one that has none.
Answers == [ok : BOOLEAN, exists : BOOLEAN,
            rows : [Rows -> RowStatuses \cup {"gone"}], at : 0 .. MaxChanges]

HealthOf(h) == IF h.ok THEN "ready" ELSE IF h.exists THEN "unreadable"
                                         ELSE "missing"
EntryFromSnapshot(h) == [health |-> HealthOf(h), rows |-> h.rows, at |-> h.at]

\* A frame's lines: its fields, in one, and the blank line that ends it.
Lines(frame) == <<<<"fields", frame>>, <<"blank", frame>>>>

ClientTypeOK ==
  /\ hub \in Answers /\ cache \in Entries /\ screen \in Entries
  /\ last_poll \in Entries
  /\ up \in BOOLEAN /\ modern \in BOOLEAN /\ stop \in BOOLEAN
  /\ conn \in {"closed", "open", "dead"}
  /\ Len(queue) <= FrameCapacity + 1 /\ ToSet(queue) \subseteq Frames
  /\ Len(rest) <= 2 /\ reader \in Frames
  /\ thread \in [pc   : {"get", "store", "emit", "connect", "join", "read",
                         "ended"},
                 next : {"connect", "read"}, poll : BOOLEAN,
                 entry : Entries]
  /\ post.pc \in {"idle", "post", "get", "store", "emit"}
  /\ newest \in -1 .. MaxChanges

ClientInit ==
  /\ hub = [ok |-> TRUE, exists |-> TRUE, rows |-> NoRows, at |-> 0]
  /\ up \in BOOLEAN /\ modern \in BOOLEAN
  /\ conn = "closed" /\ queue = <<>> /\ rest = <<>> /\ reader = NoFrame
  /\ thread = [pc |-> "get", next |-> "connect", poll |-> TRUE,
               entry |-> NoEntry]
  /\ last_poll = NoEntry /\ cache = NoEntry /\ screen = NoEntry
  /\ post = NoPost /\ stop = FALSE
  /\ faults = 0 /\ commands = 0 /\ newest = -1 /\ failed = FALSE

-----------------------------------------------------------------------------
(***************************************************************************)
(* The hub and the network.                                                *)
(***************************************************************************)

\* The updates in the queue; only the first frame may be another one.
Updates == IF queue # <<>> /\ Head(queue).event = "lagged" THEN Tail(queue)
                                                          ELSE queue
Lagged == [event |-> "lagged", entry |-> NoEntry]

\* Nothing is passed over.
MutQueued(frame) ==
  IF conn # "open" THEN queue
  ELSE IF Len(Updates) < FrameCapacity THEN Append(queue, frame)
  ELSE <<Lagged>> \o Append(Updates, frame)

\* A reader that falls behind gets a lagged frame and the newest updates.
Queued(frame) ==
  IF conn # "open" THEN queue
  ELSE IF Len(Updates) < FrameCapacity THEN Append(queue, frame)
  ELSE <<Lagged>> \o Tail(Append(Updates, frame))

Update(h) == [event |-> "update", entry |-> EntryFromSnapshot(h)]

Become(ok, exists, rows) ==
  /\ hub.at < MaxChanges
  /\ hub' = [ok |-> ok, exists |-> exists, rows |-> rows, at |-> hub.at + 1]
  /\ queue' = Queued(Update(hub'))

\* Something happens on the hub's host; of no interest to a dropped source.
HubChange ==
  /\ ~stop
  /\ \/ \E i \in Rows, s \in RowStatuses :
          /\ s # hub.rows[i]
          /\ Become(TRUE, TRUE, [hub.rows EXCEPT ![i] = s])
     \/ \E exists \in Troubles :
          (hub.ok \/ hub.exists # exists) /\ Become(FALSE, exists, NoRows)
  /\ UNCHANGED <<up, modern, conn, rest, reader, thread, last_poll, cache,
                 screen, post, stop, faults, commands, newest, failed>>

Fault == faults < MaxFaults /\ faults' = faults + 1

\* Requests fail, by a refused connection, a timeout or an HTTP error.
HubDown ==
  /\ up /\ Fault /\ up' = FALSE
  /\ UNCHANGED <<hub, modern, conn, queue, rest, reader, thread, last_poll,
                 cache, screen, post, stop, commands, newest, failed>>

HubUp ==
  /\ ~up /\ up' = TRUE
  /\ UNCHANGED <<hub, modern, conn, queue, rest, reader, thread, last_poll,
                 cache, screen, post, stop, faults, commands, newest, failed>>

\* The stream ends, after any part of a frame: the connection is closed, or
\* it is lost and the client is not told.
StreamLost ==
  /\ conn = "open" /\ Fault
  /\ conn' \in {"closed", "dead"}
  /\ queue' = <<>>
  /\ \E n \in 0 .. Len(rest) : rest' = SubSeq(rest, 1, n)
  /\ UNCHANGED <<hub, up, modern, reader, thread, last_poll, cache, screen,
                 post, stop, commands, newest, failed>>

Send ==
  /\ conn = "open" /\ rest = <<>> /\ queue # <<>>
  /\ rest' = Lines(Head(queue)) /\ queue' = Tail(queue)
  /\ UNCHANGED <<hub, up, modern, conn, reader, thread, last_poll, cache,
                 screen, post, stop, faults, commands, newest, failed>>

-----------------------------------------------------------------------------
(***************************************************************************)
(* The stream thread.                                                      *)
(***************************************************************************)
Goto(label) == thread' = [thread EXCEPT !.pc = label]

Left(label) == thread' = [thread EXCEPT !.pc = label, !.entry = NoEntry]

\* client.snapshot() and the entry made of the answer.
FetchEntry == IF up THEN EntryFromSnapshot(hub) ELSE Unreachable

Get ==
  /\ thread.pc = "get"
  /\ thread' = [thread EXCEPT !.pc = "store", !.entry = FetchEntry]
  /\ failed' = (failed \/ ~up)
  /\ UNCHANGED <<hubSide, reader, last_poll, cache, screen, post, stop, faults,
                 commands, newest>>

CacheSignature(entry) == [entry EXCEPT !.at = -1]

Keep(entry) ==
  /\ cache' = entry
  /\ newest' = IF entry.at > newest THEN entry.at ELSE newest

\* Only a poll that finds something else than the poll before is signalled,
\* and so is no frame.
MutStoreEntry ==
  /\ thread.pc = "store"
  /\ Keep(thread.entry)
  /\ last_poll' = IF thread.poll THEN CacheSignature(thread.entry) ELSE last_poll
  /\ Left(IF CacheSignature(thread.entry) # last_poll
          THEN "emit" ELSE thread.next)
  /\ UNCHANGED <<hubSide, reader, screen, post, stop, faults, commands,
                 failed>>

\* The cache is replaced.  A poll is signalled only if it finds something else
\* than the poll before it did; a frame or a connection always is.
StoreEntry ==
  /\ thread.pc = "store"
  /\ Keep(thread.entry)
  /\ last_poll' = IF thread.poll THEN CacheSignature(thread.entry) ELSE last_poll
  /\ Left(IF /\ thread.poll
             /\ CacheSignature(thread.entry) = last_poll
          THEN thread.next ELSE "emit")
  /\ UNCHANGED <<hubSide, reader, screen, post, stop, faults, commands,
                 failed>>

\* The sink is the engine's: it reads its source, that is the cache, unless
\* it has another source by now.
Published == IF stop THEN NoEntry ELSE CacheSignature(cache)

EmitChanged ==
  /\ thread.pc = "emit"
  /\ screen' = Published
  /\ Goto(thread.next)
  /\ UNCHANGED <<hubSide, reader, last_poll, cache, post, stop, faults,
                 commands, newest, failed>>

\* The sleep before the next attempt is the time the thread takes.
PollOnce == thread' = [thread EXCEPT !.pc = "get", !.poll = TRUE,
                                     !.next = "connect", !.entry = NoEntry]

\* The hub computes the first frame, then subscribes, then answers.
Connect ==
  /\ thread.pc = "connect"
  /\ IF stop THEN Goto("ended")
     ELSE IF up THEN thread' = [thread EXCEPT !.pc = "join",
                                      !.entry = EntryFromSnapshot(hub)]
     ELSE PollOnce
  /\ UNCHANGED <<hubSide, reader, last_poll, cache, screen, post, stop, faults,
                 commands, newest, failed>>

\* The first frame is trusted: nothing is fetched.
MutJoin ==
  /\ thread.pc = "join"
  /\ IF up
     THEN /\ conn' = "open"
          /\ rest' = Lines([event |-> "update", entry |-> thread.entry])
          /\ thread' = [thread EXCEPT !.pc = "read", !.poll = FALSE,
                                      !.next = "read", !.entry = NoEntry]
          /\ failed' = FALSE
     ELSE PollOnce /\ UNCHANGED <<conn, rest, failed>>
  /\ UNCHANGED <<hub, up, modern, queue, reader, last_poll, cache, screen,
                 post, stop, faults, commands, newest>>

\* Connected: fetch the snapshot and signal before the first frame.
Join ==
  /\ thread.pc = "join"
  /\ IF up
     THEN /\ conn' = "open"
          /\ rest' = Lines([event |-> "update", entry |-> thread.entry])
          /\ thread' = [thread EXCEPT !.pc = "get", !.poll = FALSE,
                                      !.next = "read"]
          /\ failed' = FALSE
     ELSE PollOnce /\ UNCHANGED <<conn, rest, failed>>
  /\ UNCHANGED <<hub, up, modern, queue, reader, last_poll, cache, screen,
                 post, stop, faults, commands, newest>>

\* A frame is dispatched at its blank line.  An update carries the snapshot;
\* without one, and for a lagged frame, the snapshot is fetched.
ReadLine ==
  /\ thread.pc = "read" /\ ~stop
  /\ rest # <<>>
  /\ rest' = Tail(rest)
  /\ LET field == Head(rest)[1]
         frame == Head(rest)[2]
     IN  \/ /\ field = "fields"
            /\ reader' = frame
            /\ UNCHANGED thread
         \/ /\ field = "blank"
            /\ reader' = NoFrame
            /\ thread' = IF reader.event = "update" /\ modern
                         THEN [thread EXCEPT !.pc = "store",
                                             !.entry = reader.entry]
                         ELSE [thread EXCEPT !.pc = "get"]
  /\ UNCHANGED <<hub, up, modern, conn, queue, last_poll, cache, screen, post,
                 stop, faults, commands, newest, failed>>

\* The flag is looked at between connections only.
MutEndOfStream ==
  /\ thread.pc = "read"
  /\ conn = "closed" /\ rest = <<>>
  /\ reader' = NoFrame
  /\ thread' = AtConnect
  /\ UNCHANGED <<hubSide, last_poll, cache, screen, post, stop, faults,
                 commands, newest, failed>>

\* At the end of the stream a frame that is not complete is dropped.  The hub
\* sends comments to keep the connection alive, so the flag is seen.
EndOfStream ==
  /\ thread.pc = "read"
  /\ \/ conn = "closed" /\ rest = <<>>
     \/ stop /\ (conn = "open" \/ rest # <<>>)
  /\ conn' = "closed" /\ rest' = <<>> /\ queue' = <<>>
  /\ reader' = NoFrame
  /\ thread' = AtConnect
  /\ UNCHANGED <<hub, up, modern, last_poll, cache, screen, post, stop, faults,
                 commands, newest, failed>>

\* The engine takes another source and shows that one.
DropSource ==
  /\ ~stop /\ stop' = TRUE
  /\ screen' = NoEntry
  /\ UNCHANGED <<hubSide, reader, thread, last_poll, cache, post, faults,
                 commands, newest, failed>>

-----------------------------------------------------------------------------
(***************************************************************************)
(* Commands, on a thread of their own: the engine looks in the cache, the  *)
(* source posts, caches what comes back and signals; then the engine is    *)
(* refreshed.                                                              *)
(***************************************************************************)
Command(op, i) ==
  /\ post.pc = "idle" /\ ~stop /\ commands < MaxCommands
  /\ commands' = commands + 1
  /\ post' = [NoPost EXCEPT !.pc = "post", !.op = op, !.target = i]
  /\ UNCHANGED <<hubSide, reader, thread, last_poll, cache, screen, stop,
                 faults, newest, failed>>

RemoveRemote == \E i \in Rows : Command("remove", i)

\* Nothing is posted unless a cached row is done; the hub then clears all.
ClearRemote ==
  /\ \E i \in Rows : cache.rows[i] = "done"
  /\ Command("clear", "none")

Struck(i) == \/ post.op = "remove" /\ i = post.target
             \/ post.op = "clear" /\ hub.rows[i] = "done"
Without == [i \in Rows |-> IF Struck(i) THEN "gone" ELSE hub.rows[i]]

\* The hub executes the command; the reply may be lost.
ServeCommand ==
  /\ post.pc = "post" /\ up
  /\ hub.ok
  /\ IF Without = hub.rows
     THEN hub' = hub /\ queue' = Queued(Update(hub))
     ELSE Become(TRUE, TRUE, Without)
  /\ \/ post' = [NoPost EXCEPT !.pc = IF modern THEN "store" ELSE "get",
                               !.entry = IF modern THEN EntryFromSnapshot(hub')
                                         ELSE NoEntry]
        /\ UNCHANGED faults
     \/ post' = NoPost /\ Fault
  /\ UNCHANGED <<up, modern, conn, rest, reader, thread, last_poll, cache,
                 screen, stop, commands, newest, failed>>

\* A command that fails is reported and nothing else happens.
RefuseCommand ==
  /\ post.pc = "post"
  /\ ~up \/ ~hub.ok \/ hub.at = MaxChanges
  /\ post' = NoPost
  /\ UNCHANGED <<hubSide, reader, thread, last_poll, cache, screen, stop,
                 faults, commands, newest, failed>>

\* An older hub's reply has no snapshot.
FetchReply ==
  /\ post.pc = "get"
  /\ post' = [post EXCEPT !.pc = "store", !.entry = FetchEntry]
  /\ failed' = (failed \/ ~up)
  /\ UNCHANGED <<hubSide, reader, thread, last_poll, cache, screen, stop,
                 faults, commands, newest>>

StoreReply ==
  /\ post.pc = "store"
  /\ Keep(post.entry)
  /\ post' = [post EXCEPT !.pc = "emit", !.entry = NoEntry]
  /\ UNCHANGED <<hubSide, reader, thread, last_poll, screen, stop, faults,
                 commands, failed>>

\* The source signals, then the engine is refreshed: the cache is published
\* twice, and only the second time counts.
EmitReply ==
  /\ post.pc = "emit"
  /\ screen' = Published
  /\ post' = NoPost
  /\ UNCHANGED <<hubSide, reader, thread, last_poll, cache, stop, faults,
                 commands, newest, failed>>

-----------------------------------------------------------------------------
StreamLoop ==
  \/ Get \/ StoreEntry \/ EmitChanged \/ Connect \/ Join \/ ReadLine
  \/ EndOfStream
CommandSteps ==
  \/ ServeCommand \/ RefuseCommand \/ FetchReply \/ StoreReply \/ EmitReply

ClientNext ==
  \/ HubChange \/ HubDown \/ HubUp \/ StreamLost \/ Send
  \/ StreamLoop
  \/ DropSource
  \/ RemoveRemote \/ ClearRemote \/ CommandSteps

ClientFairness ==
  /\ WF_clientVars(StreamLoop)
  /\ WF_clientVars(Send)
  /\ WF_clientVars(CommandSteps)

ClientSpec == ClientInit /\ [][ClientNext]_clientVars /\ ClientFairness

-----------------------------------------------------------------------------
Current(entry) == CacheSignature(entry) = CacheSignature(EntryFromSnapshot(hub))
Overtaken == cache.at < newest

\* A stream that is open and drained leaves the cache behind the hub in one
\* way only: something older, the first frame or the reply of a command,
\* replaced something newer, unless a fetch failed on this connection.  No
\* update is lost between the fetch and the frames.
OnlyOvertakenIsStale ==
  /\ thread.pc = "read" /\ conn = "open" /\ rest = <<>> /\ queue = <<>>
  => Current(cache) \/ Overtaken \/ failed

\* Once hub and network settle, what is shown is what the hub has, with the
\* same exceptions, and nothing is cached that is not shown.
Converged ==
  up /\ conn # "dead" /\ ~stop =>
    /\ screen = CacheSignature(cache)
    /\ Current(cache) \/ Overtaken \/ failed
ClientConverges == <>[]Converged

\* The thread of a source that was dropped ends, however its stream stands,
\* unless the network never reports the connection as lost.
DroppedEnds == stop ~> (thread.pc = "ended" \/ conn = "dead")

\* A hub that cannot be reached says so.
UnreachableIsShown ==
  ~up /\ conn = "closed" ~> up \/ stop \/ screen.health = "unreachable"

=============================================================================
