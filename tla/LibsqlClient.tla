---------------------------- MODULE LibsqlClient ----------------------------
(***************************************************************************)
(* Clients of one local database file (stores/libsql.ts: lazyLibsqlClient), *)
(* in one process or in several. A client opens on its first call; the      *)
(* calls of a process that may write take turns, whichever client they come *)
(* from; reads on an open client go past them once the file has a           *)
(* write-ahead log. What a call does there is not looked at.               *)
(*                                                                         *)
(* SQLite's part is external: one writer at a time, and whoever finds one   *)
(* waits, with the event loop of its process, and is refused in the end;    *)
(* without the log readers and writers keep one another out.               *)
(***************************************************************************)
EXTENDS Naturals, SequencesExt

CONSTANTS
  Clients,
  ProcessOf,    \* the process of each client
  MaxCalls      \* bound on the calls under way, for model checking

ASSUME ClientAssumption == DOMAIN ProcessOf = Clients /\ MaxCalls \in Nat

Calls == 1 .. MaxCalls

VARIABLES
  journal,      \* of the file: "delete" or "wal"
  reachesWal,   \* whether its file system lets it have a write-ahead log
  ready,        \* of each client: "none", "opening", "open" or "failed"
  wal,          \* what each was told of the journal when it opened
  line,         \* queued calls, of each process
  call,         \* what is asked, and of whom
  stage,        \* where it is
  waitsFor,     \* calls a close has to outlive
  handle        \* of each client: "live", "closing" or "closed"

file == <<journal, reachesWal>>
connections == <<ready, wal, handle>>
clientVars == <<file, connections, line, call, stage, waitsFor>>

NoCall == [mode |-> "none"]
Requests == [client : Clients, mode : {"read", "write"}]

LibsqlTypeOK ==
  /\ journal = "wal" => reachesWal
  /\ ready \in [Clients -> {"none", "opening", "open", "failed"}]
  /\ handle \in [Clients -> {"live", "closing", "closed"}]
  /\ stage \in [Calls -> {"idle", "joining", "queued", "opening", "writing", "reading"}]
  /\ call \in [Calls -> Requests \cup {NoCall}]
  /\ \A s \in Calls : call[s] = NoCall <=> stage[s] = "idle"
  /\ \A b \in Clients : wal[b] => ready[b] = "open" /\ journal = "wal"

LibsqlInit ==
  /\ journal = "delete" /\ reachesWal \in BOOLEAN
  /\ ready = [b \in Clients |-> "none"]
  /\ wal = [b \in Clients |-> FALSE]
  /\ line = [p \in {ProcessOf[b] : b \in Clients} \cup Clients |-> <<>>]
  /\ call = [s \in Calls |-> NoCall]
  /\ stage = [s \in Calls |-> "idle"]
  /\ waitsFor = [b \in Clients |-> {}]
  /\ handle = [b \in Clients |-> "live"]

-----------------------------------------------------------------------------
(***************************************************************************)
(* run(): which way a call goes, and what it leaves.                       *)
(***************************************************************************)
\* A line for each client.
LineOfClient(b) == b

LineOf(b) == ProcessOf[b]

Client(s) == call[s].client
Reads(s) == call[s].mode = "read"
AtHead(s) == line[LineOf(Client(s))] # <<>> /\ line[LineOf(Client(s))][1] = s
Due(s) == stage[s] = "queued" /\ AtHead(s)

Of(b) == {s \in Calls : stage[s] # "idle" /\ Client(s) = b}

To(s, new) == stage' = [stage EXCEPT ![s] = new] /\ UNCHANGED <<call, waitsFor>>

Settled(s) ==
  /\ call' = [call EXCEPT ![s] = NoCall]
  /\ stage' = [stage EXCEPT ![s] = "idle"]
  /\ waitsFor' = [b \in Clients |-> waitsFor[b] \ {s}]

\* A queue that goes on from what succeeded.
LeaveInPlace(s) == UNCHANGED line

\* A call that is in a line leaves it from its head; a read that went past the
\* queue is in none.
Without(s) ==
  [q \in DOMAIN line |->
     IF line[q] # <<>> /\ line[q][1] = s THEN Tail(line[q]) ELSE line[q]]

LeaveLine(s) == line' = Without(s)

Resolve(s) == Settled(s) /\ line' = Without(s)

Reject(s) == Settled(s) /\ LeaveLine(s)

\* The first call of a client queues whatever its mode: it opens the client.
Direct(request) == request.mode = "read" /\ ready[request.client] # "none"

Run(s, request) ==   \* s is only a place to keep it: the first that is idle
  /\ stage[s] = "idle" /\ \A t \in 1 .. s - 1 : stage[t] # "idle"
  /\ handle[request.client] = "live"
  /\ call' = [call EXCEPT ![s] = request]
  /\ IF Direct(request)
     THEN stage' = [stage EXCEPT ![s] = "joining"] /\ UNCHANGED line
     ELSE /\ stage' = [stage EXCEPT ![s] = "queued"]
          /\ line' = [line EXCEPT ![LineOf(request.client)] = Append(@, s)]
  /\ UNCHANGED <<file, connections, waitsFor>>

\* A read that went past the queue reads at once, or queues after all.
Join(s) ==
  /\ stage[s] = "joining" /\ ready[Client(s)] = "open"
  /\ IF wal[Client(s)]
     THEN To(s, "reading") /\ UNCHANGED line
     ELSE To(s, "queued") /\ line' = [line EXCEPT ![LineOf(Client(s))] = Append(@, s)]
  /\ UNCHANGED <<file, connections>>

-----------------------------------------------------------------------------
(***************************************************************************)
(* connect(): moves the journal and creates the schema. What came of it is  *)
(* kept, a failure too.                                                    *)
(***************************************************************************)
InTheWay(s) ==
  {t \in Calls \ {s} :
     \/ stage[t] \in {"opening", "writing"}
     \/ journal = "delete" /\ stage[t] = "reading"}

Opens(s) == Due(s) /\ ready[Client(s)] = "none"

BeginOpen(s) ==
  /\ Opens(s) /\ InTheWay(s) = {}
  /\ ready' = [ready EXCEPT ![Client(s)] = "opening"]
  /\ To(s, "opening")
  /\ UNCHANGED <<file, wal, handle, line>>

Reached == reachesWal

Opened(s) ==
  /\ stage[s] = "opening"
  /\ journal' = IF reachesWal THEN "wal" ELSE "delete"
  /\ ready' = [ready EXCEPT ![Client(s)] = "open"]
  /\ wal' = [wal EXCEPT ![Client(s)] = Reached]
  /\ To(s, "queued")
  /\ UNCHANGED <<reachesWal, handle, line>>

\* No package, no file, or SQLite busy with another process.
OpenFails(s) ==
  /\ Opens(s) \/ stage[s] = "opening"
  /\ ready' = [ready EXCEPT ![Client(s)] = "failed"]
  /\ Reject(s)
  /\ UNCHANGED <<file, wal, handle>>

NeverOpened(s) ==
  /\ stage[s] = "joining" \/ Due(s)
  /\ ready[Client(s)] = "failed"
  /\ Reject(s)
  /\ UNCHANGED <<file, connections>>

-----------------------------------------------------------------------------
(***************************************************************************)
(* The operation itself: a write has the file, a read its caller's time.   *)
(***************************************************************************)
Writes(s) == Due(s) /\ ready[Client(s)] = "open" /\ ~Reads(s)

Begin(s) ==
  /\ Due(s) /\ ready[Client(s)] = "open"
  /\ \/ Reads(s) /\ To(s, "reading")
     \/ ~Reads(s) /\ InTheWay(s) = {} /\ To(s, "writing")
  /\ UNCHANGED <<file, connections, line>>

Return(s) ==
  /\ stage[s] \in {"reading", "writing"}
  /\ Resolve(s)
  /\ UNCHANGED <<file, connections>>

\* The operation throws, or waited for SQLite too long.
Throw(s) ==
  /\ stage[s] \in {"reading", "writing"} \/ (Writes(s) /\ InTheWay(s) # {})
  /\ Reject(s)
  /\ UNCHANGED <<file, connections>>

-----------------------------------------------------------------------------
(***************************************************************************)
(* close(): refuses what comes, outlives what is there.                    *)
(***************************************************************************)
\* A close that waits for the queue alone.
OutlivedQueued(b) == {s \in Of(b) : Contains(line[LineOf(b)], s)}

Outlived(b) == Of(b)

Close(b) ==
  /\ handle[b] = "live"
  /\ handle' = [handle EXCEPT ![b] = "closing"]
  /\ waitsFor' = [waitsFor EXCEPT ![b] = Outlived(b)]
  /\ UNCHANGED <<file, ready, wal, line, call, stage>>

CloseEnds(b) ==
  /\ handle[b] = "closing" /\ waitsFor[b] = {}
  /\ handle' = [handle EXCEPT ![b] = "closed"]
  /\ UNCHANGED <<file, ready, wal, line, call, stage, waitsFor>>

Advance(s) ==
  \/ Join(s) \/ BeginOpen(s) \/ Opened(s) \/ OpenFails(s) \/ NeverOpened(s)
  \/ Begin(s) \/ Return(s) \/ Throw(s)

LibsqlNext ==
  \/ \E s \in Calls, request \in Requests : Run(s, request)
  \/ \E s \in Calls : Advance(s)
  \/ \E b \in Clients : Close(b) \/ CloseEnds(b)

\* Promises settle: a call goes on while it can, and so does a close. Nobody
\* has to call.
LibsqlFairness ==
  /\ \A s \in Calls : WF_clientVars(Advance(s))
  /\ \A b \in Clients : WF_clientVars(CloseEnds(b))

LibsqlSpec == LibsqlInit /\ [][LibsqlNext]_clientVars /\ LibsqlFairness

-----------------------------------------------------------------------------
\* A call that has SQLite's lock or is about to ask for it.
Locking(s) == stage[s] \in {"opening", "writing"} \/ Opens(s) \/ Writes(s)

\* Whoever waits for SQLite stops the event loop of its process, so nobody may
\* wait there for a call of its own process, of whichever client: neither could
\* go on.
NobodyBlocksItsOwnProcess ==
  \A s \in Calls : Locking(s) =>
    \A t \in InTheWay(s) : ProcessOf[Client(t)] # ProcessOf[Client(s)]

\* A connection is closed under no call, not even under a read that was past
\* the queue when close was called, or has gone back into it since.
CloseOutlivesWork ==
  \A b \in Clients : handle[b] = "closed" => Of(b) = {}

\* Every call comes to an end, whatever became of those queued before it, and
\* so does every close.
EverythingReturns ==
  /\ \A s \in Calls : []<>(stage[s] = "idle")
  /\ \A b \in Clients : handle[b] = "closing" ~> handle[b] = "closed"
=============================================================================
