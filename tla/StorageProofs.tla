--------------------------- MODULE StorageProofs ----------------------------
(***************************************************************************)
(* Clients of one database file never stand in each other's way within a    *)
(* process, and are closed under no call: for any number of clients, of     *)
(* processes and of calls. And credentials in files are kept as the port    *)
(* promises, whatever is left of an old release and wherever the process    *)
(* dies.                                                                   *)
(***************************************************************************)
EXTENDS LibsqlClient, FileCredentials, TLAPS

USE ClientAssumption

(***************************************************************************)
(* The invariant: whoever has the file, or keeps others from it, is at the  *)
(* head of its process's line, where no second call can be.                *)
(***************************************************************************)
Lines == {ProcessOf[b] : b \in Clients} \cup Clients

Shapes ==
  /\ reachesWal \in BOOLEAN
  /\ journal \in {"delete", "wal"}
  /\ wal \in [Clients -> BOOLEAN]
  /\ line \in [Lines -> Seq(Calls)]
  /\ waitsFor \in [Clients -> SUBSET Calls]

\* Without the log a reader keeps others from the file too.
HasFile(s) ==
  \/ stage[s] \in {"opening", "writing"}
  \/ stage[s] = "reading" /\ journal = "delete"

HeadsWork ==
  \A s \in Calls :
    /\ HasFile(s) => AtHead(s)
    /\ stage[s] = "opening" => ready[Client(s)] = "opening"

ClosesWait ==
  \A b \in Clients : handle[b] = "closing" => Of(b) \subseteq waitsFor[b]

LineInv == Shapes /\ LibsqlTypeOK /\ HeadsWork

CloseInv == LineInv /\ ClosesWait /\ CloseOutlivesWork

-----------------------------------------------------------------------------
\* A call that is under way has a client and a mode.
LEMMA CallIsARequest ==
  ASSUME LibsqlTypeOK, NEW s \in Calls, stage[s] # "idle"
  PROVE  /\ call[s] \in Requests /\ Client(s) \in Clients
         /\ LineOf(Client(s)) \in Lines
BY DEF LibsqlTypeOK, Requests, Client, LineOf, Lines

\* Two calls cannot both be at the head of their process's line.
LEMMA OneHead ==
  ASSUME NEW s \in Calls, NEW t \in Calls, AtHead(s), AtHead(t),
         LineOf(Client(s)) = LineOf(Client(t))
  PROVE  s = t
BY DEF AtHead

LEMMA InitLine == LibsqlInit => CloseInv
<1> SUFFICES ASSUME LibsqlInit PROVE CloseInv
  OBVIOUS
<1> USE DEF LibsqlInit
<1>1. Shapes
  <2>1. line \in [Lines -> Seq(Calls)]
    BY DEF Lines
  <2>2. waitsFor \in [Clients -> SUBSET Calls]
    OBVIOUS
  <2> QED BY <2>1, <2>2 DEF Shapes
<1>2. LibsqlTypeOK
  BY DEF LibsqlTypeOK, NoCall
<1>3. HeadsWork
  BY DEF HeadsWork, HasFile
<1>4. ClosesWait /\ CloseOutlivesWork
  BY DEF ClosesWait, CloseOutlivesWork
<1> QED BY <1>1, <1>2, <1>3, <1>4 DEF CloseInv, LineInv

-----------------------------------------------------------------------------
(***************************************************************************)
(* How the lines move.                                                     *)
(***************************************************************************)
\* Leaving keeps the lines, and every other head where it is.
LEMMA LeavingKeepsHeads ==
  ASSUME LineInv, NEW s \in Calls, line' = Without(s)
  PROVE  /\ line' \in [Lines -> Seq(Calls)]
         /\ \A q \in Lines : line[q] # <<>> /\ line[q][1] # s => line'[q] = line[q]
<1> USE DEF LineInv, Shapes, Without
<1>1. \A q \in Lines : line[q] \in Seq(Calls)
  OBVIOUS
<1>2. \A q \in Lines : line[q] # <<>> => Tail(line[q]) \in Seq(Calls)
  BY <1>1
<1>3. DOMAIN line = Lines
  OBVIOUS
<1> QED BY <1>1, <1>2, <1>3

\* Who comes goes to the end, so that a line with a head keeps it.
LEMMA ComingKeepsHeads ==
  ASSUME LineInv, NEW s \in Calls, NEW p \in Lines,
         line' = [line EXCEPT ![p] = Append(@, s)]
  PROVE  /\ line' \in [Lines -> Seq(Calls)]
         /\ \A q \in Lines : line[q] # <<>> => line'[q] # <<>> /\ line'[q][1] = line[q][1]
<1> USE DEF LineInv, Shapes
<1>1. line[p] \in Seq(Calls) /\ Append(line[p], s) \in Seq(Calls)
  OBVIOUS
<1>2. line' \in [Lines -> Seq(Calls)]
  BY <1>1
<1>3. ASSUME line[p] # <<>>
      PROVE  Append(line[p], s) # <<>> /\ Append(line[p], s)[1] = line[p][1]
  BY <1>1, <1>3
<1>4. ASSUME NEW q \in Lines, line[q] # <<>>
      PROVE  line'[q] # <<>> /\ line'[q][1] = line[q][1]
  <2>1. CASE q = p
    BY <2>1, <1>3, <1>4
  <2>2. CASE q # p
    BY <2>2, <1>4
  <2> QED BY <2>1, <2>2
<1> QED BY <1>2, <1>4

\* A call that settles leaves every other where it is.
LEMMA SettlingKeepsLine ==
  ASSUME LineInv, NEW s \in Calls, stage[s] # "idle", Settled(s), line' = Without(s),
         ready' \in [Clients -> {"none", "opening", "open", "failed"}],
         \A b \in Clients : ready'[b] = ready[b]
           \/ (b = Client(s) /\ (stage[s] = "opening" \/ AtHead(s)) /\ ready[b] # "open"),
         UNCHANGED <<file, wal, handle>>
  PROVE  LineInv'
<1> USE DEF LineInv
<1> DEFINE b == Client(s)
<1>1. b \in Clients
  BY CallIsARequest
<1>2. Shapes'
  BY LeavingKeepsHeads DEF Shapes, Settled, file
<1>3. LibsqlTypeOK'
  <2>1. call' \in [Calls -> Requests \cup {NoCall}]
        /\ stage' \in [Calls -> {"idle", "joining", "queued", "opening", "writing", "reading"}]
    BY DEF LibsqlTypeOK, Settled
  <2>2. \A t \in Calls : call'[t] = NoCall <=> stage'[t] = "idle"
    BY DEF LibsqlTypeOK, Settled
  <2>3. \A c \in Clients : wal'[c] => ready'[c] = "open" /\ journal' = "wal"
    BY DEF LibsqlTypeOK, file
  <2> QED BY <2>1, <2>2, <2>3 DEF LibsqlTypeOK, file
<1>4. HeadsWork'
  <2> SUFFICES ASSUME NEW t \in Calls
               PROVE  /\ HasFile(t)' => AtHead(t)'
                      /\ stage'[t] = "opening" => ready'[Client(t)'] = "opening"
    BY DEF HeadsWork
  <2>1. CASE t = s
    BY <2>1 DEF Settled, LibsqlTypeOK, HasFile
  <2>2. CASE t # s
    <3>1. stage'[t] = stage[t] /\ call'[t] = call[t]
      BY <2>2 DEF Settled, LibsqlTypeOK
    <3>2. ASSUME HasFile(t)' PROVE AtHead(t)'
      <4>1. HasFile(t) /\ AtHead(t)
        BY <3>1, <3>2 DEF HasFile, HeadsWork, file
      <4>2. stage[t] # "idle" /\ LineOf(Client(t)) \in Lines
        BY <4>1, CallIsARequest DEF HasFile
      <4>3. line'[LineOf(Client(t))] = line[LineOf(Client(t))]
        BY <4>1, <4>2, <2>2, LeavingKeepsHeads DEF AtHead
      <4> QED BY <4>1, <4>3, <3>1 DEF AtHead, Client
    <3>3. ASSUME stage'[t] = "opening" PROVE ready'[Client(t)'] = "opening"
      <4>1. stage[t] = "opening" /\ AtHead(t) /\ ready[Client(t)] = "opening"
        BY <3>1, <3>3 DEF HeadsWork, HasFile
      <4>2. Client(t) \in Clients /\ Client(t)' = Client(t)
        BY <4>1, <3>1, CallIsARequest DEF Client
      <4>3. ASSUME Client(t) = b PROVE ~AtHead(s) /\ stage[s] # "opening"
        BY <4>1, <4>3, <2>2, OneHead DEF HeadsWork, HasFile
      <4> QED BY <4>1, <4>2, <4>3
    <3> QED BY <3>2, <3>3
  <2> QED BY <2>1, <2>2
<1> QED BY <1>2, <1>3, <1>4

\* A call that goes to another stage, and not to the file unless it is at the
\* head of its line.
LEMMA MovingKeepsLine ==
  ASSUME LineInv, NEW s \in Calls, stage[s] # "idle",
         NEW new \in {"queued", "opening", "writing", "reading"}, To(s, new),
         new \in {"opening", "writing"} \/ (new = "reading" /\ journal' = "delete") => AtHead(s)',
         new = "opening" => ready'[Client(s)] = "opening",
         line' \in [Lines -> Seq(Calls)],
         \A q \in Lines : line[q] # <<>> => line'[q] # <<>> /\ line'[q][1] = line[q][1],
         journal' \in {"delete", "wal"}, journal = "wal" => journal' = "wal",
         journal' = "wal" => reachesWal,
         ready' \in [Clients -> {"none", "opening", "open", "failed"}],
         wal' \in [Clients -> BOOLEAN],
         \A b \in Clients : wal'[b] => ready'[b] = "open" /\ journal' = "wal",
         \A b \in Clients : ready'[b] = ready[b] \/ (b = Client(s) /\ AtHead(s)),
         UNCHANGED <<reachesWal, handle>>
  PROVE  LineInv'
<1> USE DEF LineInv
<1>1. Shapes'
  BY DEF Shapes, To
<1>2. LibsqlTypeOK'
  <2>1. stage' \in [Calls -> {"idle", "joining", "queued", "opening", "writing", "reading"}]
    BY DEF LibsqlTypeOK, To
  <2>2. \A t \in Calls : call'[t] = NoCall <=> stage'[t] = "idle"
    BY DEF LibsqlTypeOK, To
  <2>3. call' = call
    BY DEF To
  <2> QED BY <2>1, <2>2, <2>3 DEF LibsqlTypeOK
<1>3. HeadsWork'
  <2> SUFFICES ASSUME NEW t \in Calls
               PROVE  /\ HasFile(t)' => AtHead(t)'
                      /\ stage'[t] = "opening" => ready'[Client(t)'] = "opening"
    BY DEF HeadsWork
  <2>0. Client(t)' = Client(t)
    BY DEF To, Client
  <2>1. CASE t = s
    BY <2>0, <2>1 DEF To, LibsqlTypeOK, HasFile
  <2>2. CASE t # s
    <3>1. stage'[t] = stage[t]
      BY <2>2 DEF To, LibsqlTypeOK
    <3>2. ASSUME HasFile(t)' PROVE AtHead(t)'
      <4>1. HasFile(t) /\ AtHead(t)
        BY <3>1, <3>2 DEF HasFile, HeadsWork, Shapes
      <4>2. LineOf(Client(t)) \in Lines
        BY <4>1, CallIsARequest DEF HasFile
      <4> QED BY <4>1, <4>2, <2>0 DEF AtHead, LineOf
    <3>3. ASSUME stage'[t] = "opening" PROVE ready'[Client(t)'] = "opening"
      <4>1. stage[t] = "opening" /\ AtHead(t) /\ ready[Client(t)] = "opening"
        BY <3>1, <3>3 DEF HeadsWork, HasFile
      <4>2. Client(t) \in Clients
        BY <4>1, CallIsARequest
      <4>3. Client(t) = Client(s) => ~AtHead(s)
        BY <4>1, <2>2, OneHead
      <4> QED BY <4>1, <4>2, <4>3, <2>0
    <3> QED BY <3>2, <3>3
  <2> QED BY <2>1, <2>2
<1> QED BY <1>1, <1>2, <1>3

-----------------------------------------------------------------------------
(***************************************************************************)
(* The steps.                                                              *)
(***************************************************************************)
LEMMA RunKeepsLine ==
  ASSUME LineInv, NEW s \in Calls, NEW request \in Requests, Run(s, request)
  PROVE  LineInv'
<1> USE DEF LineInv
<1> DEFINE p == LineOf(request.client)
<1>1. request.client \in Clients /\ request # NoCall /\ p \in Lines
  BY DEF Requests, NoCall, LineOf, Lines
<1>2. call' = [call EXCEPT ![s] = request] /\ stage[s] = "idle"
  BY DEF Run
<1>3. \E new \in {"joining", "queued"} : stage' = [stage EXCEPT ![s] = new]
  BY DEF Run
<1>4. UNCHANGED <<file, connections, waitsFor>>
  BY DEF Run
<1>5. line' = line \/ line' = [line EXCEPT ![p] = Append(@, s)]
  BY DEF Run
<1>6. line' \in [Lines -> Seq(Calls)]
  <2>1. CASE line' = line
    BY <2>1 DEF Shapes
  <2>2. CASE line' = [line EXCEPT ![p] = Append(@, s)]
    BY <2>2, <1>1, ComingKeepsHeads
  <2> QED BY <1>5, <2>1, <2>2
<1>7. \A q \in Lines : line[q] # <<>> => line'[q] # <<>> /\ line'[q][1] = line[q][1]
  <2>1. CASE line' = line
    BY <2>1
  <2>2. CASE line' = [line EXCEPT ![p] = Append(@, s)]
    BY <2>2, <1>1, ComingKeepsHeads
  <2> QED BY <1>5, <2>1, <2>2
<1>8. Shapes'
  BY <1>4, <1>6 DEF Shapes, file, connections
<1>9. LibsqlTypeOK'
  <2>1. stage' \in [Calls -> {"idle", "joining", "queued", "opening", "writing", "reading"}]
    BY <1>3 DEF LibsqlTypeOK
  <2>2. call' \in [Calls -> Requests \cup {NoCall}]
    BY <1>2 DEF LibsqlTypeOK
  <2>3. \A t \in Calls : call'[t] = NoCall <=> stage'[t] = "idle"
    BY <1>1, <1>2, <1>3 DEF LibsqlTypeOK
  <2> QED BY <1>4, <2>1, <2>2, <2>3 DEF LibsqlTypeOK, file, connections
<1>10. HeadsWork'
  <2> SUFFICES ASSUME NEW t \in Calls
               PROVE  /\ HasFile(t)' => AtHead(t)'
                      /\ stage'[t] = "opening" => ready'[Client(t)'] = "opening"
    BY DEF HeadsWork
  <2>1. CASE t = s
    BY <2>1, <1>3 DEF LibsqlTypeOK, HasFile
  <2>2. CASE t # s
    <3>1. stage'[t] = stage[t] /\ Client(t)' = Client(t)
      BY <2>2, <1>2, <1>3 DEF LibsqlTypeOK, Client
    <3>2. ASSUME HasFile(t)' PROVE AtHead(t)'
      <4>1. HasFile(t) /\ AtHead(t)
        BY <3>1, <3>2, <1>4 DEF HasFile, HeadsWork, file
      <4>2. LineOf(Client(t)) \in Lines
        BY <4>1, CallIsARequest DEF HasFile
      <4> QED BY <4>1, <4>2, <3>1, <1>7 DEF AtHead, LineOf
    <3> QED BY <3>1, <3>2, <1>4 DEF HeadsWork, connections
  <2> QED BY <2>1, <2>2
<1> QED BY <1>8, <1>9, <1>10

LEMMA JoinKeepsLine ==
  ASSUME LineInv, NEW s \in Calls, Join(s)
  PROVE  LineInv'
<1> USE DEF LineInv
<1>1. stage[s] # "idle" /\ Client(s) \in Clients /\ LineOf(Client(s)) \in Lines
  BY CallIsARequest DEF Join
<1>2. UNCHANGED <<file, connections>> /\ reachesWal' = reachesWal /\ journal' = journal
      /\ ready' = ready /\ wal' = wal /\ handle' = handle
  BY DEF Join, file, connections
<1>3. CASE wal[Client(s)]
  <2>1. journal = "wal" /\ To(s, "reading") /\ line' = line
    BY <1>1, <1>3 DEF Join, LibsqlTypeOK
  <2> QED BY <1>1, <1>2, <2>1, MovingKeepsLine DEF LibsqlTypeOK, Shapes
<1>4. CASE ~wal[Client(s)]
  <2>1. To(s, "queued") /\ line' = [line EXCEPT ![LineOf(Client(s))] = Append(@, s)]
    BY <1>4 DEF Join
  <2>2. /\ line' \in [Lines -> Seq(Calls)]
        /\ \A q \in Lines : line[q] # <<>> => line'[q] # <<>> /\ line'[q][1] = line[q][1]
    BY <1>1, <2>1, ComingKeepsHeads
  <2> QED BY <1>1, <1>2, <2>1, <2>2, MovingKeepsLine DEF LibsqlTypeOK, Shapes
<1> QED BY <1>3, <1>4

LEMMA BeginOpenKeepsLine ==
  ASSUME LineInv, NEW s \in Calls, BeginOpen(s)
  PROVE  LineInv'
<1> USE DEF LineInv
<1>1. stage[s] = "queued" /\ AtHead(s) /\ ready[Client(s)] = "none"
  BY DEF BeginOpen, Opens, Due
<1>2. Client(s) \in Clients
  BY <1>1, CallIsARequest
<1>3. ready' = [ready EXCEPT ![Client(s)] = "opening"] /\ To(s, "opening")
      /\ UNCHANGED <<reachesWal, handle>> /\ journal' = journal /\ wal' = wal /\ line' = line
  BY DEF BeginOpen, file
<1>4. ready' \in [Clients -> {"none", "opening", "open", "failed"}]
      /\ ready'[Client(s)] = "opening"
      /\ \A b \in Clients : ready'[b] = ready[b] \/ (b = Client(s) /\ AtHead(s))
  BY <1>1, <1>2, <1>3 DEF LibsqlTypeOK
<1>5. \A b \in Clients : wal'[b] => ready'[b] = "open" /\ journal' = "wal"
  BY <1>1, <1>2, <1>3 DEF LibsqlTypeOK
<1>6. AtHead(s)'
  BY <1>1, <1>3 DEF AtHead, Client, To
<1> QED BY <1>1, <1>3, <1>4, <1>5, <1>6, MovingKeepsLine DEF LibsqlTypeOK, Shapes

LEMMA OpenedKeepsLine ==
  ASSUME LineInv, NEW s \in Calls, Opened(s)
  PROVE  LineInv'
<1> USE DEF LineInv
<1>1. stage[s] = "opening" /\ AtHead(s) /\ ready[Client(s)] = "opening"
  BY DEF Opened, HeadsWork, HasFile
<1>2. Client(s) \in Clients
  BY <1>1, CallIsARequest
<1>3. To(s, "queued") /\ line' = line /\ UNCHANGED <<reachesWal, handle>>
      /\ ready' = [ready EXCEPT ![Client(s)] = "open"]
      /\ wal' = [wal EXCEPT ![Client(s)] = reachesWal]
      /\ journal' = IF reachesWal THEN "wal" ELSE "delete"
  BY DEF Opened, Reached
<1>4. journal' \in {"delete", "wal"} /\ (journal = "wal" => journal' = "wal")
      /\ (journal' = "wal" => reachesWal)
  BY <1>3 DEF LibsqlTypeOK, Shapes
<1>5. ready' \in [Clients -> {"none", "opening", "open", "failed"}]
      /\ \A b \in Clients : ready'[b] = ready[b] \/ (b = Client(s) /\ AtHead(s))
  BY <1>1, <1>2, <1>3 DEF LibsqlTypeOK
<1>6. wal' \in [Clients -> BOOLEAN]
  BY <1>2, <1>3 DEF Shapes
<1>7. ASSUME NEW b \in Clients, wal'[b] PROVE ready'[b] = "open" /\ journal' = "wal"
  <2>1. CASE b = Client(s)
    <3>1. wal'[b] = reachesWal /\ ready'[b] = "open"
      BY <1>2, <1>3, <2>1 DEF Shapes, LibsqlTypeOK
    <3> QED BY <3>1, <1>3, <1>7
  <2>2. CASE b # Client(s)
    <3>1. wal'[b] = wal[b] /\ ready'[b] = ready[b]
      BY <1>2, <1>3, <2>2 DEF Shapes, LibsqlTypeOK
    <3> QED BY <3>1, <1>4, <1>7 DEF LibsqlTypeOK
  <2> QED BY <2>1, <2>2
<1> QED BY <1>1, <1>3, <1>4, <1>5, <1>6, <1>7, MovingKeepsLine DEF Shapes

LEMMA BeginKeepsLine ==
  ASSUME LineInv, NEW s \in Calls, Begin(s)
  PROVE  LineInv'
<1> USE DEF LineInv
<1>1. stage[s] = "queued" /\ AtHead(s)
  BY DEF Begin, Due
<1>2. \E new \in {"reading", "writing"} : To(s, new)
  BY DEF Begin
<1>3. reachesWal' = reachesWal /\ journal' = journal /\ ready' = ready /\ wal' = wal
      /\ handle' = handle /\ line' = line
  BY DEF Begin, file, connections
<1>4. AtHead(s)'
  BY <1>1, <1>2, <1>3 DEF AtHead, Client, To
<1> QED BY <1>1, <1>2, <1>3, <1>4, MovingKeepsLine DEF LibsqlTypeOK, Shapes

\* A call that ends, whether it comes to a result or not.
Ends(s) == OpenFails(s) \/ NeverOpened(s) \/ Return(s) \/ Throw(s)

LEMMA EndsSettle ==
  ASSUME LineInv, NEW s \in Calls, Ends(s)
  PROVE  stage[s] # "idle" /\ Settled(s) /\ line' = Without(s) /\ UNCHANGED <<file, wal, handle>>
BY DEF Ends, OpenFails, NeverOpened, Return, Throw, Opens, Writes, Due, Reject, Resolve,
       LeaveLine, connections

LEMMA EndKeepsLine ==
  ASSUME LineInv, NEW s \in Calls, Ends(s)
  PROVE  LineInv'
<1> USE DEF LineInv
<1>1. stage[s] # "idle" /\ Settled(s) /\ line' = Without(s) /\ UNCHANGED <<file, wal, handle>>
  BY EndsSettle
<1>2. Client(s) \in Clients
  BY <1>1, CallIsARequest
<1>3. CASE OpenFails(s)
  <2>1. ready' = [ready EXCEPT ![Client(s)] = "failed"]
    BY <1>3 DEF OpenFails
  <2>2. ready[Client(s)] # "open" /\ (stage[s] = "opening" \/ AtHead(s))
    BY <1>3 DEF OpenFails, Opens, Due, HeadsWork
  <2>3. ready' \in [Clients -> {"none", "opening", "open", "failed"}]
    BY <2>1 DEF LibsqlTypeOK
  <2>4. \A b \in Clients : ready'[b] = ready[b]
          \/ (b = Client(s) /\ (stage[s] = "opening" \/ AtHead(s)) /\ ready[b] # "open")
    BY <2>1, <2>2 DEF LibsqlTypeOK
  <2> QED BY <1>1, <2>3, <2>4, SettlingKeepsLine
<1>4. CASE NeverOpened(s) \/ Return(s) \/ Throw(s)
  <2>1. ready' = ready
    BY <1>4 DEF NeverOpened, Return, Throw, connections
  <2> QED BY <1>1, <2>1, SettlingKeepsLine DEF LibsqlTypeOK
<1> QED BY <1>3, <1>4 DEF Ends

LEMMA CloseKeepsLine ==
  ASSUME LineInv, NEW b \in Clients, Close(b) \/ CloseEnds(b)
  PROVE  LineInv'
<1> USE DEF LineInv
<1>1. UNCHANGED <<file, ready, wal, line, call, stage>>
  BY DEF Close, CloseEnds
<1>2. waitsFor' \in [Clients -> SUBSET Calls]
  BY DEF Close, CloseEnds, Shapes, Outlived, Of
<1>3. handle' \in [Clients -> {"live", "closing", "closed"}]
  BY DEF Close, CloseEnds, LibsqlTypeOK
<1>4. Shapes' /\ LibsqlTypeOK'
  BY <1>1, <1>2, <1>3 DEF Shapes, LibsqlTypeOK, file
<1>5. HeadsWork'
  BY <1>1 DEF HeadsWork, HasFile, AtHead, Client, file
<1> QED BY <1>4, <1>5

LEMMA NextKeepsLine == LineInv /\ [LibsqlNext]_clientVars => LineInv'
<1> SUFFICES ASSUME LineInv, [LibsqlNext]_clientVars PROVE LineInv'
  OBVIOUS
<1>1. CASE \E s \in Calls, request \in Requests : Run(s, request)
  BY <1>1, RunKeepsLine
<1>2. CASE \E s \in Calls : Advance(s)
  BY <1>2, JoinKeepsLine, BeginOpenKeepsLine, OpenedKeepsLine, BeginKeepsLine, EndKeepsLine
     DEF Advance, Ends
<1>3. CASE \E b \in Clients : Close(b) \/ CloseEnds(b)
  BY <1>3, CloseKeepsLine
<1>4. CASE UNCHANGED clientVars
  <2>1. UNCHANGED <<journal, reachesWal, ready, wal, handle, line, call, stage, waitsFor>>
    BY <1>4 DEF clientVars, file, connections
  <2> QED BY <1>4, <2>1 DEF LineInv, Shapes, LibsqlTypeOK, HeadsWork, HasFile, AtHead, Client
<1> QED BY <1>1, <1>2, <1>3, <1>4 DEF LibsqlNext

-----------------------------------------------------------------------------
(***************************************************************************)
(* What the line is for.                                                   *)
(***************************************************************************)
LEMMA HeadsDoNotBlock == LineInv => NobodyBlocksItsOwnProcess
<1> SUFFICES ASSUME LineInv, NEW s \in Calls, Locking(s), NEW t \in InTheWay(s)
             PROVE  ProcessOf[Client(t)] # ProcessOf[Client(s)]
  BY DEF NobodyBlocksItsOwnProcess
<1>1. AtHead(s)
  BY DEF Locking, Opens, Writes, Due, LineInv, HeadsWork, HasFile
<1>2. t \in Calls /\ t # s /\ AtHead(t)
  BY DEF InTheWay, LineInv, HeadsWork, HasFile
<1> QED BY <1>1, <1>2, OneHead DEF LineOf

LEMMA InitCloses == LibsqlInit => ClosesWait /\ CloseOutlivesWork
BY DEF LibsqlInit, ClosesWait, CloseOutlivesWork

\* Nobody calls a client that is being closed, and what was under way is
\* crossed off only as it settles.
LEMMA NextCloses ==
  LineInv /\ ClosesWait /\ CloseOutlivesWork /\ [LibsqlNext]_clientVars
    => ClosesWait' /\ CloseOutlivesWork'
<1> SUFFICES ASSUME LineInv, ClosesWait, CloseOutlivesWork, [LibsqlNext]_clientVars
             PROVE  ClosesWait' /\ CloseOutlivesWork'
  OBVIOUS
<1> USE DEF LineInv
<1> DEFINE Kept(b) == Of(b)' \subseteq Of(b)
<1>1. ASSUME NEW s \in Calls, NEW request \in Requests, Run(s, request)
      PROVE  ClosesWait' /\ CloseOutlivesWork'
  <2>1. handle' = handle /\ waitsFor' = waitsFor /\ handle[request.client] = "live"
    BY <1>1 DEF Run, connections
  <2>2. call' = [call EXCEPT ![s] = request]
        /\ \E new \in {"joining", "queued"} : stage' = [stage EXCEPT ![s] = new]
    BY <1>1 DEF Run
  <2>3. ASSUME NEW b \in Clients, b # request.client PROVE Kept(b)
    BY <2>2, <2>3 DEF Of, Client, LibsqlTypeOK
  <2> QED BY <2>1, <2>3 DEF ClosesWait, CloseOutlivesWork
<1>2. ASSUME NEW s \in Calls, NEW new \in {"queued", "opening", "writing", "reading"},
             To(s, new), stage[s] # "idle", handle' = handle
      PROVE  ClosesWait' /\ CloseOutlivesWork'
  <2>1. waitsFor' = waitsFor /\ call' = call /\ stage' = [stage EXCEPT ![s] = new]
    BY <1>2 DEF To
  <2>2. \A b \in Clients : Kept(b)
    BY <1>2, <2>1 DEF Of, Client, LibsqlTypeOK
  <2> QED BY <1>2, <2>1, <2>2 DEF ClosesWait, CloseOutlivesWork
<1>3. ASSUME NEW s \in Calls, Ends(s)
      PROVE  ClosesWait' /\ CloseOutlivesWork'
  <2>1. Settled(s) /\ handle' = handle
    BY <1>3, EndsSettle
  <2>2. \A b \in Clients : Kept(b) /\ s \notin Of(b)'
    BY <2>1 DEF Settled, Of, Client, LibsqlTypeOK
  <2>3. \A b \in Clients : waitsFor'[b] = waitsFor[b] \ {s}
    BY <2>1 DEF Settled
  <2> QED BY <2>1, <2>2, <2>3 DEF ClosesWait, CloseOutlivesWork
<1>4. ASSUME NEW s \in Calls, Advance(s)
      PROVE  ClosesWait' /\ CloseOutlivesWork'
  <2>1. CASE Ends(s)
    BY <2>1, <1>3
  <2>2. CASE Join(s) \/ BeginOpen(s) \/ Opened(s) \/ Begin(s)
    <3>1. \E new \in {"queued", "opening", "writing", "reading"} : To(s, new)
      BY <2>2 DEF Join, BeginOpen, Opened, Begin
    <3>2. stage[s] # "idle" /\ handle' = handle
      BY <2>2 DEF Join, BeginOpen, Opened, Begin, Opens, Due, connections
    <3> QED BY <3>1, <3>2, <1>2
  <2> QED BY <1>4, <2>1, <2>2 DEF Advance, Ends
<1>5. ASSUME NEW c \in Clients, Close(c)
      PROVE  ClosesWait' /\ CloseOutlivesWork'
  <2>1. handle' = [handle EXCEPT ![c] = "closing"] /\ waitsFor' = [waitsFor EXCEPT ![c] = Of(c)]
    BY <1>5 DEF Close, Outlived
  <2>2. \A b \in Clients : Of(b)' = Of(b)
    BY <1>5 DEF Close, Of, Client
  <2> QED BY <2>1, <2>2 DEF ClosesWait, CloseOutlivesWork, LibsqlTypeOK, Shapes
<1>6. ASSUME NEW c \in Clients, CloseEnds(c)
      PROVE  ClosesWait' /\ CloseOutlivesWork'
  <2>1. handle' = [handle EXCEPT ![c] = "closed"] /\ waitsFor' = waitsFor
        /\ handle[c] = "closing" /\ waitsFor[c] = {}
    BY <1>6 DEF CloseEnds
  <2>2. \A b \in Clients : Of(b)' = Of(b)
    BY <1>6 DEF CloseEnds, Of, Client
  <2> QED BY <2>1, <2>2 DEF ClosesWait, CloseOutlivesWork, LibsqlTypeOK
<1>7. CASE UNCHANGED clientVars
  BY <1>7 DEF clientVars, connections, ClosesWait, CloseOutlivesWork, Of, Client
<1> QED BY <1>1, <1>4, <1>5, <1>6, <1>7 DEF LibsqlNext

(***************************************************************************)
(* The types hold in every reachable state.                                *)
(***************************************************************************)
THEOREM LibsqlTypes == LibsqlSpec => []LibsqlTypeOK
<1>1. LibsqlInit => LineInv
  BY InitLine DEF CloseInv
<1>2. LineInv => LibsqlTypeOK
  BY DEF LineInv
<1> QED BY <1>1, <1>2, NextKeepsLine, PTL DEF LibsqlSpec

(***************************************************************************)
(* Nobody waits, with the event loop of its process, for a call of that     *)
(* process, whichever client either is of.                                 *)
(***************************************************************************)
THEOREM NoProcessStopsItself == LibsqlSpec => []NobodyBlocksItsOwnProcess
<1>1. LibsqlInit => LineInv
  BY InitLine DEF CloseInv
<1> QED BY <1>1, NextKeepsLine, HeadsDoNotBlock, PTL DEF LibsqlSpec

(***************************************************************************)
(* close() takes the connection from under no call.                        *)
(***************************************************************************)
THEOREM NoCallLosesItsConnection == LibsqlSpec => []CloseOutlivesWork
<1>1. LibsqlInit => CloseInv
  BY InitLine
<1>2. CloseInv /\ [LibsqlNext]_clientVars => CloseInv'
  BY NextKeepsLine, NextCloses DEF CloseInv
<1>3. CloseInv => CloseOutlivesWork
  BY DEF CloseInv
<1> QED BY <1>1, <1>2, <1>3, PTL DEF LibsqlSpec
-----------------------------------------------------------------------------
(***************************************************************************)
(* The files of a credential store. Only the call at the head of the queue  *)
(* works, so the draft it is about to commit was made from the state file   *)
(* as it is; and legacy files still being removed by a clear that failed    *)
(* matter only until a clear succeeds.                                     *)
(***************************************************************************)
USE FileAssumption

Contents == Values \cup {Absent}

FileShapes ==
  /\ legacy \in [LegacyFiles -> Contents]
  /\ state \in States
  /\ pending \in Seq(Callers)
  /\ task \in [Callers -> Tasks \cup {NoTask}]
  /\ step \in [Callers -> {"idle", "called", "looking", "removing", "drafted", "written"}]
  /\ draft \in [Callers -> States]
  /\ removing \in [Callers -> SUBSET LegacyFiles]
  /\ stragglers \subseteq LegacyFiles
  /\ unfinished \in BOOLEAN

Rests(c) == step[c] \in {"idle", "called"}

OneWorks ==
  \A c \in Callers :
    /\ ~Rests(c) => Turn(c)
    /\ step[c] # "idle" =>
         task[c] \in Tasks /\ \E i \in 1 .. Len(pending) : pending[i] = c
    /\ removing[c] # {} => step[c] = "removing"

\* What a read has found of the key it moves.
Found(c) == draft[c].values[task[c].key]

Unmoved(c) ==
  /\ task[c].type = "read" /\ task[c].key \in Keys
  /\ state.values[task[c].key] = Unset /\ state.fallback

Looks(c) ==
  step[c] = "looking" =>
    Unmoved(c) /\ draft[c].values = state.values

\* The state file with a batch in it.
OverlaidOn(s, batch) ==
  [s EXCEPT !.exists = TRUE,
            !.values = [k \in Keys |-> IF k \in DOMAIN batch THEN batch[k] ELSE s.values[k]]]

Commits(c) ==
  step[c] \in {"drafted", "written"} =>
    \/ /\ Unmoved(c) /\ Found(c) \in Values
       /\ draft[c].fallback
       /\ draft[c].values = [state.values EXCEPT ![task[c].key] = Found(c)]
       /\ legacy[LegacyOf[task[c].key]] \in {Found(c), Absent}
       /\ legacy[LegacyOf[task[c].key]] = Absent => unfinished
    \/ /\ task[c].type = "write" /\ task[c].batch \in Batches
       /\ draft[c] = OverlaidOn(state, task[c].batch)
    \/ /\ task[c].type = "clear"
       /\ draft[c] = EmptyState(FALSE)

Removes(c) == step[c] = "removing" => task[c].type = "clear" /\ unfinished

Drafts == \A c \in Callers : Looks(c) /\ Commits(c) /\ Removes(c)

\* Removals of a clear that failed go on while no clear has succeeded, or they
\* are of files that are no longer looked at.
StragglersAreLate == stragglers # {} => unfinished \/ ~state.fallback

FileInv == FileShapes /\ OneWorks /\ Drafts /\ StragglersAreLate

-----------------------------------------------------------------------------
LEMMA StateFields ==
  FileShapes =>
    /\ state.values \in [Keys -> Contents \cup {Unset}]
    /\ state.fallback \in BOOLEAN
    /\ \A k \in Keys : LegacyOf[k] \in LegacyFiles /\ legacy[LegacyOf[k]] \in Contents
    /\ Unset \notin Contents
BY DEF FileShapes, States, Contents, LegacyFiles

\* A caller works alone.
LEMMA OthersRest ==
  ASSUME OneWorks, NEW c \in Callers, Turn(c), NEW d \in Callers, d # c
  PROVE  Rests(d)
BY DEF OneWorks, Turn

\* What an entry is when nobody moves it, and when somebody does.
Plain(s, l, k) ==
  IF s.values[k] # Unset THEN s.values[k]
  ELSE IF ~s.fallback THEN Absent
  ELSE l[LegacyOf[k]]

MovesIn(tasks, steps, c, k) ==
  tasks[c].type = "read" /\ tasks[c].key = k /\ steps[c] \in {"drafted", "written"}

EntryOf(moving, drafts, s, l, k) ==
  IF s.values[k] # Unset THEN s.values[k]
  ELSE IF ~s.fallback THEN Absent
  ELSE IF moving # {} THEN drafts[CHOOSE c \in moving : TRUE].values[k]
  ELSE l[LegacyOf[k]]

EntryIn(tasks, steps, drafts, s, l, k) ==
  EntryOf({c \in Callers : MovesIn(tasks, steps, c, k)}, drafts, s, l, k)

LEMMA EntryIs ==
  /\ \A k : Entry(k) = EntryIn(task, step, draft, state, legacy, k)
  /\ \A k : Entry(k)' = EntryIn(task', step', draft', state', legacy', k)
BY DEF Entry, EntryIn, EntryOf, Moving, MovesIn

LEMMA EntryAtRest ==
  ASSUME NEW tasks, NEW steps, NEW drafts, NEW s, NEW l, NEW k,
         \A c \in Callers : ~MovesIn(tasks, steps, c, k)
  PROVE  EntryIn(tasks, steps, drafts, s, l, k) = Plain(s, l, k)
<1>1. {c \in Callers : MovesIn(tasks, steps, c, k)} = {}
  OBVIOUS
<1> QED BY <1>1 DEF EntryIn, EntryOf, Plain

LEMMA EntryMoved ==
  ASSUME NEW tasks, NEW steps, NEW drafts, NEW s, NEW l, NEW c \in Callers, NEW k,
         MovesIn(tasks, steps, c, k),
         \A d \in Callers : d # c => steps[d] \in {"idle", "called"},
         s.values[k] = Unset, s.fallback
  PROVE  EntryIn(tasks, steps, drafts, s, l, k) = drafts[c].values[k]
<1>1. {d \in Callers : MovesIn(tasks, steps, d, k)} = {c}
  BY DEF MovesIn
<1> QED BY <1>1 DEF EntryIn, EntryOf

\* A step of the port.
Kept == \A k \in Keys : Entry(k)' = Entry(k)

LEMMA SilenceMaps ==
  ASSUME Kept, told' = <<>>, unfinished' = unfinished
  PROVE  Port!CredentialNext
BY DEF Kept, Port!CredentialNext, Port!Silence

LEMMA ReadMaps ==
  ASSUME Kept, NEW k \in Keys, told' = <<"read", k, Entry(k)>>, unfinished' = unfinished
  PROVE  Port!CredentialNext
BY DEF Kept, Port!CredentialNext, Port!Read

LEMMA ForgetMaps ==
  ASSUME NEW S \in SUBSET Keys, unfinished, unfinished' \in BOOLEAN, told' = <<>>,
         \A k \in Keys : Entry(k)' = IF k \in S THEN Absent ELSE Entry(k)
  PROVE  Port!CredentialNext
BY DEF Port!CredentialNext, Port!Forget

-----------------------------------------------------------------------------
\* The end of a call: nobody works.
LEMMA DoneRests ==
  ASSUME FileShapes, OneWorks, NEW c \in Callers, Turn(c), step[c] # "idle", Done(c)
  PROVE  /\ \A d \in Callers : step'[d] \in {"idle", "called"}
         /\ OneWorks'
         /\ pending' \in Seq(Callers)
         /\ task' \in [Callers -> Tasks \cup {NoTask}]
         /\ step' \in
              [Callers -> {"idle", "called", "looking", "removing", "drafted", "written"}]
         /\ draft' \in [Callers -> States]
         /\ removing' \in [Callers -> SUBSET LegacyFiles]
<1>1. /\ pending \in Seq(Callers) /\ task \in [Callers -> Tasks \cup {NoTask}]
      /\ step \in [Callers -> {"idle", "called", "looking", "removing", "drafted", "written"}]
      /\ draft \in [Callers -> States] /\ removing \in [Callers -> SUBSET LegacyFiles]
  BY DEF FileShapes
<1>2. /\ pending' = Tail(pending) /\ task' = [task EXCEPT ![c] = NoTask]
      /\ step' = [step EXCEPT ![c] = "idle"]
      /\ draft' = [draft EXCEPT ![c] = NoState] /\ removing' = [removing EXCEPT ![c] = {}]
  BY DEF Done
<1>3. \A d \in Callers : d # c => Rests(d)
  BY OthersRest
<1>4. \A d \in Callers : step'[d] \in {"idle", "called"}
  BY <1>1, <1>2, <1>3 DEF Rests
<1>5. PICK i \in 1 .. Len(pending) : pending[i] = c
  BY DEF OneWorks
<1>6. /\ pending' \in Seq(Callers) /\ Len(pending') = Len(pending) - 1
      /\ \A j \in 1 .. Len(pending') : pending'[j] = pending[j + 1]
  BY <1>1, <1>2, <1>5
<1>7. NoState \in States
  BY DEF NoState, States
<1>8. OneWorks'
  <2> SUFFICES ASSUME NEW d \in Callers
      PROVE  /\ ~Rests(d)' => Turn(d)'
             /\ step'[d] # "idle" =>
                  task'[d] \in Tasks /\ \E j \in 1 .. Len(pending') : pending'[j] = d
             /\ removing'[d] # {} => step'[d] = "removing"
    BY DEF OneWorks
  <2>1. ~Rests(d)' => Turn(d)'
    BY <1>4 DEF Rests
  <2>2. ASSUME step'[d] # "idle"
        PROVE  task'[d] \in Tasks /\ \E j \in 1 .. Len(pending') : pending'[j] = d
    <3>1. d # c /\ step[d] # "idle" /\ task'[d] = task[d]
      BY <1>1, <1>2, <2>2
    <3>2. task[d] \in Tasks
      BY <3>1 DEF OneWorks
    <3>3. PICK j \in 1 .. Len(pending) : pending[j] = d
      BY <3>1 DEF OneWorks
    <3>4. j # 1
      BY <3>1, <3>3 DEF Turn
    <3>5. j - 1 \in 1 .. Len(pending') /\ (j - 1) + 1 = j
      BY <1>1, <1>6, <3>3, <3>4
    <3>6. pending'[j - 1] = d
      BY <1>6, <3>3, <3>5
    <3> QED BY <3>1, <3>2, <3>5, <3>6
  <2>3. removing'[d] = {}
    <3>1. CASE d = c
      BY <1>1, <1>2, <3>1
    <3>2. CASE d # c
      <4>1. removing[d] = {}
        BY <1>3, <3>2 DEF OneWorks, Rests
      <4> QED BY <1>1, <1>2, <3>2, <4>1
    <3> QED BY <3>1, <3>2
  <2> QED BY <2>1, <2>2, <2>3
<1> QED BY <1>1, <1>2, <1>4, <1>6, <1>7, <1>8

\* When nobody works the files are all there is.
LEMMA RestKeeps ==
  ASSUME \A d \in Callers : step'[d] \in {"idle", "called"},
         FileShapes', OneWorks', StragglersAreLate'
  PROVE  FileInv' /\ \A k : Entry(k)' = Plain(state', legacy', k)
<1>1. Drafts'
  BY DEF Drafts, Looks, Commits, Removes
<1>2. \A k : \A d \in Callers : ~MovesIn(task', step', d, k)
  BY DEF MovesIn
<1>3. \A k : Entry(k)' = Plain(state', legacy', k)
  BY <1>2, EntryIs, EntryAtRest
<1> QED BY <1>1, <1>3 DEF FileInv

\* Before anything was drafted the files are all there is, too.
LEMMA UndraftedIsPlain ==
  ASSUME OneWorks, NEW c \in Callers, Turn(c),
         step[c] \in {"idle", "called", "looking", "removing"} \/ task[c].type # "read"
  PROVE  \A k : Entry(k) = Plain(state, legacy, k)
<1>1. \A k : \A d \in Callers : ~MovesIn(task, step, d, k)
  <2> SUFFICES ASSUME NEW k, NEW d \in Callers PROVE ~MovesIn(task, step, d, k)
    OBVIOUS
  <2>1. CASE d = c
    BY <2>1 DEF MovesIn
  <2>2. CASE d # c
    BY <2>2, OthersRest DEF MovesIn, Rests
  <2> QED BY <2>1, <2>2
<1> QED BY <1>1, EntryIs, EntryAtRest

\* What the caller at the head drafts is what the key it moves is.
LEMMA DraftedIsEntry ==
  ASSUME FileInv, NEW c \in Callers, step[c] \in {"drafted", "written"},
         task[c].type = "read"
  PROVE  /\ Entry(task[c].key) = Found(c)
         /\ \A k : k # task[c].key => Entry(k) = Plain(state, legacy, k)
<1>1. Turn(c) /\ Unmoved(c)
  BY DEF FileInv, OneWorks, Drafts, Commits, Rests
<1>2. \A d \in Callers : d # c => step[d] \in {"idle", "called"}
  BY <1>1, OthersRest DEF FileInv, Rests
<1>3. MovesIn(task, step, c, task[c].key)
  BY DEF MovesIn
<1>4. Entry(task[c].key) = draft[c].values[task[c].key]
  <2>1. state.values[task[c].key] = Unset /\ state.fallback
    BY <1>1 DEF Unmoved
  <2>2. EntryIn(task, step, draft, state, legacy, task[c].key) = draft[c].values[task[c].key]
    BY <1>2, <1>3, <2>1, EntryMoved
  <2> QED BY <2>2, EntryIs
<1>5. ASSUME NEW k, k # task[c].key PROVE Entry(k) = Plain(state, legacy, k)
  <2>1. \A d \in Callers : ~MovesIn(task, step, d, k)
    BY <1>2, <1>5 DEF MovesIn
  <2> QED BY <2>1, EntryIs, EntryAtRest
<1> QED BY <1>4, <1>5 DEF Found

\* A step of the caller at the head that leaves it there.
LEMMA WorkKeeps ==
  ASSUME FileInv, NEW c \in Callers, Turn(c), step[c] # "idle", UNCHANGED <<pending, task>>,
         NEW s \in {"looking", "removing", "drafted", "written"},
         step' = [step EXCEPT ![c] = s], FileShapes', StragglersAreLate',
         \A d \in Callers : removing'[d] # {} => step'[d] = "removing",
         Looks(c)', Commits(c)', Removes(c)'
  PROVE  FileInv' /\ \A d \in Callers : d # c => step'[d] \in {"idle", "called"}
<1>1. step \in [Callers -> {"idle", "called", "looking", "removing", "drafted", "written"}]
  BY DEF FileInv, FileShapes
<1>2. \A d \in Callers : d # c => step'[d] \in {"idle", "called"} /\ step'[d] = step[d]
  BY <1>1, OthersRest DEF FileInv, Rests
<1>3. OneWorks'
  <2> SUFFICES ASSUME NEW d \in Callers
      PROVE  /\ ~Rests(d)' => Turn(d)'
             /\ step'[d] # "idle" =>
                  task'[d] \in Tasks /\ \E j \in 1 .. Len(pending') : pending'[j] = d
    BY DEF OneWorks
  <2>1. ~Rests(d)' => Turn(d)'
    BY <1>2 DEF Rests, Turn
  <2>2. step'[d] # "idle" => step[d] # "idle"
    BY <1>1, <1>2
  <2> QED BY <2>1, <2>2 DEF FileInv, OneWorks
<1>4. \A d \in Callers : d # c => Looks(d)' /\ Commits(d)' /\ Removes(d)'
  BY <1>2 DEF Looks, Commits, Removes
<1>5. Drafts'
  BY <1>4 DEF Drafts
<1> QED BY <1>2, <1>3, <1>5 DEF FileInv

-----------------------------------------------------------------------------
\* Told an answer, a call is over, and nothing else changed.
LEMMA AnswerMaps ==
  ASSUME FileInv, NEW c \in Callers, Turn(c), step[c] \in {"called", "looking"},
         task[c].type = "read", NEW value, Answer(c, value),
         value = Plain(state, legacy, task[c].key)
  PROVE  FileInv' /\ Port!CredentialNext
<1>1. UNCHANGED <<legacy, state, stragglers, unfinished>> /\ Done(c)
      /\ told' = <<"read", task[c].key, value>>
  BY DEF Answer, diskVars
<1>2. FileShapes /\ OneWorks /\ step[c] # "idle"
  BY DEF FileInv
<1>3. /\ \A d \in Callers : step'[d] \in {"idle", "called"}
      /\ OneWorks' /\ FileShapes'
  BY <1>1, <1>2, DoneRests DEF FileShapes
<1>4. StragglersAreLate'
  BY <1>1 DEF FileInv, StragglersAreLate
<1>5. FileInv' /\ \A k : Entry(k)' = Plain(state', legacy', k)
  BY <1>3, <1>4, RestKeeps
<1>6. \A k : Entry(k) = Plain(state, legacy, k)
  BY <1>2, UndraftedIsPlain
<1>7. Kept
  BY <1>1, <1>5, <1>6 DEF Kept, Plain
<1>8. task[c].key \in Keys
  BY <1>2 DEF OneWorks, Tasks
<1> QED BY <1>1, <1>5, <1>6, <1>7, <1>8, ReadMaps

LEMMA ReadStateMaps ==
  ASSUME FileInv, NEW c \in Callers, ReadState(c)
  PROVE  FileInv' /\ Port!CredentialNext
<1> DEFINE k == task[c].key
<1>1. task[c].type = "read" /\ step[c] = "called" /\ Turn(c)
  BY DEF ReadState, At
<1>2. k \in Keys
  BY <1>1 DEF FileInv, OneWorks, Tasks
<1>3. CASE state.values[k] # Unset
  BY <1>1, <1>3, AnswerMaps DEF ReadState, Plain
<1>4. CASE state.values[k] = Unset /\ ~state.fallback
  BY <1>1, <1>4, AnswerMaps DEF ReadState, Plain
<1>5. CASE state.values[k] = Unset /\ state.fallback
  <2>1. /\ draft' = [draft EXCEPT ![c] = state] /\ step' = [step EXCEPT ![c] = "looking"]
        /\ UNCHANGED <<legacy, state, pending, task, removing, stragglers, unfinished>>
        /\ told' = <<>>
    BY <1>5 DEF ReadState, Goes, Silent, diskVars
  <2>2. FileShapes'
    BY <2>1 DEF FileInv, FileShapes
  <2>3. draft'[c] = state /\ step'[c] = "looking"
    BY <2>1 DEF FileInv, FileShapes
  <2>4. Looks(c)' /\ Commits(c)' /\ Removes(c)'
    BY <1>1, <1>2, <1>5, <2>1, <2>3 DEF Looks, Commits, Removes, Unmoved
  <2>5. \A d \in Callers : removing'[d] # {} => step'[d] = "removing"
    BY <1>1, <2>1 DEF FileInv, OneWorks
  <2>6. StragglersAreLate'
    BY <2>1 DEF FileInv, StragglersAreLate
  <2>7. FileInv' /\ \A d \in Callers : d # c => step'[d] \in {"idle", "called"}
    BY <1>1, <2>1, <2>2, <2>4, <2>5, <2>6, WorkKeeps
  <2>8. \A j : Entry(j) = Plain(state, legacy, j)
    BY <1>1, UndraftedIsPlain DEF FileInv
  <2>9. \A j : \A d \in Callers : ~MovesIn(task', step', d, j)
    BY <2>3, <2>7 DEF MovesIn
  <2>10. \A j : Entry(j)' = Plain(state', legacy', j)
    BY <2>9, EntryIs, EntryAtRest
  <2>11. Kept
    BY <2>1, <2>8, <2>10 DEF Kept, Plain
  <2> QED BY <2>1, <2>7, <2>11, SilenceMaps
<1> QED BY <1>3, <1>4, <1>5

\* What a read finds of an old release is the entry, and stays so while it moves.
LEMMA ReadLegacyMaps ==
  ASSUME FileInv, NEW c \in Callers, ReadLegacy(c)
  PROVE  FileInv' /\ Port!CredentialNext
<1>0. PICK k, found : k = task[c].key /\ found = legacy[LegacyOf[k]]
  OBVIOUS
<1> DEFINE moved == [exists |-> TRUE, fallback |-> TRUE,
                     values |-> [draft[c].values EXCEPT ![k] = found]]
<1>1. task[c].type = "read" /\ step[c] = "looking" /\ Turn(c)
  BY DEF ReadLegacy, At
<1>2. Unmoved(c) /\ draft[c].values = state.values
  BY <1>1 DEF FileInv, Drafts, Looks
<1>3. \A j : Entry(j) = Plain(state, legacy, j)
  BY <1>1, UndraftedIsPlain DEF FileInv
<1>4. found \in Contents /\ k \in Keys
  BY <1>0, <1>2, StateFields DEF FileInv, Unmoved
<1>5. CASE found = Absent
  BY <1>0, <1>1, <1>2, <1>5, AnswerMaps DEF ReadLegacy, Plain, Unmoved
<1>6. CASE found # Absent
  <2>1. /\ draft' = [draft EXCEPT ![c] = moved] /\ step' = [step EXCEPT ![c] = "drafted"]
        /\ UNCHANGED <<legacy, state, pending, task, removing, stragglers, unfinished>>
        /\ told' = <<>>
    BY <1>0, <1>6 DEF ReadLegacy, Draft, Goes, Silent, diskVars
  <2>2. moved \in States
    BY <1>2, <1>4, StateFields DEF FileInv, States, Contents
  <2>3. draft'[c] = moved /\ step'[c] = "drafted" /\ FileShapes'
    BY <2>1, <2>2 DEF FileInv, FileShapes
  <2>4. /\ moved.fallback /\ moved.values = [state.values EXCEPT ![k] = found]
        /\ moved.values[k] = found
    BY <1>2, <1>4, StateFields DEF FileInv
  <2>5. found \in Values
    BY <1>4, <1>6 DEF Contents
  <2> HIDE DEF moved
  <2>6. Unmoved(c)' /\ Found(c)' = found
    BY <1>0, <1>2, <2>1, <2>3, <2>4 DEF Unmoved, Found
  <2>7. legacy'[LegacyOf[task'[c].key]] = found /\ task'[c].key = k
    BY <1>0, <2>1
  <2>8. Commits(c)'
    <3>1. /\ Unmoved(c)' /\ Found(c)' \in Values /\ draft'[c].fallback
          /\ draft'[c].values = [state'.values EXCEPT ![task'[c].key] = Found(c)']
          /\ legacy'[LegacyOf[task'[c].key]] \in {Found(c)', Absent}
          /\ legacy'[LegacyOf[task'[c].key]] # Absent
      BY <1>6, <2>1, <2>3, <2>4, <2>5, <2>6, <2>7
    <3> QED BY <3>1 DEF Commits
  <2>9. Looks(c)' /\ Removes(c)'
    BY <2>3 DEF Looks, Removes
  <2>10. \A d \in Callers : removing'[d] # {} => step'[d] = "removing"
    BY <1>1, <2>1 DEF FileInv, OneWorks
  <2>11. StragglersAreLate'
    BY <2>1 DEF FileInv, StragglersAreLate
  <2>12. FileInv' /\ \A d \in Callers : d # c => step'[d] \in {"idle", "called"}
    BY <1>1, <2>1, <2>3, <2>8, <2>9, <2>10, <2>11, WorkKeeps
  <2>13. ASSUME NEW j, j # k PROVE Entry(j)' = Plain(state', legacy', j)
    <3>1. \A d \in Callers : ~MovesIn(task', step', d, j)
      BY <1>0, <2>1, <2>12, <2>13 DEF MovesIn
    <3> QED BY <3>1, EntryIs, EntryAtRest
  <2>14. Entry(k)' = found
    <3>1. MovesIn(task', step', c, k)
      BY <1>0, <1>1, <2>1, <2>3 DEF MovesIn
    <3>2. state'.values[k] = Unset /\ state'.fallback
      BY <1>0, <1>2, <2>1 DEF Unmoved
    <3>3. EntryIn(task', step', draft', state', legacy', k) = draft'[c].values[k]
      BY <2>12, <3>1, <3>2, EntryMoved
    <3> QED BY <2>3, <2>4, <3>3, EntryIs
  <2>15. Entry(k) = found
    BY <1>0, <1>2, <1>3 DEF Plain, Unmoved
  <2>16. \A j : Entry(j)' = Entry(j)
    <3> SUFFICES ASSUME NEW j PROVE Entry(j)' = Entry(j)
      OBVIOUS
    <3>1. CASE j = k
      BY <2>14, <2>15, <3>1
    <3>2. CASE j # k
      <4>1. Plain(state', legacy', j) = Plain(state, legacy, j)
        BY <2>1
      <4> QED BY <1>3, <2>13, <3>2, <4>1
    <3> QED BY <3>1, <3>2
  <2> QED BY <2>1, <2>12, <2>16, SilenceMaps DEF Kept
<1> QED BY <1>5, <1>6

\* What writes and clears do before they commit.
LEMMA OthersMap ==
  ASSUME FileInv, NEW c \in Callers, task[c].type # "read",
         Turn(c), step[c] # "idle", UNCHANGED <<state, pending, task>>,
         NEW to \in {"looking", "removing", "drafted", "written"},
         step' = [step EXCEPT ![c] = to], FileShapes', StragglersAreLate',
         \A d \in Callers : removing'[d] # {} => step'[d] = "removing",
         Looks(c)', Commits(c)', Removes(c)'
  PROVE  /\ FileInv'
         /\ \A k : Entry(k) = Plain(state, legacy, k)
         /\ \A k : Entry(k)' = Plain(state, legacy', k)
<1>1. FileInv' /\ \A d \in Callers : d # c => step'[d] \in {"idle", "called"}
  BY WorkKeeps
<1>2. \A k : Entry(k) = Plain(state, legacy, k)
  BY UndraftedIsPlain DEF FileInv
<1>3. ASSUME NEW k PROVE Entry(k)' = Plain(state', legacy', k)
  <2>1. \A d \in Callers : ~MovesIn(task', step', d, k)
    BY <1>1 DEF MovesIn
  <2>2. EntryIn(task', step', draft', state', legacy', k) = Plain(state', legacy', k)
    BY ONLY <2>1, EntryAtRest
  <2> QED BY <2>2, EntryIs
<1> QED BY <1>1, <1>2, <1>3

LEMMA WriteDraftsMaps ==
  ASSUME FileInv, NEW c \in Callers, WriteDrafts(c)
  PROVE  FileInv' /\ Port!CredentialNext
<1>1. task[c].type = "write" /\ step[c] = "called" /\ Turn(c)
  BY DEF WriteDrafts, At
<1>2. task[c].batch \in Batches
  BY <1>1 DEF FileInv, OneWorks, Tasks
<1>3. /\ draft' = [draft EXCEPT ![c] = OverlaidOn(state, task[c].batch)]
      /\ step' = [step EXCEPT ![c] = "drafted"]
      /\ UNCHANGED <<legacy, state, pending, task, removing, stragglers, unfinished>>
      /\ told' = <<>>
  BY DEF WriteDrafts, Draft, Goes, Silent, diskVars, Overlaid, OverlaidOn
<1>4. \A k \in Keys : k \in DOMAIN task[c].batch => task[c].batch[k] \in Contents
  BY <1>2 DEF Contents
<1>5. OverlaidOn(state, task[c].batch) \in States
  BY <1>4 DEF OverlaidOn, FileInv, FileShapes, States, Contents
<1>6. FileShapes' /\ draft'[c] = OverlaidOn(state, task[c].batch) /\ step'[c] = "drafted"
  BY <1>3, <1>5 DEF FileInv, FileShapes
<1>8. Looks(c)' /\ Commits(c)' /\ Removes(c)'
  BY <1>1, <1>2, <1>3, <1>6 DEF Looks, Commits, Removes
<1>9. \A d \in Callers : removing'[d] # {} => step'[d] = "removing"
  BY <1>1, <1>3 DEF FileInv, OneWorks
<1>10. StragglersAreLate'
  BY <1>3 DEF FileInv, StragglersAreLate
<1>11. /\ FileInv'
       /\ \A k : Entry(k) = Plain(state, legacy, k)
       /\ \A k : Entry(k)' = Plain(state, legacy', k)
  BY <1>1, <1>3, <1>6, <1>8, <1>9, <1>10, OthersMap
<1>12. Kept
  BY <1>3, <1>11 DEF Kept
<1> QED BY <1>3, <1>11, <1>12, SilenceMaps

LEMMA ListLegacyMaps ==
  ASSUME FileInv, NEW c \in Callers, ListLegacy(c)
  PROVE  FileInv' /\ Port!CredentialNext
<1>1. task[c].type = "clear" /\ step[c] = "called" /\ Turn(c)
  BY DEF ListLegacy, At
<1>2. /\ removing' = [removing EXCEPT ![c] = {f \in LegacyFiles : legacy[f] # Absent}]
      /\ step' = [step EXCEPT ![c] = "removing"]
      /\ UNCHANGED <<legacy, state, pending, task, draft, stragglers>>
      /\ unfinished' = TRUE /\ told' = <<>>
  BY DEF ListLegacy, Goes, Silent, diskVars
<1>3. FileShapes' /\ step'[c] = "removing"
  BY <1>2 DEF FileInv, FileShapes
<1>4. Looks(c)' /\ Commits(c)' /\ Removes(c)'
  BY <1>1, <1>2, <1>3 DEF Looks, Commits, Removes
<1>5. \A d \in Callers : removing'[d] # {} => step'[d] = "removing"
  BY <1>1, <1>2 DEF FileInv, OneWorks, FileShapes
<1>6. StragglersAreLate'
  BY <1>2 DEF StragglersAreLate
<1>7. /\ FileInv'
      /\ \A k : Entry(k) = Plain(state, legacy, k)
      /\ \A k : Entry(k)' = Plain(state, legacy', k)
  BY <1>1, <1>2, <1>3, <1>4, <1>5, <1>6, OthersMap
<1>8. Kept
  BY <1>2, <1>7 DEF Kept
<1> QED BY <1>2, <1>7, <1>8 DEF Kept, Port!CredentialNext, Port!BeginClear

\* What a clear removes may have been entries.
LEMMA RemovedIsForgotten ==
  ASSUME FileShapes, NEW f \in LegacyFiles, legacy' = [legacy EXCEPT ![f] = Absent]
  PROVE  \A k \in Keys :
           Plain(state, legacy', k) =
             IF state.values[k] = Unset /\ state.fallback /\ LegacyOf[k] = f
             THEN Absent ELSE Plain(state, legacy, k)
BY StateFields DEF Plain, FileShapes

LEMMA RemoveFileMaps ==
  ASSUME FileInv, NEW c \in Callers, NEW f \in LegacyFiles, RemoveFile(c, f)
  PROVE  FileInv' /\ Port!CredentialNext
<1>1. task[c].type = "clear" /\ step[c] = "removing" /\ Turn(c) /\ f \in removing[c]
  BY DEF RemoveFile, At
<1>2. /\ legacy' = [legacy EXCEPT ![f] = Absent]
      /\ removing' = [removing EXCEPT ![c] = @ \ {f}]
      /\ UNCHANGED <<state, pending, task, step, draft, stragglers, unfinished>>
      /\ told' = <<>>
  BY DEF RemoveFile, Silent
<1>3. unfinished
  BY <1>1 DEF FileInv, Drafts, Removes
<1>4. FileShapes'
  BY <1>2 DEF FileInv, FileShapes, Contents
<1>5. step' = [step EXCEPT ![c] = "removing"] /\ step'[c] = "removing"
  BY <1>1, <1>2 DEF FileInv, FileShapes
<1>6. Looks(c)' /\ Commits(c)' /\ Removes(c)'
  BY <1>1, <1>2, <1>3, <1>5 DEF Looks, Commits, Removes
<1>7. \A d \in Callers : removing'[d] # {} => step'[d] = "removing"
  BY <1>1, <1>2 DEF FileInv, OneWorks, FileShapes
<1>8. StragglersAreLate'
  BY <1>2 DEF FileInv, StragglersAreLate
<1>9. /\ FileInv'
      /\ \A k : Entry(k) = Plain(state, legacy, k)
      /\ \A k : Entry(k)' = Plain(state, legacy', k)
  BY <1>1, <1>2, <1>4, <1>5, <1>6, <1>7, <1>8, OthersMap
<1> DEFINE S == {k \in Keys : state.values[k] = Unset /\ state.fallback /\ LegacyOf[k] = f}
<1>10. \A k \in Keys : Entry(k)' = IF k \in S THEN Absent ELSE Entry(k)
  BY <1>2, <1>9, RemovedIsForgotten DEF FileInv
<1>11. S \in SUBSET Keys /\ unfinished' \in BOOLEAN
  BY <1>2, <1>3
<1> HIDE DEF S
<1> QED BY <1>2, <1>3, <1>9, <1>10, <1>11, ForgetMaps

LEMMA ClearDraftsMaps ==
  ASSUME FileInv, NEW c \in Callers, ClearDrafts(c)
  PROVE  FileInv' /\ Port!CredentialNext
<1>1. task[c].type = "clear" /\ step[c] = "removing" /\ Turn(c) /\ removing[c] = {}
  BY DEF ClearDrafts, At
<1>2. /\ draft' = [draft EXCEPT ![c] = EmptyState(FALSE)]
      /\ step' = [step EXCEPT ![c] = "drafted"]
      /\ UNCHANGED <<legacy, state, pending, task, removing, stragglers, unfinished>>
      /\ told' = <<>>
  BY DEF ClearDrafts, Draft, Goes, Silent, diskVars
<1>3. EmptyState(FALSE) \in States
  BY DEF EmptyState, NoState, States
<1>4. FileShapes' /\ draft'[c] = EmptyState(FALSE) /\ step'[c] = "drafted"
  BY <1>2, <1>3 DEF FileInv, FileShapes
<1>5. Looks(c)' /\ Commits(c)' /\ Removes(c)'
  BY <1>1, <1>2, <1>4 DEF Looks, Commits, Removes
<1>6. \A d \in Callers : removing'[d] # {} => step'[d] = "removing"
  BY <1>1, <1>2 DEF FileInv, OneWorks, FileShapes
<1>7. StragglersAreLate'
  BY <1>2 DEF FileInv, StragglersAreLate
<1>8. /\ FileInv'
      /\ \A k : Entry(k) = Plain(state, legacy, k)
      /\ \A k : Entry(k)' = Plain(state, legacy', k)
  BY <1>1, <1>2, <1>4, <1>5, <1>6, <1>7, OthersMap
<1>9. Kept
  BY <1>2, <1>8 DEF Kept
<1> QED BY <1>2, <1>8, <1>9, SilenceMaps

-----------------------------------------------------------------------------
\* The same callers at the same work: the entries change at most as the legacy
\* files do.
LEMMA SameWork ==
  ASSUME FileInv, NEW f, f \in stragglers, legacy' = [legacy EXCEPT ![f] = Absent],
         stragglers' = stragglers \ {f}, told' = <<>>,
         UNCHANGED <<state, pending, task, step, draft, removing, unfinished>>
  PROVE  FileInv' /\ Port!CredentialNext
<1>1. f \in LegacyFiles
  BY DEF FileInv, FileShapes
<1>2. FileShapes'
  BY <1>1 DEF FileInv, FileShapes, Contents
<1>3. unfinished \/ ~state.fallback
  BY DEF FileInv, StragglersAreLate
<1>4. Drafts'
  <2> SUFFICES ASSUME NEW c \in Callers PROVE Looks(c)' /\ Commits(c)' /\ Removes(c)'
    BY DEF Drafts
  <2>1. Looks(c) /\ Commits(c) /\ Removes(c)
    BY DEF FileInv, Drafts
  <2>2. Looks(c)' /\ Removes(c)'
    BY <2>1 DEF Looks, Removes, Unmoved
  <2>3. \A x : legacy'[x] \in {legacy[x], Absent} \/ x \notin LegacyFiles
    BY <1>1 DEF FileInv, FileShapes
  <2>4. Commits(c)'
    <3> SUFFICES ASSUME step[c] \in {"drafted", "written"} PROVE Commits(c)'
      BY DEF Commits
    <3>1. CASE task[c].type = "read"
      <4>1. /\ Unmoved(c) /\ Found(c) \in Values /\ draft[c].fallback
            /\ draft[c].values = [state.values EXCEPT ![task[c].key] = Found(c)]
            /\ legacy[LegacyOf[task[c].key]] \in {Found(c), Absent}
        BY <2>1, <3>1 DEF Commits
      <4>2. unfinished /\ LegacyOf[task[c].key] \in LegacyFiles
        BY <1>3, <4>1 DEF Unmoved, LegacyFiles
      <4>3. legacy'[LegacyOf[task[c].key]] \in {Found(c), Absent}
        BY <2>3, <4>1, <4>2
      <4>4. Unmoved(c)' /\ Found(c)' = Found(c)
        BY <4>1 DEF Unmoved, Found
      <4> QED BY <4>1, <4>2, <4>3, <4>4 DEF Commits
    <3>2. CASE task[c].type # "read"
      BY <2>1, <3>2 DEF Commits, Unmoved
    <3> QED BY <3>1, <3>2
  <2> QED BY <2>2, <2>4
<1>5. OneWorks' /\ StragglersAreLate'
  BY DEF FileInv, OneWorks, Rests, Turn, StragglersAreLate
<1>6. FileInv'
  BY <1>2, <1>4, <1>5 DEF FileInv
<1> DEFINE S == {k \in Keys : /\ state.values[k] = Unset /\ state.fallback /\ LegacyOf[k] = f
                              /\ \A c \in Callers : ~MovesIn(task, step, c, k)}
<1>7. \A k \in Keys : Entry(k)' = IF k \in S THEN Absent ELSE Entry(k)
  <2> SUFFICES ASSUME NEW k \in Keys
      PROVE  Entry(k)' = IF k \in S THEN Absent ELSE Entry(k)
    OBVIOUS
  <2>1. CASE \A c \in Callers : ~MovesIn(task, step, c, k)
    <3>1. EntryIn(task, step, draft, state, legacy, k) = Plain(state, legacy, k)
      BY ONLY <2>1, EntryAtRest
    <3>2. EntryIn(task, step, draft, state, legacy', k) = Plain(state, legacy', k)
      BY ONLY <2>1, EntryAtRest
    <3>3. Entry(k) = Plain(state, legacy, k) /\ Entry(k)' = Plain(state, legacy', k)
      BY <3>1, <3>2, EntryIs
    <3>4. Plain(state, legacy', k) =
            IF state.values[k] = Unset /\ state.fallback /\ LegacyOf[k] = f
            THEN Absent ELSE Plain(state, legacy, k)
      BY <1>1, RemovedIsForgotten DEF FileInv
    <3> QED BY <2>1, <3>3, <3>4
  <2>2. ASSUME NEW c \in Callers, MovesIn(task, step, c, k)
        PROVE  Entry(k)' = Entry(k)
    <3>1. Turn(c) /\ Unmoved(c) /\ k = task[c].key
      BY <2>2 DEF FileInv, OneWorks, Drafts, Commits, Rests, MovesIn
    <3>2. \A d \in Callers : d # c => step[d] \in {"idle", "called"}
      BY <3>1, OthersRest DEF FileInv, Rests
    <3>3. state.values[k] = Unset /\ state.fallback
      BY <3>1 DEF Unmoved
    <3>4. EntryIn(task, step, draft, state, legacy, k) = draft[c].values[k]
      BY ONLY <2>2, <3>2, <3>3, EntryMoved, c \in Callers
    <3>5. EntryIn(task, step, draft, state, legacy', k) = draft[c].values[k]
      BY ONLY <2>2, <3>2, <3>3, EntryMoved, c \in Callers
    <3> QED BY <3>4, <3>5, EntryIs
  <2> QED BY <2>1, <2>2
<1>8. S \in SUBSET Keys /\ unfinished' \in BOOLEAN
  BY DEF FileInv, FileShapes
<1>9. CASE unfinished
  <2> HIDE DEF S
  <2> QED BY <1>6, <1>7, <1>8, <1>9, ForgetMaps
<1>10. CASE ~unfinished
  <2>1. S = {}
    BY <1>3, <1>10
  <2>2. Kept
    <3> HIDE DEF S
    <3> QED BY <1>7, <2>1 DEF Kept
  <2> QED BY <1>6, <2>2, SilenceMaps
<1> QED BY <1>9, <1>10

LEMMA WriteTemporaryMaps ==
  ASSUME FileInv, NEW c \in Callers, WriteTemporary(c)
  PROVE  FileInv' /\ Port!CredentialNext
<1>1. step[c] = "drafted" /\ Turn(c)
  BY DEF WriteTemporary
<1>2. /\ step' = [step EXCEPT ![c] = "written"] /\ told' = <<>>
      /\ UNCHANGED <<legacy, state, pending, task, draft, removing, stragglers, unfinished>>
  BY DEF WriteTemporary, Goes, Silent, diskVars
<1>3. FileShapes' /\ step'[c] = "written"
  BY <1>2 DEF FileInv, FileShapes
<1>5. Looks(c)' /\ Commits(c)' /\ Removes(c)'
  BY <1>1, <1>2, <1>3
     DEF FileInv, Drafts, Looks, Commits, Removes, Unmoved, Found
<1>6. \A d \in Callers : removing'[d] # {} => step'[d] = "removing"
  BY <1>1, <1>2 DEF FileInv, OneWorks, FileShapes
<1>7. StragglersAreLate'
  BY <1>2 DEF FileInv, StragglersAreLate
<1>8. FileInv'
  BY <1>1, <1>2, <1>3, <1>5, <1>6, <1>7, WorkKeeps
<1>9. \A k : \A d \in Callers : MovesIn(task', step', d, k) <=> MovesIn(task, step, d, k)
  BY <1>1, <1>2 DEF MovesIn, FileInv, FileShapes
<1>10. ASSUME NEW k PROVE Entry(k)' = Entry(k)
  <2>1. {d \in Callers : MovesIn(task', step', d, k)} = {d \in Callers : MovesIn(task, step, d, k)}
    BY <1>9
  <2>2. EntryIn(task', step', draft, state, legacy, k) = EntryIn(task, step, draft, state, legacy, k)
    BY <2>1 DEF EntryIn
  <2> QED BY <1>2, <2>2, EntryIs
<1> QED BY <1>2, <1>8, <1>10, SilenceMaps DEF Kept

LEMMA AskMaps ==
  ASSUME FileInv, NEW c \in Callers, NEW t \in Tasks, Ask(c, t)
  PROVE  FileInv' /\ Port!CredentialNext
<1>1. /\ step[c] = "idle" /\ pending' = Append(pending, c)
      /\ task' = [task EXCEPT ![c] = t] /\ step' = [step EXCEPT ![c] = "called"]
      /\ UNCHANGED <<legacy, state, draft, removing, stragglers, unfinished>> /\ told' = <<>>
  BY DEF Ask, Silent, diskVars
<1>2. /\ pending \in Seq(Callers) /\ pending' \in Seq(Callers)
      /\ Len(pending') = Len(pending) + 1
      /\ \A i \in 1 .. Len(pending) : pending'[i] = pending[i]
      /\ pending'[Len(pending) + 1] = c
  BY <1>1 DEF FileInv, FileShapes
<1>3. FileShapes'
  BY <1>1, <1>2 DEF FileInv, FileShapes
<1>4. /\ step'[c] = "called" /\ task'[c] = t
      /\ \A d \in Callers : d # c => step'[d] = step[d] /\ task'[d] = task[d]
  BY <1>1 DEF FileInv, FileShapes
<1>5. OneWorks'
  <2> SUFFICES ASSUME NEW d \in Callers
      PROVE  /\ ~Rests(d)' => Turn(d)'
             /\ step'[d] # "idle" =>
                  task'[d] \in Tasks /\ \E i \in 1 .. Len(pending') : pending'[i] = d
             /\ removing'[d] # {} => step'[d] = "removing"
    BY DEF OneWorks
  <2>1. CASE d = c
    <3>1. removing[c] = {}
      BY <1>1 DEF FileInv, OneWorks
    <3>2. Len(pending) + 1 \in 1 .. Len(pending')
      BY <1>2
    <3> QED BY <1>1, <1>2, <1>4, <2>1, <3>1, <3>2 DEF Rests
  <2>2. CASE d # c
    <3>1. ASSUME step[d] # "idle"
          PROVE  task[d] \in Tasks /\ \E i \in 1 .. Len(pending') : pending'[i] = d
      <4>1. PICK i \in 1 .. Len(pending) : pending[i] = d
        BY <3>1 DEF FileInv, OneWorks
      <4>2. i \in 1 .. Len(pending') /\ pending'[i] = d
        BY <1>2, <4>1
      <4> QED BY <3>1, <4>2 DEF FileInv, OneWorks
    <3>2. ~Rests(d) => Turn(d)'
      <4> SUFFICES ASSUME ~Rests(d) PROVE Turn(d)'
        OBVIOUS
      <4>1. Turn(d) /\ step[d] # "idle"
        BY DEF FileInv, OneWorks, Rests
      <4>2. PICK i \in 1 .. Len(pending) : pending[i] = d
        BY <4>1 DEF FileInv, OneWorks
      <4>3. 1 \in 1 .. Len(pending)
        BY <1>2, <4>2
      <4> QED BY <1>2, <4>1, <4>3 DEF Turn
    <3> QED BY <1>1, <1>4, <2>2, <3>1, <3>2 DEF FileInv, OneWorks, Rests
  <2> QED BY <2>1, <2>2
<1>6. Drafts'
  <2> SUFFICES ASSUME NEW d \in Callers PROVE Looks(d)' /\ Commits(d)' /\ Removes(d)'
    BY DEF Drafts
  <2>1. CASE d = c
    BY <1>4, <2>1 DEF Looks, Commits, Removes
  <2>2. CASE d # c
    <3>1. step'[d] = step[d] /\ task'[d] = task[d]
      BY <1>4, <2>2
    <3>2. Unmoved(d)' = Unmoved(d) /\ Found(d)' = Found(d)
      BY <1>1, <3>1 DEF Unmoved, Found
    <3> QED BY <1>1, <3>1, <3>2 DEF FileInv, Drafts, Looks, Commits, Removes
  <2> QED BY <2>1, <2>2
<1>7. StragglersAreLate'
  BY <1>1 DEF FileInv, StragglersAreLate
<1>8. \A k : \A d \in Callers : MovesIn(task', step', d, k) <=> MovesIn(task, step, d, k)
  BY <1>1, <1>4 DEF MovesIn
<1>9. ASSUME NEW k PROVE Entry(k)' = Entry(k)
  <2>1. {d \in Callers : MovesIn(task', step', d, k)} = {d \in Callers : MovesIn(task, step, d, k)}
    BY <1>8
  <2>2. EntryIn(task', step', draft, state, legacy, k) = EntryIn(task, step, draft, state, legacy, k)
    BY <2>1 DEF EntryIn
  <2> QED BY <1>1, <2>2, EntryIs
<1> QED BY <1>1, <1>3, <1>5, <1>6, <1>7, <1>9, SilenceMaps DEF Kept, FileInv

\* The state file takes the draft: what a read has moved is as it was, a batch is
\* there as a whole, and after a clear there is nothing.
LEMMA RenameMaps ==
  ASSUME FileInv, NEW c \in Callers, Rename(c)
  PROVE  FileInv' /\ Port!CredentialNext
<1>1. step[c] = "written" /\ Turn(c) /\ Done(c) /\ FileShapes /\ OneWorks
  BY DEF Rename, FileInv
<1>2. state' = draft[c] /\ UNCHANGED <<legacy, stragglers>>
  BY DEF Rename
<1>3. unfinished' = IF task[c].type = "clear" THEN FALSE ELSE unfinished
  BY DEF Rename
<1>4. Commits(c)
  BY DEF FileInv, Drafts
<1>5. /\ \A d \in Callers : step'[d] \in {"idle", "called"}
      /\ OneWorks' /\ FileShapes'
  BY <1>1, <1>2, <1>3, DoneRests DEF FileShapes
<1>6. CASE task[c].type = "read"
  <2>1. PICK k \in Keys : k = task[c].key
    BY <1>1, <1>4, <1>6 DEF Commits, Unmoved
  <2>2. /\ state.values[k] = Unset /\ state.fallback /\ Found(c) \in Values
        /\ draft[c].fallback /\ draft[c].values = [state.values EXCEPT ![k] = Found(c)]
    BY <1>1, <1>4, <1>6, <2>1 DEF Commits, Unmoved
  <2>3. StragglersAreLate'
    BY <1>2, <1>3, <1>6, <2>2 DEF FileInv, StragglersAreLate
  <2>4. FileInv' /\ \A j : Entry(j)' = Plain(state', legacy', j)
    BY <1>5, <2>3, RestKeeps
  <2>5. Entry(k) = Found(c) /\ \A j : j # k => Entry(j) = Plain(state, legacy, j)
    BY <1>1, <1>6, <2>1, DraftedIsEntry
  <2>6. /\ state'.values[k] = Found(c) /\ state'.fallback
        /\ \A j \in Keys : j # k => state'.values[j] = state.values[j]
    BY <1>1, <1>2, <2>2, StateFields
  <2>7. ASSUME NEW j \in Keys PROVE Entry(j)' = Entry(j)
    <3>1. CASE j = k
      <4>1. Plain(state', legacy', k) = Found(c)
        BY <2>2, <2>6, StateFields, <1>1 DEF Plain, Contents
      <4> QED BY <2>4, <2>5, <3>1, <4>1
    <3>2. CASE j # k
      <4>1. Plain(state', legacy', j) = Plain(state, legacy, j)
        BY <1>2, <2>2, <2>6, <3>2 DEF Plain
      <4> QED BY <2>4, <2>5, <3>2, <4>1
    <3> QED BY <3>1, <3>2
  <2>8. told' = <<"read", k, Entry(k)>>
    BY <1>6, <2>1, <2>5 DEF Rename, Found
  <2> QED BY <1>3, <1>6, <2>4, <2>7, <2>8, ReadMaps DEF Kept
<1>7. CASE task[c].type = "write"
  <2>1. PICK batch \in Batches : batch = task[c].batch
    BY <1>1, <1>4, <1>7 DEF Commits, Unmoved
  <2>2. /\ state'.fallback = state.fallback
        /\ state'.values = [k \in Keys |-> IF k \in DOMAIN batch THEN batch[k]
                                           ELSE state.values[k]]
    <3>1. state' = OverlaidOn(state, batch)
      BY <1>1, <1>2, <1>4, <1>7, <2>1 DEF Commits, Unmoved
    <3>2. state \in States
      BY <1>1 DEF FileShapes
    <3> QED BY <3>1, <3>2 DEF OverlaidOn, States
  <2>3. StragglersAreLate'
    BY <1>2, <1>3, <1>7, <2>2 DEF FileInv, StragglersAreLate
  <2>4. FileInv' /\ \A j : Entry(j)' = Plain(state', legacy', j)
    BY <1>5, <2>3, RestKeeps
  <2>5. \A j : Entry(j) = Plain(state, legacy, j)
    BY <1>1, <1>7, UndraftedIsPlain
  <2>6. \A k \in Keys : k \in DOMAIN batch => batch[k] \in Contents
    BY <2>1 DEF Contents
  <2>7. \A k \in Keys : Entry(k)' = IF k \in DOMAIN batch THEN batch[k] ELSE Entry(k)
    BY <1>1, <1>2, <2>2, <2>4, <2>5, <2>6, StateFields DEF Plain
  <2>8. batch \in Port!Updates
    BY <2>1 DEF Port!Updates
  <2>9. told' = <<"write", batch>> /\ unfinished' = unfinished
    BY <1>3, <1>7, <2>1 DEF Rename
  <2> QED BY <2>4, <2>7, <2>8, <2>9 DEF Port!CredentialNext, Port!Write
<1>8. CASE task[c].type = "clear"
  <2>1. state' = EmptyState(FALSE)
    BY <1>1, <1>2, <1>4, <1>8 DEF Commits, Unmoved
  <2>2. ~state'.fallback /\ \A k \in Keys : state'.values[k] = Unset
    BY <2>1 DEF EmptyState, NoState
  <2>3. StragglersAreLate'
    BY <2>2 DEF StragglersAreLate
  <2>4. FileInv' /\ \A j : Entry(j)' = Plain(state', legacy', j)
    BY <1>5, <2>3, RestKeeps
  <2>5. \A k \in Keys : Entry(k)' = Absent
    BY <2>2, <2>4 DEF Plain
  <2>6. told' = <<"clear">> /\ unfinished' = FALSE
    BY <1>3, <1>8 DEF Rename
  <2> QED BY <2>4, <2>5, <2>6 DEF Port!CredentialNext, Port!Clear, Port!Nothing
<1> QED BY <1>1, <1>4, <1>6, <1>7, <1>8 DEF Commits, Unmoved

\* When all work ends unfinished, what a read was moving is where it was, or was
\* taken by a clear.
LEMMA AbandonedMaps ==
  ASSUME FileInv, UNCHANGED <<legacy, state>>, told' = <<>>,
         unfinished' \in {unfinished, FALSE},
         FileInv', \A k : Entry(k)' = Plain(state, legacy, k)
  PROVE  Port!CredentialNext
<1>1. CASE \A k \in Keys : Entry(k) = Plain(state, legacy, k)
  <2>1. Kept
    BY <1>1 DEF Kept
  <2>2. CASE unfinished' = unfinished
    BY <2>1, <2>2, SilenceMaps
  <2>3. CASE unfinished' # unfinished
    <3>1. unfinished /\ unfinished' \in BOOLEAN
      BY <2>3 DEF FileInv, FileShapes
    <3>2. \A k \in Keys : Entry(k)' = IF k \in {} THEN Absent ELSE Entry(k)
      BY <2>1 DEF Kept
    <3> QED BY <3>1, <3>2, ForgetMaps
  <2> QED BY <2>2, <2>3
<1>2. CASE \E k \in Keys : Entry(k) # Plain(state, legacy, k)
  <2>1. PICK k \in Keys : Entry(k) # Plain(state, legacy, k)
    BY <1>2
  <2>2. PICK c \in Callers : MovesIn(task, step, c, k)
    <3>1. ASSUME \A c \in Callers : ~MovesIn(task, step, c, k) PROVE FALSE
      <4>1. EntryIn(task, step, draft, state, legacy, k) = Plain(state, legacy, k)
        BY ONLY <3>1, EntryAtRest
      <4> QED BY <2>1, <4>1, EntryIs
    <3> QED BY <3>1
  <2>3. task[c].type = "read" /\ task[c].key = k /\ step[c] \in {"drafted", "written"}
    BY <2>2 DEF MovesIn
  <2>4. Entry(k) = Found(c) /\ \A j : j # k => Entry(j) = Plain(state, legacy, j)
    BY <2>3, DraftedIsEntry
  <2>5. /\ state.values[k] = Unset /\ state.fallback
        /\ legacy[LegacyOf[k]] \in {Found(c), Absent}
        /\ legacy[LegacyOf[k]] = Absent => unfinished
    BY <2>3 DEF FileInv, Drafts, Commits, Unmoved
  <2>6. Plain(state, legacy, k) = legacy[LegacyOf[k]]
    BY <2>5 DEF Plain
  <2>7. Plain(state, legacy, k) = Absent /\ unfinished
    BY <2>1, <2>4, <2>5, <2>6
  <2>8. \A j \in Keys : Entry(j)' = IF j \in {k} THEN Absent ELSE Entry(j)
    BY <2>4, <2>7
  <2>9. unfinished' \in BOOLEAN /\ {k} \in SUBSET Keys
    BY DEF FileInv, FileShapes
  <2> QED BY <2>7, <2>8, <2>9, ForgetMaps
<1> QED BY <1>1, <1>2

LEMMA FileFailsMaps ==
  ASSUME FileInv, NEW c \in Callers, FileFails(c)
  PROVE  FileInv' /\ Port!CredentialNext
<1>1. step[c] # "idle" /\ Turn(c) /\ Done(c) /\ FileShapes /\ OneWorks
  BY DEF FileFails, FileInv
<1>2. UNCHANGED <<legacy, state, unfinished>> /\ told' = <<>>
  BY DEF FileFails, Silent, diskVars
<1>3. stragglers' \subseteq stragglers \cup removing[c]
  BY DEF FileFails
<1>4. removing[c] \subseteq LegacyFiles /\ (removing[c] # {} => unfinished)
  BY DEF FileInv, FileShapes, OneWorks, Drafts, Removes
<1>5. /\ \A d \in Callers : step'[d] \in {"idle", "called"}
      /\ OneWorks' /\ FileShapes'
  BY <1>1, <1>2, <1>3, <1>4, DoneRests DEF FileShapes
<1>6. StragglersAreLate'
  BY <1>2, <1>3, <1>4 DEF FileInv, StragglersAreLate
<1>7. FileInv' /\ \A k : Entry(k)' = Plain(state', legacy', k)
  BY <1>5, <1>6, RestKeeps
<1> QED BY <1>2, <1>7, AbandonedMaps

\* What no caller is at.
LEMMA NothingAsked ==
  /\ <<>> \in Seq(Callers)
  /\ [c \in Callers |-> NoTask] \in [Callers -> Tasks \cup {NoTask}]
  /\ [c \in Callers |-> "idle"] \in
       [Callers -> {"idle", "called", "looking", "removing", "drafted", "written"}]
  /\ [c \in Callers |-> NoState] \in [Callers -> States]
  /\ [c \in Callers |-> {}] \in [Callers -> SUBSET LegacyFiles]
<1>1. NoState \in States
  BY DEF NoState, States
<1>2. <<>> \in Seq(Callers)
  OBVIOUS
<1>3. [c \in Callers |-> NoTask] \in [Callers -> Tasks \cup {NoTask}]
  OBVIOUS
<1>4. [c \in Callers |-> {}] \in [Callers -> SUBSET LegacyFiles]
  OBVIOUS
<1> QED BY <1>1, <1>2, <1>3, <1>4

LEMMA FileCrashMaps ==
  ASSUME FileInv, FileCrash
  PROVE  FileInv' /\ Port!CredentialNext
<1>1. /\ pending' = <<>> /\ task' = [c \in Callers |-> NoTask]
      /\ step' = [c \in Callers |-> "idle"] /\ draft' = [c \in Callers |-> NoState]
      /\ removing' = [c \in Callers |-> {}] /\ stragglers' = {} /\ unfinished' = FALSE
      /\ UNCHANGED <<legacy, state>> /\ told' = <<>>
  BY DEF FileCrash, Silent, diskVars
<1>2. FileShapes
  BY DEF FileInv
<1>3. FileShapes'
  BY <1>1, <1>2, NothingAsked DEF FileShapes
<1>4. \A d \in Callers : step'[d] = "idle" /\ removing'[d] = {}
  BY <1>1
<1>6. OneWorks' /\ StragglersAreLate'
  BY <1>1, <1>4 DEF OneWorks, Rests, StragglersAreLate
<1>5. FileInv' /\ \A k : Entry(k)' = Plain(state', legacy', k)
  BY <1>3, <1>4, <1>6, RestKeeps
<1> QED BY <1>1, <1>5, AbandonedMaps

LEMMA FilesStandStill ==
  ASSUME FileInv, UNCHANGED fileVars
  PROVE  FileInv' /\ UNCHANGED <<[k \in Keys |-> Entry(k)], unfinished, told>>
<1>1. UNCHANGED <<legacy, state, pending, task, step, draft, removing, stragglers,
                  unfinished, told>>
  BY DEF fileVars, diskVars, taskVars
<1>2. FileInv'
  <2>1. FileShapes' /\ StragglersAreLate'
    BY <1>1 DEF FileInv, FileShapes, StragglersAreLate
  <2>2. OneWorks'
    BY <1>1 DEF FileInv, OneWorks, Rests, Turn
  <2>3. \A c : Unmoved(c)' = Unmoved(c) /\ Found(c)' = Found(c)
    BY <1>1 DEF Unmoved, Found
  <2>4. Drafts'
    BY <1>1, <2>3 DEF FileInv, Drafts, Looks, Commits, Removes
  <2> QED BY <2>1, <2>2, <2>4 DEF FileInv
<1>3. \A k : Entry(k)' = Entry(k)
  BY <1>1, EntryIs
<1> QED BY <1>1, <1>2, <1>3

LEMMA StepsMapToPort ==
  FileInv /\ [FileNext]_fileVars =>
    FileInv' /\ [Port!CredentialNext]_<<[k \in Keys |-> Entry(k)], unfinished, told>>
<1> SUFFICES ASSUME FileInv, [FileNext]_fileVars
    PROVE  FileInv' /\ [Port!CredentialNext]_<<[k \in Keys |-> Entry(k)], unfinished, told>>
  OBVIOUS
<1>1. CASE UNCHANGED fileVars
  BY <1>1, FilesStandStill
<1>2. ASSUME NEW f \in LegacyFiles, StragglerRemoves(f)
      PROVE  FileInv' /\ Port!CredentialNext
  <2>1. /\ f \in stragglers /\ legacy' = [legacy EXCEPT ![f] = Absent]
        /\ stragglers' = stragglers \ {f} /\ told' = <<>>
        /\ UNCHANGED <<state, pending, task, step, draft, removing, unfinished>>
    BY <1>2 DEF StragglerRemoves, Silent, taskVars
  <2> QED BY <2>1, SameWork
<1> QED BY <1>1, <1>2, AskMaps, ReadStateMaps, ReadLegacyMaps, WriteDraftsMaps,
           ListLegacyMaps, ClearDraftsMaps, RemoveFileMaps, WriteTemporaryMaps, RenameMaps,
           FileFailsMaps, FileCrashMaps DEF FileNext

\* The store in files keeps what the port promises (stores/file.ts, ports.ts): a
\* batch is there as a whole or not at all, a read tells what was last written, and
\* nothing deleted or cleared comes back, for any entries, callers, legacy files
\* and number of crashes.
THEOREM FilesAreThePort == FileSpec => ImplementsCredentials
<1>1. FileInit => FileInv /\ Port!CredentialInit
  <2> SUFFICES ASSUME FileInit PROVE FileInv /\ Port!CredentialInit
    OBVIOUS
  <2>1. FileShapes
    <3>1. NoState \in States
      BY DEF NoState, States
    <3> QED BY <3>1, NothingAsked DEF FileInit, FileShapes, Contents
  <2>2. \A c \in Callers : step[c] = "idle" /\ removing[c] = {}
    BY DEF FileInit
  <2>3. FileShapes /\ OneWorks /\ StragglersAreLate /\ Drafts
    BY <2>1, <2>2 DEF FileInit, OneWorks, Rests, StragglersAreLate, Drafts, Looks, Commits,
       Removes
  <2>4. \A k : \A c \in Callers : ~MovesIn(task, step, c, k)
    BY DEF FileInit, MovesIn
  <2>5. \A k : Entry(k) = Plain(state, legacy, k)
    BY <2>4, EntryIs, EntryAtRest
  <2>6. \A k \in Keys : Entry(k) \in Values \cup {Absent}
    BY <2>3, <2>5, StateFields DEF Plain, FileInit, NoState, Contents
  <2> QED BY <2>3, <2>6 DEF FileInv, FileInit, Port!CredentialInit, Port!Entries
<1>2. QED
  BY <1>1, StepsMapToPort, PTL
     DEF FileSpec, ImplementsCredentials, Port!CredentialSpec, Port!credentialVars

=============================================================================
