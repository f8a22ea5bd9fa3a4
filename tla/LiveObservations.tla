-------------------------- MODULE LiveObservations --------------------------
(***************************************************************************)
(* What a client says of who is present (client.ts): observations it was   *)
(* handed with the claim they were made under (runtime.ts), kept by the     *)
(* address they came for and answered for the whole contact, and the       *)
(* deliveries in which its listeners read them. A delivery is synchronous:  *)
(* no frame and no renewal comes in between, but the clock moves during one, *)
(* and a listener may start another inside it, stop the runtime, close the  *)
(* client, and add or remove listeners.                                    *)
(*                                                                         *)
(* All addresses are forms of one contact once they are consolidated. Each  *)
(* listener hears of every commit. The connection is kept and answered like *)
(* one more address that nothing removes. A startup that stop() overtakes   *)
(* gives back what it is granted after that, which is left out.             *)
(***************************************************************************)
EXTENDS Naturals, Sequences, FiniteSetsExt

CONSTANTS
  Addresses,
  Kinds,
  NoKind,       \* the answer when nothing is to be said
  Freshness,
  LeaseTime,
  Listeners,    \* bounds for model checking: on the listeners ever added,
  MaxClock,     \* on the clock,
  MaxFrames,    \* on the observations,
  MaxDepth      \* and on deliveries inside one another

ASSUME ObservationsAssumption ==
  /\ NoKind \notin Kinds
  /\ Listeners \in Nat /\ Freshness \in Nat \ {0} /\ LeaseTime \in Nat \ {0}
  /\ MaxClock \in Nat /\ MaxFrames \in Nat /\ MaxDepth \in Nat \ {0}

VARIABLES
  clock,
  claim,         \* the runtime's, renewed or given back
  granted,        \* the last fencing token
  source,        \* the runtime: its stop gives the claim back, then closes the frames
  consolidated,  \* the client knows the addresses to be one contact's
  observed,      \* the frame it holds for each address
  attached,      \* it follows, and so has live truth
  listening,     \* the listeners it has, numbered as they were added
  added,         \* how many there have been
  deliveries,    \* under way, the innermost last
  said,          \* what listeners were answered in them, by address
  closing,       \* they tell that nothing will follow
  frames,        \* every observation the client was handed
  over           \* and those that ended by an `unavailable` of their contact

liveVars == <<clock, claim, granted, source, consolidated, observed, attached,
              listening, added, deliveries, said, closing, frames, over>>

NoLiveClaim == [token |-> 0, until |-> 0]
Claims == [token : 0 .. MaxFrames, until : 0 .. MaxClock + LeaseTime]
NoFrame == [number |-> 0]
Frames ==
  [number : 1 .. MaxFrames, address : Addresses, kind : Kinds,
   until : 0 .. MaxClock + Freshness, token : 1 .. MaxFrames]
Bases == [at : 0 .. MaxClock, claim : Claims, attached : BOOLEAN]

LiveTypeOK ==
  /\ clock \in 0 .. MaxClock
  /\ claim \in Claims /\ claim.token \in {0, granted}
  /\ source \in {"open", "stopping", "over"} /\ (source # "open" => claim = NoLiveClaim)
  /\ consolidated \in BOOLEAN /\ attached \in BOOLEAN
  /\ observed \in [Addresses -> frames \cup {NoFrame}]
  /\ added \in 0 .. Listeners /\ listening \subseteq 1 .. added
  /\ \A d \in DOMAIN deliveries :
       deliveries[d].left \subseteq 1 .. added /\ deliveries[d].from \in Bases
  /\ said \subseteq [Addresses -> Kinds \cup {NoKind}]
  /\ deliveries = <<>> => said = {} /\ ~closing
  /\ frames \subseteq Frames /\ over \subseteq frames

LiveInit ==
  /\ clock = 0 /\ claim = NoLiveClaim /\ granted = 0 /\ source = "open"
  /\ consolidated = FALSE
  /\ observed = [a \in Addresses |-> NoFrame]
  /\ attached = TRUE
  /\ listening = {} /\ added = 0
  /\ deliveries = <<>> /\ said = {} /\ closing = FALSE
  /\ frames = {} /\ over = {}

-----------------------------------------------------------------------------
(***************************************************************************)
(* Answers. One basis is sampled for a delivery, and everything that is    *)
(* read in it is derived from that.                                        *)
(***************************************************************************)
Sample == [at |-> clock, claim |-> claim, attached |-> attached]

\* The addresses that speak for one subject.
FormsOf(a) == IF consolidated THEN Addresses ELSE {a}

\* An observation is true under the claim it was made under, and until then.
Current(frame, from) ==
  /\ frame # NoFrame /\ from.attached
  /\ from.claim # NoLiveClaim /\ from.claim.token = frame.token
  /\ from.at < frame.until /\ from.at < from.claim.until

CurrentForms(a, from) == {b \in FormsOf(a) : Current(observed[b], from)}

\* The newest of them, by arrival.
NewestForm(forms) ==
  CHOOSE b \in forms : \A c \in forms : observed[c].number <= observed[b].number

Answer(a, from) ==
  LET forms == CurrentForms(a, from) IN
  IF forms = {} THEN NoKind ELSE observed[NewestForm(forms)].kind

-----------------------------------------------------------------------------
(***************************************************************************)
(* Deliveries. A commit samples the basis once its change is made, unless  *)
(* it is made inside a delivery.                                           *)
(***************************************************************************)
Delivering == deliveries # <<>>
Innermost == deliveries[Len(deliveries)]

Sampled == IF Delivering THEN Innermost.from ELSE Sample'

\* It is due to the listeners there are when it starts.
Deliver(outer) == deliveries' = Append(outer, [left |-> listening, from |-> Sampled])

\* They are called in the order they were added, unless they were removed since.
Due(l) ==
  /\ Delivering
  /\ l \in Innermost.left \cap listening
  /\ \A k \in Innermost.left \cap listening : l <= k

\* A client whose reads ask the runtime for its claim each time.
BasisAsked == [Innermost.from EXCEPT !.claim = claim]

Basis == Innermost.from

\* A listener is called: it reads, and the next one is due.
Heard == said' = said \cup {[a \in Addresses |-> Answer(a, Basis)]}
Passed(l) == [deliveries EXCEPT ![Len(deliveries)].left = @ \ {l}]

Calls(l) ==
  /\ Due(l) /\ Heard
  /\ UNCHANGED <<clock, granted, consolidated, observed, closing, frames, over>>

Read(l) ==
  /\ Calls(l)
  /\ deliveries' = Passed(l)
  /\ UNCHANGED <<claim, source, attached, listening, added>>

\* It pages a chat: messages.older() commits at once.
ReadAndPage(l) ==
  /\ Calls(l)
  /\ attached /\ Len(deliveries) < MaxDepth
  /\ UNCHANGED <<claim, source, attached, listening, added>>
  /\ Deliver(Passed(l))

\* It closes the client, which tells of the page reads this ends, if any.
ReadAndClose(l) ==
  /\ Calls(l)
  /\ attached
  /\ attached' = FALSE
  /\ UNCHANGED <<claim, source, listening, added>>
  /\ Deliver(Passed(l)) \/ deliveries' = Passed(l)

\* runtime.stop(): by the time it returns, the claim is cleared.
StopsRuntime ==
  /\ source = "open"
  /\ source' = "stopping" /\ claim' = NoLiveClaim

ReadAndStop(l) ==
  /\ Calls(l)
  /\ StopsRuntime
  /\ deliveries' = Passed(l)
  /\ UNCHANGED <<attached, listening, added>>

Adds == added < Listeners /\ added' = added + 1 /\ listening' = listening \cup {added'}

Removes(k) == k \in listening /\ listening' = listening \ {k} /\ UNCHANGED added

\* It subscribes another listener, or ends the subscription of one: its own too.
ReadAndSubscribe(l) ==
  /\ Calls(l)
  /\ Adds \/ \E k \in listening : Removes(k)
  /\ deliveries' = Passed(l)
  /\ UNCHANGED <<claim, source, attached>>

Delivered ==
  /\ Delivering /\ Innermost.left \cap listening = {}
  /\ deliveries' = SubSeq(deliveries, 1, Len(deliveries) - 1)
  /\ IF Len(deliveries) = 1
     THEN said' = {} /\ closing' = FALSE
     ELSE UNCHANGED <<said, closing>>
  /\ UNCHANGED <<clock, claim, granted, source, consolidated, observed, attached,
                 listening, added, frames, over>>

-----------------------------------------------------------------------------
(***************************************************************************)
(* The clock, the claim and the subscriptions, which change without a      *)
(* commit.                                                                 *)
(***************************************************************************)
Quiet == UNCHANGED <<consolidated, observed, attached, deliveries, said, closing,
                     frames, over>>

ClockTicks ==
  /\ clock < MaxClock
  /\ clock' = clock + 1
  /\ Quiet /\ UNCHANGED <<claim, granted, source, listening, added>>

\* What comes between two deliveries.
Between == ~Delivering /\ Quiet /\ UNCHANGED clock

ClaimGranted ==
  /\ Between /\ source = "open" /\ claim = NoLiveClaim /\ granted < MaxFrames
  /\ granted' = granted + 1
  /\ claim' = [token |-> granted', until |-> clock + LeaseTime]
  /\ UNCHANGED <<source, listening, added>>

ClaimRenewed ==
  /\ Between /\ claim # NoLiveClaim /\ clock < claim.until
  /\ claim' = [claim EXCEPT !.until = clock + LeaseTime]
  /\ UNCHANGED <<granted, source, listening, added>>

\* A startup that fails gives it back; another may be tried.
ClaimGivenBack ==
  /\ Between /\ claim # NoLiveClaim
  /\ claim' = NoLiveClaim
  /\ UNCHANGED <<granted, source, listening, added>>

\* stop() outside of any delivery, by the application or by a renewal that fails.
RuntimeStops ==
  /\ Between /\ StopsRuntime
  /\ UNCHANGED <<granted, listening, added>>

Subscriptions ==
  /\ Between
  /\ Adds \/ \E k \in listening : Removes(k)
  /\ UNCHANGED <<claim, granted, source>>

\* Once the frame loop of a closed client has ended, it forgets its listeners.
ListenersReleased ==
  /\ Between /\ ~attached
  /\ listening' = {}
  /\ UNCHANGED <<claim, granted, source, added>>

-----------------------------------------------------------------------------
(***************************************************************************)
(* Commits of the client: frames, which it is handed only with a claim, a  *)
(* patch that consolidates the contact, and the end.                       *)
(***************************************************************************)
Commits ==
  ~Delivering /\ attached /\ UNCHANGED <<clock, claim, granted, listening, added>>

\* An observation: kept for its address, whatever that belongs to.
Present(a) ==
  /\ Commits /\ claim # NoLiveClaim
  /\ Cardinality(frames) < MaxFrames
  /\ \E kind \in Kinds :
       LET frame == [number |-> Cardinality(frames) + 1, address |-> a, kind |-> kind,
                     until |-> clock + Freshness, token |-> claim.token]
       IN observed' = [observed EXCEPT ![a] = frame] /\ frames' = frames \cup {frame}
  /\ UNCHANGED <<source, consolidated, attached, said, closing, over>>
  /\ Deliver(deliveries)

\* A client that forgets the address that is gone.
ReleasedAlone(a) == {a}

Released(a) == FormsOf(a)

\* `unavailable`: whoever is gone is gone under every address known of him.
Unavailable(a) ==
  /\ Commits /\ claim # NoLiveClaim
  /\ observed' = [b \in Addresses |-> IF b \in Released(a) THEN NoFrame ELSE observed[b]]
  /\ over' = over \cup {f \in frames : f.address \in FormsOf(a)}
  /\ UNCHANGED <<source, consolidated, attached, said, closing, frames>>
  /\ IF observed' # observed THEN Deliver(deliveries) ELSE UNCHANGED deliveries

\* A patch makes the addresses one contact's.
Consolidated ==
  /\ Commits /\ ~consolidated
  /\ consolidated' = TRUE
  /\ UNCHANGED <<source, observed, attached, said, closing, frames, over>>
  /\ Deliver(deliveries)

\* The terminal frame of a runtime that was stopped.
RuntimeCloses ==
  /\ Commits /\ source = "stopping"
  /\ source' = "over" /\ closing' = TRUE
  /\ UNCHANGED <<consolidated, observed, attached, said, frames, over>>
  /\ Deliver(deliveries)

\* The frame loop fails: the end and its announcement are one commit.
FollowingFails ==
  /\ Commits
  /\ attached' = FALSE /\ closing' = TRUE
  /\ UNCHANGED <<source, consolidated, observed, said, frames, over>>
  /\ Deliver(deliveries)

\* client.close(), outside of any delivery.
ClientCloses ==
  /\ Commits
  /\ attached' = FALSE
  /\ UNCHANGED <<source, consolidated, observed, said, closing, frames, over>>
  /\ Deliver(deliveries) \/ UNCHANGED deliveries

LiveNext ==
  \/ ClockTicks \/ ClaimGranted \/ ClaimRenewed \/ ClaimGivenBack
  \/ RuntimeStops \/ Subscriptions \/ ListenersReleased
  \/ \E l \in listening :
       \/ Read(l) \/ ReadAndPage(l) \/ ReadAndClose(l)
       \/ ReadAndStop(l) \/ ReadAndSubscribe(l)
  \/ Delivered
  \/ Consolidated \/ RuntimeCloses \/ FollowingFails \/ ClientCloses
  \/ \E a \in Addresses : Present(a) \/ Unavailable(a)

LiveSpec == LiveInit /\ [][LiveNext]_liveVars

-----------------------------------------------------------------------------
(***************************************************************************)
(* Properties.                                                             *)
(***************************************************************************)
\* Whatever the client is asked for a contact, by whichever of its addresses,
\* it says the last thing observed that is still true: not expired, made under
\* the claim in force, and not ended by an `unavailable` for an address that was
\* then known to be the same contact's; and nothing once it does not follow.
Standing(a) == {f \in frames \ over : f.address \in FormsOf(a) /\ Current(f, Sample)}

LatestTruthIsSaid ==
  ~Delivering =>
    \A a \in Addresses :
      IF Standing(a) = {} THEN Answer(a, Sample) = NoKind
      ELSE \E f \in Standing(a) :
             /\ \A g \in Standing(a) : g.number <= f.number
             /\ Answer(a, Sample) = f.kind

\* "A deadline crossing during fanout cannot split one transition into two
\* observed values" (ADR-0028), nor can a listener that pages, closes the client,
\* adds or removes listeners, or stops the runtime and so clears its claim before
\* the others are called (client.ts:113); and the delivery that tells that nothing
\* will follow, which may be the last a listener gets, reports nobody as present.
OneBurstOneValue ==
  /\ Cardinality(said) <= 1
  /\ closing => \A answers \in said : \A a \in Addresses : answers[a] = NoKind
=============================================================================
