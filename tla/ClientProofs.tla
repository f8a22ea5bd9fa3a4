---------------------------- MODULE ClientProofs ----------------------------
(***************************************************************************)
(* What a client shows is the mirror as of one revision, and the messages   *)
(* paged into it leave no hole and take nothing back; it misses no receipt, *)
(* and no receipt is there before its media: for any messages, batches,    *)
(* page sizes, revisions, operations, calls and crashes.                   *)
(***************************************************************************)
EXTENDS ClientMirror, ClientOperations, WellFoundedInduction, FiniteSetTheorems, TLAPS

(***************************************************************************)
(* Extremes of sets of numbers.                                            *)
(***************************************************************************)
\* Numbers are well founded.
LEMMA LeastIsThere ==
  ASSUME NEW S, S \subseteq Nat, S # {}
  PROVE  Min(S) \in S /\ \A y \in S : Min(S) <= y
<1>1. \E x \in S : \A y \in S : ~ (y < x)
  <2> DEFINE R == OpToRel(<, Nat)
  <2>1. IsWellFoundedOn(R, Nat)
    BY NatLessThanWellFounded
  <2>2. PICK x \in S : \A y \in S : ~ (<<y, x>> \in R)
    <3> HIDE DEF R
    <3> QED BY <2>1, WFMin
  <2>3. \A y \in S : ~ (y < x)
    BY <2>2 DEF OpToRel
  <2> HIDE DEF R
  <2> QED BY <2>3
<1>2. \E x \in S : \A y \in S : x <= y
  BY <1>1
<1> QED BY <1>2 DEF Min

\* The greatest is what is least far from a bound.
LEMMA GreatestIsThere ==
  ASSUME NEW n \in Nat, NEW S, S \subseteq 0 .. n, S # {}
  PROVE  Max(S) \in S /\ \A y \in S : Max(S) >= y
<1> DEFINE T == {n - x : x \in S}
<1>1. T \subseteq Nat /\ T # {}
  <2>1. \A x \in S : n - x \in Nat
    OBVIOUS
  <2> QED BY <2>1
<1>2. PICK t \in T : \A u \in T : t <= u
  <2> HIDE DEF T
  <2> QED BY <1>1, LeastIsThere
<1>3. PICK x \in S : t = n - x
  OBVIOUS
<1>4. \A y \in S : x >= y
  <2> SUFFICES ASSUME NEW y \in S PROVE x >= y
    OBVIOUS
  <2>1. n - x <= n - y
    BY <1>2, <1>3
  <2>2. x \in Int /\ y \in Int
    OBVIOUS
  <2> QED BY <2>1, <2>2
<1> QED BY <1>4 DEF Max

(***************************************************************************)
(* The last revision up to r that changed k.                               *)
(***************************************************************************)
Last(k, l, r) == Max({0} \cup {i \in 1 .. r : k \in l[i]})

LEMMA VersionIsLast ==
  \A k, r : Version(k, r) = Last(k, log, r)
BY DEF Version, Last

LEMMA LastIs ==
  ASSUME NEW k, NEW l, NEW r \in Nat
  PROVE  /\ Last(k, l, r) \in 0 .. r
         /\ Last(k, l, r) # 0 => k \in l[Last(k, l, r)]
         /\ \A i \in 1 .. r : k \in l[i] => i <= Last(k, l, r)
<1> DEFINE S == {0} \cup {i \in 1 .. r : k \in l[i]}
<1>1. S \subseteq 0 .. r /\ S # {}
  OBVIOUS
<1>2. Max(S) \in S /\ \A y \in S : Max(S) >= y
  <2> HIDE DEF S
  <2> QED BY <1>1, GreatestIsThere
<1>3. Last(k, l, r) = Max(S)
  BY DEF Last
<1> HIDE DEF Last
<1> QED BY <1>2, <1>3

\* It depends on nothing that comes later.
LEMMA LastLooksBack ==
  ASSUME NEW k, NEW l, NEW m, NEW r \in Nat, \A i \in 1 .. r : l[i] = m[i]
  PROVE  Last(k, l, r) = Last(k, m, r)
<1>1. {i \in 1 .. r : k \in l[i]} = {i \in 1 .. r : k \in m[i]}
  OBVIOUS
<1> QED BY <1>1 DEF Last

\* A later one differs only by a change after r.
LEMMA LastMoves ==
  ASSUME NEW k, NEW l, NEW r \in Nat, NEW q \in Nat, r <= q
  PROVE  /\ Last(k, l, r) <= Last(k, l, q)
         /\ Last(k, l, q) # Last(k, l, r) => Last(k, l, q) > r
<1> DEFINE a == Last(k, l, r)
           b == Last(k, l, q)
<1>1. /\ a \in 0 .. r /\ (a # 0 => k \in l[a])
      /\ \A i \in 1 .. r : k \in l[i] => i <= a
  BY LastIs
<1>2. /\ b \in 0 .. q /\ (b # 0 => k \in l[b])
      /\ \A i \in 1 .. q : k \in l[i] => i <= b
  BY LastIs
<1> HIDE DEF a, b
<1>3. a <= b
  BY <1>1, <1>2
<1>4. b # a => b > r
  BY <1>1, <1>2, <1>3
<1> QED BY <1>3, <1>4 DEF a, b

LEMMA LastNext ==
  ASSUME NEW k, NEW l, NEW r \in Nat
  PROVE  Last(k, l, r + 1) = IF k \in l[r + 1] THEN r + 1 ELSE Last(k, l, r)
<1> DEFINE a == Last(k, l, r)
           b == Last(k, l, r + 1)
<1>1. /\ a \in 0 .. r /\ (a # 0 => k \in l[a])
      /\ \A i \in 1 .. r : k \in l[i] => i <= a
  BY LastIs
<1>2. /\ b \in 0 .. r + 1 /\ (b # 0 => k \in l[b])
      /\ \A i \in 1 .. r + 1 : k \in l[i] => i <= b
  BY LastIs
<1> HIDE DEF a, b
<1>3. b = IF k \in l[r + 1] THEN r + 1 ELSE a
  BY <1>1, <1>2
<1> QED BY <1>3 DEF a, b

-----------------------------------------------------------------------------
(***************************************************************************)
(* The mirror: its types, those of the frame loop and those of the view.   *)
(***************************************************************************)
Versions == 0 .. Len(log)
Marks == {"stored", "loading", "exhausted"}

LogIs == log \in Seq(SUBSET Keys) /\ log # <<>>

LoopTypes ==
  /\ writer \in {"before", "own", "after", "closed"}
  /\ unpublished \in {0, Len(log)} /\ published \in Versions
  /\ follower \in {"unstarted", "reading", "looping", "hydrating", "done", "failed"}
  /\ queued \in Seq(Versions)
  /\ pinned \in Versions
  /\ aborted \in BOOLEAN /\ ready \in BOOLEAN /\ closed \in BOOLEAN

ReadOf(read) == read \in [number : Nat, before : 1 .. Beyond, at : Versions]

ViewTypes ==
  /\ applied \in Versions /\ following \in BOOLEAN
  /\ records \in [Keys -> Versions]
  /\ chat \in [number : Nat, rows : [Keys -> Versions], before : 1 .. Beyond, older : Marks]
  /\ \A read \in reads : ReadOf(read)

(***************************************************************************)
(* What makes a page harmless. Whatever has changed since the store was     *)
(* asked for it came to the open chat as a patch, for the chat was retained *)
(* all the while; and the page continues where the chat is.                *)
(***************************************************************************)
ShownWhileRead ==
  \A read \in reads : read.number = chat.number /\ read.at # 0 =>
    \A i \in 1 .. applied : i > read.at => \A k \in log[i] : chat.rows[k] # 0

ReadsInto ==
  following => \A read \in reads : read.number = chat.number =>
    /\ chat.older = "loading" /\ read.before = chat.before
    /\ \A other \in reads : other.number = chat.number => other = read

Forgotten == ~Retained => chat = NoChat

\* Who is still to be answered.
Awaited ==
  /\ \A read \in reads : read.number # 0
  /\ ~following => chat.older # "loading"
  /\ chat.older = "loading" => \E read \in reads : read.number = chat.number

Types == LogIs /\ LoopTypes /\ ViewTypes
View == ViewIsARevision /\ NeverBehind /\ NoHole
Pages == ShownWhileRead /\ ReadsInto /\ Awaited /\ Forgotten

MirrorInv == Types /\ View /\ Pages

LEMMA TypesAre == MirrorInv => TypeOK
BY DEF MirrorInv, Types, LogIs, LoopTypes, ViewTypes, ReadOf, Versions, Marks, Pages, Awaited, TypeOK

LEMMA InitMirror == Init => MirrorInv
<1> SUFFICES ASSUME Init PROVE MirrorInv
  OBVIOUS
<1> USE MirrorAssumption DEF Init
<1>1. LogIs /\ Len(log) = 1
  <2>1. PICK b \in Batches : log = <<b>>
    OBVIOUS
  <2>2. b \in SUBSET Keys
    OBVIOUS
  <2>3. <<b>> \in Seq(SUBSET Keys) /\ <<b>> # <<>> /\ Len(<<b>>) = 1
    BY <2>2
  <2> QED BY <2>1, <2>3 DEF LogIs
<1>2. NoChat \in [number : Nat, rows : [Keys -> Versions], before : 1 .. Beyond, older : Marks]
  <2>1. Newest + 1 \in 1 .. Newest + 1 /\ 0 \in Versions
    BY <1>1 DEF Versions
  <2> QED BY <2>1 DEF NoChat, Beyond, Marks
<1>3. LoopTypes
  <2>1. 0 \in Versions /\ <<>> \in Seq(Versions)
    BY <1>1 DEF Versions
  <2> QED BY <2>1 DEF LoopTypes
<1>4. ViewTypes
  <2>1. 0 \in Versions
    BY <1>1 DEF Versions
  <2> QED BY <1>2, <2>1 DEF ViewTypes
<1>5. View
  BY DEF View, ViewIsARevision, NeverBehind, NoHole, NoChat, Retained
<1>6. Pages
  BY DEF Pages, ShownWhileRead, ReadsInto, Awaited, Forgotten, NoChat
<1> QED BY <1>1, <1>3, <1>4, <1>5, <1>6 DEF MirrorInv, Types

-----------------------------------------------------------------------------
(***************************************************************************)
(* Steps that leave the view alone.                                        *)
(***************************************************************************)
viewVars == <<log, applied, records, following, chat, reads>>

LEMMA ViewStays ==
  ASSUME MirrorInv, UNCHANGED viewVars, LoopTypes', ready' = ready
  PROVE  MirrorInv'
<1> USE DEF MirrorInv, viewVars
<1>1. LogIs' /\ ViewTypes'
  BY DEF Types, LogIs, ViewTypes, ReadOf, Versions
<1>2. View'
  BY DEF View, ViewIsARevision, NeverBehind, NoHole, MirrorAt, Version, Retained
<1>3. Pages'
  BY DEF Pages, ShownWhileRead, ReadsInto, Awaited, Forgotten, Retained
<1> QED BY <1>1, <1>2, <1>3 DEF Types

\* A frame that was heard is a revision or the terminal frame.
LEMMA FramesAre ==
  ASSUME Types
  PROVE  /\ Closed \in Versions /\ <<>> \in Seq(Versions)
         /\ \A frame \in Versions : Append(queued, frame) \in Seq(Versions)
         /\ queued # <<>> => queued[1] \in Versions /\ Tail(queued) \in Seq(Versions)
BY DEF Types, LogIs, LoopTypes, Versions, Closed

LEMMA MirrorSide ==
  ASSUME MirrorInv, Publish \/ Claim \/ Lose \/ Close
  PROVE  MirrorInv'
<1> USE DEF MirrorInv, Types
<1>1. unpublished \in Versions /\ Len(log) \in Versions
  BY DEF LoopTypes, LogIs, Versions
<1>2. CASE Publish
  <2>1. LoopTypes'
    BY <1>1, <1>2, FramesAre DEF Publish, LoopTypes, clientVars, Versions
  <2> QED BY <1>2, <2>1, ViewStays DEF Publish, clientVars, viewVars
<1>3. CASE Claim
  <2>1. LoopTypes'
    BY <1>3 DEF Claim, LoopTypes, followVars, clientVars, Versions
  <2> QED BY <1>3, <2>1, ViewStays DEF Claim, clientVars, followVars, viewVars
<1>4. CASE Lose
  <2>1. LoopTypes'
    BY <1>4 DEF Lose, LoopTypes, followVars, clientVars, Versions
  <2> QED BY <1>4, <2>1, ViewStays DEF Lose, clientVars, followVars, viewVars
<1>5. CASE Close
  <2>1. LoopTypes'
    BY <1>5, FramesAre DEF Close, LoopTypes, clientVars, Versions
  <2> QED BY <1>5, <2>1, ViewStays DEF Close, clientVars, viewVars
<1> QED BY <1>2, <1>3, <1>4, <1>5

LEMMA LoopSide ==
  ASSUME MirrorInv,
         \/ Begin \/ Pin \/ ReadInterrupted \/ FrameSkipped \/ FrameAhead
         \/ FrameClosed \/ LoopAborted
  PROVE  MirrorInv'
<1> USE DEF MirrorInv, Types, FollowOnly, mirrorVars, clientVars
<1>1. Len(log) \in Versions /\ 0 \in Versions
  BY DEF LogIs, Versions
<1>2. CASE Begin
  <2>1. LoopTypes'
    BY <1>2 DEF Begin, LoopTypes, Versions
  <2> QED BY <1>2, <2>1, ViewStays DEF Begin, viewVars
<1>3. CASE Pin
  <2>1. LoopTypes'
    BY <1>1, <1>3 DEF Pin, LoopTypes, Versions
  <2> QED BY <1>3, <2>1, ViewStays DEF Pin, viewVars
<1>4. CASE ReadInterrupted
  <2>1. LoopTypes'
    BY <1>1, <1>4, FramesAre DEF ReadInterrupted, LoopEnds, LoopTypes, Versions
  <2> QED BY <1>4, <2>1, ViewStays DEF ReadInterrupted, viewVars
<1>5. CASE FrameSkipped
  <2>1. LoopTypes'
    BY <1>5, FramesAre DEF FrameSkipped, Looping, LoopTypes, Versions
  <2> QED BY <1>5, <2>1, ViewStays DEF FrameSkipped, viewVars
<1>6. CASE FrameAhead
  <2>1. LoopTypes'
    BY <1>6, FramesAre DEF FrameAhead, Looping, LoopTypes, Versions
  <2> QED BY <1>6, <2>1, ViewStays DEF FrameAhead, viewVars
<1>7. CASE FrameClosed
  <2>1. LoopTypes'
    BY <1>1, <1>7, FramesAre DEF FrameClosed, LoopEnds, LoopTypes, Versions
  <2> QED BY <1>7, <2>1, ViewStays DEF FrameClosed, viewVars
<1>8. CASE LoopAborted
  <2>1. LoopTypes'
    BY <1>1, <1>8, FramesAre DEF LoopAborted, LoopEnds, LoopTypes, Versions
  <2> QED BY <1>8, <2>1, ViewStays DEF LoopAborted, viewVars
<1> QED BY <1>2, <1>3, <1>4, <1>5, <1>6, <1>7, <1>8

-----------------------------------------------------------------------------
(***************************************************************************)
(* A commit is seen by nobody yet.                                         *)
(***************************************************************************)
LEMMA CommitKeeps ==
  ASSUME MirrorInv, Commit
  PROVE  MirrorInv'
<1> USE DEF MirrorInv, Types
<1>1. PICK b \in Batches : log' = Append(log, b)
  BY DEF Commit
<1>2. UNCHANGED <<writer, published, follower, queued, pinned, aborted, applied, records, ready,
                  following, closed, chat, reads>>
      /\ unpublished' \in {0, Len(log')}
  BY DEF Commit, followVars, clientVars
<1>3. b \in SUBSET Keys
  BY MirrorAssumption
<1>4. LogIs' /\ Len(log) \in Nat /\ Len(log') = Len(log) + 1
      /\ \A i \in 1 .. Len(log) : log'[i] = log[i]
  BY <1>1, <1>3 DEF LogIs
<1>5. Versions \subseteq Versions'
  BY <1>4 DEF Versions
<1>6. LoopTypes'
  <2>1. queued' \in Seq(Versions')
    BY <1>2, <1>5 DEF LoopTypes
  <2> QED BY <1>2, <1>5, <2>1 DEF LoopTypes
<1>7. ViewTypes'
  <2>1. records' \in [Keys -> Versions'] /\ chat'.rows \in [Keys -> Versions']
    BY <1>2, <1>5 DEF ViewTypes
  <2>2. chat' \in [number : Nat, rows : [Keys -> Versions'], before : 1 .. Beyond, older : Marks]
    BY <1>2, <2>1 DEF ViewTypes
  <2>3. \A read \in reads' : ReadOf(read)'
    BY <1>2, <1>5 DEF ViewTypes, ReadOf
  <2> QED BY <1>2, <1>5, <2>1, <2>2, <2>3 DEF ViewTypes
<1>8. \A k \in Keys : Version(k, applied)' = Version(k, applied)
  <2> SUFFICES ASSUME NEW k \in Keys PROVE Last(k, log', applied') = Last(k, log, applied)
    BY DEF Version, Last
  <2>1. applied' = applied /\ applied \in Nat /\ \A i \in 1 .. applied : log'[i] = log[i]
    BY <1>2, <1>4 DEF ViewTypes, Versions
  <2> QED BY <2>1, LastLooksBack
<1>9. View'
  <2>1. ViewIsARevision'
    BY <1>2, <1>8 DEF View, ViewIsARevision, MirrorAt
  <2>2. NeverBehind'
    BY <1>2, <1>8 DEF View, NeverBehind
  <2>3. NoHole'
    BY <1>2, <1>8 DEF View, NoHole, Retained
  <2> QED BY <2>1, <2>2, <2>3 DEF View
<1>10. Pages'
  <2>1. ShownWhileRead'
    BY <1>2, <1>4 DEF Pages, ShownWhileRead, ViewTypes, Versions
  <2>2. ReadsInto' /\ Awaited' /\ Forgotten'
    BY <1>2 DEF Pages, ReadsInto, Awaited, Forgotten, Retained
  <2> QED BY <2>1, <2>2 DEF Pages
<1> QED BY <1>4, <1>6, <1>7, <1>9, <1>10

(***************************************************************************)
(* A snapshot replaces the view, and forgets the chat.                     *)
(***************************************************************************)
LEMMA MirrorAtIs ==
  ASSUME LogIs, NEW r \in Versions
  PROVE  MirrorAt(r) \in [Keys -> Versions]
<1> SUFFICES ASSUME NEW k \in Keys PROVE Version(k, r) \in Versions
  BY DEF MirrorAt
<1>1. r \in Nat /\ r <= Len(log) /\ Len(log) \in Nat
  BY DEF Versions, LogIs
<1>2. Last(k, log, r) \in 0 .. r
  BY <1>1, LastIs
<1> QED BY <1>1, <1>2, VersionIsLast DEF Versions

LEMMA NoChatIs ==
  ASSUME LogIs
  PROVE  NoChat \in [number : Nat, rows : [Keys -> Versions], before : 1 .. Beyond, older : Marks]
<1>1. Newest + 1 \in 1 .. Newest + 1 /\ 0 \in Versions
  BY MirrorAssumption DEF Versions, LogIs
<1> QED BY <1>1 DEF NoChat, Beyond, Marks

LEMMA ReplaceKeeps ==
  ASSUME MirrorInv, Replace(pinned), LoopTypes', UNCHANGED <<log, following, reads>>
  PROVE  MirrorInv'
<1> USE DEF MirrorInv, Types
<1>1. applied' = pinned /\ records' = MirrorAt(pinned) /\ chat' = NoChat /\ pinned \in Versions
  BY DEF Replace, LoopTypes
<1>2. LogIs' /\ ViewTypes'
  BY <1>1, MirrorAtIs, NoChatIs DEF LogIs, ViewTypes, ReadOf, Versions
<1>3. ViewIsARevision'
  BY <1>1 DEF ViewIsARevision, MirrorAt, Version
<1>4. NeverBehind' /\ NoHole'
  BY <1>1 DEF NeverBehind, NoHole, NoChat, Retained
<1>5. Pages'
  BY <1>1 DEF Pages, ShownWhileRead, ReadsInto, Awaited, Forgotten, NoChat
<1> QED BY <1>2, <1>3, <1>4, <1>5 DEF View

LEMMA SnapshotKeeps ==
  ASSUME MirrorInv, SnapshotArrives \/ Hydrated
  PROVE  MirrorInv'
<1> USE DEF MirrorInv, Types, FollowOnly, mirrorVars
<1>1. 0 \in Versions
  BY DEF LogIs, Versions
<1>2. CASE SnapshotArrives
  <2>1. LoopTypes'
    BY <1>1, <1>2 DEF SnapshotArrives, LoopTypes, Versions
  <2> QED BY <1>2, <2>1, ReplaceKeeps DEF SnapshotArrives
<1>3. CASE Hydrated
  <2>1. LoopTypes'
    BY <1>1, <1>3 DEF Hydrated, LoopTypes, Versions
  <2>2. CASE Replace(pinned)
    BY <1>3, <2>1, <2>2, ReplaceKeeps DEF Hydrated
  <2>3. CASE UNCHANGED <<applied, records, chat, ready>>
    BY <1>3, <2>1, <2>3, ViewStays DEF Hydrated, viewVars
  <2> QED BY <1>3, <2>2, <2>3 DEF Hydrated
<1> QED BY <1>2, <1>3

(***************************************************************************)
(* A patch takes the view from its revision to the next.                   *)
(***************************************************************************)
LEMMA MergeIs ==
  ASSUME LogIs, NEW r \in Versions, NEW old \in [Keys -> Versions]
  PROVE  Merge(old, r) \in [Keys -> Versions]
         /\ \A k \in Keys : Merge(old, r)[k] = IF k \in log[r] THEN r ELSE old[k]
BY DEF Merge

LEMMA FrameKeeps ==
  ASSUME MirrorInv, FrameApplied
  PROVE  MirrorInv'
<1> USE DEF MirrorInv, Types
<1> DEFINE r == applied + 1
<1>1. queued # <<>> /\ queued[1] = r /\ queued' = Tail(queued) /\ Apply(queued[1])
      /\ UNCHANGED <<log, writer, unpublished, published, reads, follower, pinned, aborted, ready,
                     following, closed>>
  BY DEF FrameApplied, Looping, FollowOnly, mirrorVars
<1>2. r \in Versions /\ queued' \in Seq(Versions) /\ applied \in Nat /\ applied \in Versions
      /\ applied' = r /\ applied' \in Versions
  <2>1. queued[1] \in Versions /\ Tail(queued) \in Seq(Versions)
    BY <1>1, FramesAre
  <2> QED BY <1>1, <2>1 DEF Apply, ViewTypes, Versions
<1>3. records' = Merge(records, r)
      /\ chat' = IF Retained THEN [chat EXCEPT !.rows = Merge(chat.rows, r)] ELSE chat
  BY <1>1 DEF Apply
<1> HIDE DEF r
<1>4. LogIs' /\ LoopTypes'
  BY <1>1, <1>2 DEF LogIs, LoopTypes, Versions
<1>5. records \in [Keys -> Versions] /\ chat.rows \in [Keys -> Versions]
  BY DEF ViewTypes
<1>6. /\ records' \in [Keys -> Versions]
      /\ \A k \in Keys : records'[k] = IF k \in log[r] THEN r ELSE records[k]
  BY <1>2, <1>3, <1>5, MergeIs
<1>7. /\ chat' \in [number : Nat, rows : [Keys -> Versions], before : 1 .. Beyond, older : Marks]
      /\ chat'.number = chat.number /\ chat'.before = chat.before /\ chat'.older = chat.older
      /\ Retained => \A k \in Keys : chat'.rows[k] = IF k \in log[r] THEN r ELSE chat.rows[k]
      /\ ~Retained => chat' = chat
  <2>1. Merge(chat.rows, r) \in [Keys -> Versions]
        /\ \A k \in Keys : Merge(chat.rows, r)[k] = IF k \in log[r] THEN r ELSE chat.rows[k]
    BY <1>2, <1>5, MergeIs
  <2> QED BY <1>3, <2>1 DEF ViewTypes
<1>8. ViewTypes'
  BY <1>1, <1>2, <1>6, <1>7 DEF ViewTypes, ReadOf, Versions
<1>9. ASSUME NEW k
      PROVE  Version(k, applied)' = IF k \in log[r] THEN r ELSE Version(k, applied)
  <2>1. Last(k, log', applied') = IF k \in log[r] THEN r ELSE Last(k, log, applied)
    BY <1>1, <1>2, LastNext DEF r
  <2> QED BY <2>1 DEF Version, Last
<1>10. ViewIsARevision'
  <2>1. ASSUME ready PROVE \A k \in Keys : records'[k] = Version(k, applied)'
    BY <1>6, <1>9, <2>1 DEF View, ViewIsARevision, MirrorAt
  <2>2. ready => records' = [k \in Keys |-> Version(k, applied)']
    BY <1>6, <2>1
  <2> QED BY <1>1, <2>2 DEF ViewIsARevision, MirrorAt
<1>11. NeverBehind'
  <2> SUFFICES ASSUME NEW k \in Keys, chat'.rows[k] # 0
               PROVE  chat'.rows[k] >= Version(k, applied)'
    BY DEF NeverBehind
  <2>1. CASE ~Retained
    BY <1>7, <2>1 DEF Pages, Forgotten, NoChat
  <2>2. CASE Retained
    BY <1>2, <1>7, <1>9, <2>2 DEF View, NeverBehind, Versions
  <2> QED BY <2>1, <2>2
<1>12. NoHole'
  BY <1>1, <1>2, <1>7, <1>9 DEF View, NoHole, Retained, r
<1>13. ShownWhileRead'
  <2> SUFFICES ASSUME NEW read \in reads, read.number = chat.number, read.at # 0,
                      NEW i \in 1 .. r, i > read.at, NEW k \in log[i]
               PROVE  chat'.rows[k] # 0
    BY <1>1, <1>2, <1>7 DEF ShownWhileRead
  <2>1. Retained
    BY DEF Pages, Awaited, Retained
  <2>2. k \in Keys
    BY <1>2 DEF LogIs, Versions
  <2>3. i = r \/ (i \in 1 .. applied /\ chat.rows[k] # 0)
    BY <1>2 DEF Pages, ShownWhileRead, r
  <2> QED BY <1>2, <1>7, <2>1, <2>2, <2>3 DEF r
<1>14. ReadsInto' /\ Awaited' /\ Forgotten'
  BY <1>1, <1>7 DEF Pages, ReadsInto, Awaited, Forgotten, Retained
<1> QED BY <1>4, <1>8, <1>10, <1>11, <1>12, <1>13, <1>14 DEF View, Pages

-----------------------------------------------------------------------------
(***************************************************************************)
(* A page: the newest of what is stored below a cursor, without a hole.    *)
(***************************************************************************)
LEMMA StoredIs ==
  ASSUME NEW read, read.before \in 1 .. Beyond
  PROVE  /\ Stored(read) \subseteq Keys /\ Stored(read) \subseteq 0 .. Newest
         /\ Page(read) \subseteq Stored(read)
         /\ \A k \in Keys : k \in Stored(read) <=> k < read.before /\ Version(k, read.at) # 0
         /\ \A m \in Keys : IsFiniteSet({n \in Stored(read) : n > m})
<1> USE MirrorAssumption DEF Keys, Beyond
<1>1. Stored(read) \subseteq Keys /\ Stored(read) \subseteq 0 .. Newest
      /\ \A k \in Keys : k \in Stored(read) <=> k < read.before /\ Version(k, read.at) # 0
  BY DEF Stored
<1>2. Page(read) \subseteq Stored(read)
  BY DEF Page
<1>3. IsFiniteSet(1 .. Newest)
  BY FS_Interval
<1>4. \A m \in Keys : {n \in Stored(read) : n > m} \in SUBSET (1 .. Newest)
  BY <1>1
<1>5. \A m \in Keys : IsFiniteSet({n \in Stored(read) : n > m})
  BY <1>3, <1>4, FS_Subset
<1> QED BY <1>1, <1>2, <1>5

\* Of two stored messages the newer is in the page if the older is.
LEMMA PageIsNewest ==
  ASSUME NEW read, read.before \in 1 .. Beyond,
         NEW k \in Stored(read), NEW m \in Page(read), k >= m
  PROVE  k \in Page(read)
<1> DEFINE above(x) == {n \in Stored(read) : n > x}
<1>1. k \in Keys /\ m \in Keys /\ IsFiniteSet(above(m)) /\ IsFiniteSet(above(k))
  BY StoredIs
<1>2. above(k) \in SUBSET above(m)
  <2>1. ASSUME NEW n \in above(k) PROVE n \in above(m)
    <3>1. n \in Keys /\ n > k /\ n \in Stored(read)
      BY StoredIs
    <3>2. n > m
      BY <1>1, <3>1, MirrorAssumption DEF Keys
    <3> QED BY <3>1, <3>2
  <2> QED BY <2>1
<1>3. Cardinality(above(k)) <= Cardinality(above(m))
  BY <1>1, <1>2, FS_Subset
<1>4. Cardinality(above(m)) < PageSize
  BY DEF Page
<1>5. Cardinality(above(k)) \in Nat /\ Cardinality(above(m)) \in Nat
  BY <1>1, FS_CardinalityType
<1>6. Cardinality(above(k)) < PageSize
  <2> HIDE DEF above
  <2> QED BY <1>3, <1>4, <1>5, MirrorAssumption
<1> QED BY <1>6 DEF Page

\* A page is empty only when nothing is stored.
LEMMA PageBegins ==
  ASSUME NEW read, read.before \in 1 .. Beyond, Page(read) # Stored(read)
  PROVE  /\ Min(Page(read)) \in Keys
         /\ \A k \in Stored(read) : k >= Min(Page(read)) => k \in Page(read)
<1> DEFINE newest == Max(Stored(read))
<1>1. Stored(read) # {} /\ Stored(read) \subseteq 0 .. Newest /\ Newest \in Nat
  BY StoredIs, MirrorAssumption
<1>2. newest \in Stored(read) /\ \A n \in Stored(read) : newest >= n
  BY <1>1, GreatestIsThere
<1> HIDE DEF newest
<1>3. newest \in Page(read)
  <2> DEFINE above == {n \in Stored(read) : n > newest}
  <2>1. above = {}
    BY <1>1, <1>2
  <2> HIDE DEF above
  <2>2. Cardinality(above) = 0 /\ 0 < PageSize
    BY <2>1, FS_EmptySet, MirrorAssumption
  <2>3. Cardinality(above) < PageSize
    BY <2>2
  <2> QED BY <1>2, <2>3 DEF Page, above
<1>4. Page(read) \subseteq Nat /\ Page(read) # {}
  BY <1>1, <1>3, StoredIs
<1>5. Min(Page(read)) \in Page(read)
  BY <1>4, LeastIsThere
<1> QED BY <1>5, StoredIs, PageIsNewest

-----------------------------------------------------------------------------
(***************************************************************************)
(* The application's steps.                                                *)
(***************************************************************************)
LEMMA NumberIs ==
  ASSUME ViewTypes
  PROVE  /\ chat.number \in Nat /\ chat.rows \in [Keys -> Versions]
         /\ chat.before \in 1 .. Beyond /\ chat.older \in Marks
         /\ \A read \in reads : read.number \in Nat /\ read.before \in 1 .. Beyond
              /\ read.at \in Versions
BY DEF ViewTypes, ReadOf

\* A mark that says no more than that nothing is loading.
LEMMA EndingKeeps ==
  ASSUME MirrorInv, chat' = Ended(chat), following' = FALSE, LoopTypes', ready' = ready,
         UNCHANGED <<log, applied, records, reads>>
  PROVE  MirrorInv'
<1> USE DEF MirrorInv, Types
<1>1. /\ chat'.number = chat.number /\ chat'.rows = chat.rows /\ chat'.before = chat.before
      /\ chat'.older \in Marks /\ chat'.older # "loading"
      /\ chat'.older = "exhausted" <=> chat.older = "exhausted"
      /\ chat' \in [number : Nat, rows : [Keys -> Versions], before : 1 .. Beyond, older : Marks]
      /\ chat = NoChat => chat' = NoChat
  BY DEF Ended, ViewTypes, Marks, NoChat
<1>2. LogIs' /\ ViewTypes'
  BY <1>1 DEF LogIs, ViewTypes, ReadOf, Versions
<1>3. View'
  BY <1>1 DEF View, ViewIsARevision, NeverBehind, NoHole, MirrorAt, Version, Retained
<1>4. Pages'
  BY <1>1 DEF Pages, ShownWhileRead, ReadsInto, Awaited, Forgotten, Retained
<1> QED BY <1>2, <1>3, <1>4

LEMMA ClosingKeeps ==
  ASSUME MirrorInv, ReadRejects \/ CloseClient
  PROVE  MirrorInv'
<1> USE DEF MirrorInv, Types, FollowOnly, mirrorVars, AppOnly
<1>1. 0 \in Versions /\ <<>> \in Seq(Versions)
  BY DEF LogIs, Versions
<1>2. CASE CloseClient
  <2>1. LoopTypes'
    BY <1>2 DEF CloseClient, LoopTypes, Versions
  <2> QED BY <1>2, <2>1, EndingKeeps DEF CloseClient
<1>3. CASE ReadRejects
  <2>1. LoopTypes'
    BY <1>1, <1>3 DEF ReadRejects, LoopEnds, LoopTypes, Versions
  <2>2. CASE ready
    BY <1>3, <2>1, <2>2, EndingKeeps DEF ReadRejects
  <2>3. CASE ~ready
    BY <1>3, <2>1, <2>3, ViewStays DEF ReadRejects, viewVars
  <2> QED BY <2>2, <2>3
<1> QED BY <1>2, <1>3

LEMMA AppKeepsLoop ==
  ASSUME LogIs, LoopTypes, AppOnly, aborted' = aborted
  PROVE  LogIs' /\ LoopTypes' /\ Versions' = Versions
BY DEF LogIs, LoopTypes, AppOnly, mirrorVars, Versions

LEMMA OpenChatKeeps ==
  ASSUME MirrorInv, OpenChat
  PROVE  MirrorInv'
<1> USE DEF MirrorInv, Types
<1>1. PICK n \in Numbers : Fresh(n) /\ chat' = NewChat(n)
  BY DEF OpenChat
<1>2. n \in Nat /\ n # 0
  BY MirrorAssumption DEF Numbers
<1>3. LogIs' /\ LoopTypes' /\ Versions' = Versions
      /\ UNCHANGED <<log, applied, records, ready, following, reads>>
  BY AppKeepsLoop DEF OpenChat, AppOnly, mirrorVars
<1>4. /\ chat' \in [number : Nat, rows : [Keys -> Versions], before : 1 .. Beyond, older : Marks]
      /\ chat'.number = n /\ chat'.before = Beyond /\ chat'.older = "stored"
      /\ \A k \in Keys : chat'.rows[k] = 0
  BY <1>1, <1>2, NoChatIs DEF NewChat, NoChat
<1>5. ViewTypes'
  BY <1>3, <1>4 DEF ViewTypes, ReadOf
<1>6. \A read \in reads' : read.number # chat'.number
  BY <1>1, <1>3, <1>4 DEF Fresh
<1>7. View'
  BY <1>3, <1>4 DEF View, ViewIsARevision, NeverBehind, NoHole, MirrorAt, Version, Retained
<1>8. Pages'
  BY <1>2, <1>3, <1>4, <1>6 DEF Pages, ShownWhileRead, ReadsInto, Awaited, Forgotten, Retained
<1> QED BY <1>3, <1>5, <1>7, <1>8

LEMMA OlderKeeps ==
  ASSUME MirrorInv, Older
  PROVE  MirrorInv'
<1> USE DEF MirrorInv, Types
<1> DEFINE new == [number |-> chat.number, before |-> chat.before, at |-> 0]
<1>1. /\ following /\ chat.number # 0 /\ chat.older = "stored"
      /\ chat' = [chat EXCEPT !.older = "loading"]
      /\ reads' = reads \cup {new}
  BY DEF Older, Retained
<1>2. LogIs' /\ LoopTypes' /\ Versions' = Versions
      /\ UNCHANGED <<log, applied, records, ready, following>>
  BY AppKeepsLoop DEF Older, AppOnly, mirrorVars
<1>3. /\ chat' \in [number : Nat, rows : [Keys -> Versions], before : 1 .. Beyond, older : Marks]
      /\ chat'.number = chat.number /\ chat'.before = chat.before /\ chat'.older = "loading"
      /\ chat'.rows = chat.rows
  BY <1>1 DEF ViewTypes, Marks
<1>4. ReadOf(new) /\ new.number = chat.number /\ new.before = chat.before /\ new.at = 0
  BY NumberIs DEF ReadOf, Versions, LogIs
<1> HIDE DEF new
<1>5. ViewTypes'
  BY <1>1, <1>2, <1>3, <1>4 DEF ViewTypes, ReadOf
<1>6. \A read \in reads : read.number # chat.number
  BY <1>1 DEF Pages, ReadsInto
<1>7. View'
  BY <1>1, <1>2, <1>3 DEF View, ViewIsARevision, NeverBehind, NoHole, MirrorAt, Version, Retained
<1>8. ShownWhileRead'
  BY <1>1, <1>2, <1>3, <1>4 DEF Pages, ShownWhileRead
<1>9. ReadsInto'
  BY <1>1, <1>2, <1>3, <1>4, <1>6 DEF Pages, ReadsInto
<1>10. Awaited' /\ Forgotten'
  BY <1>1, <1>2, <1>3, <1>4 DEF Pages, Awaited, Forgotten, Retained
<1> QED BY <1>2, <1>5, <1>7, <1>8, <1>9, <1>10 DEF Pages

LEMMA PageReadKeeps ==
  ASSUME MirrorInv, NEW read \in reads, PageRead(read)
  PROVE  MirrorInv'
<1> USE DEF MirrorInv, Types
<1> DEFINE new == [read EXCEPT !.at = Len(log)]
<1>1. reads' = (reads \ {read}) \cup {new} /\ chat' = chat
  BY DEF PageRead
<1>2. LogIs' /\ LoopTypes' /\ Versions' = Versions
      /\ UNCHANGED <<log, applied, records, ready, following>>
  BY AppKeepsLoop DEF PageRead, AppOnly, mirrorVars
<1>3. Len(log) \in Versions /\ applied \in Nat /\ applied <= Len(log) /\ Len(log) \in Nat
  BY DEF LogIs, Versions, ViewTypes
<1>4. ReadOf(new) /\ new.number = read.number /\ new.before = read.before /\ new.at = Len(log)
  BY <1>3 DEF ViewTypes, ReadOf
<1> HIDE DEF new
<1>5. ViewTypes'
  BY <1>1, <1>2, <1>4 DEF ViewTypes, ReadOf
<1>6. View'
  BY <1>1, <1>2 DEF View, ViewIsARevision, NeverBehind, NoHole, MirrorAt, Version, Retained
<1>7. ShownWhileRead'
  BY <1>1, <1>2, <1>3, <1>4 DEF Pages, ShownWhileRead
<1>8. ReadsInto'
  BY <1>1, <1>2, <1>4 DEF Pages, ReadsInto
<1>9. Awaited' /\ Forgotten'
  BY <1>1, <1>2, <1>4 DEF Pages, Awaited, Forgotten, Retained
<1> QED BY <1>2, <1>5, <1>6, <1>7, <1>8, <1>9 DEF Pages

LEMMA PageFailsKeeps ==
  ASSUME MirrorInv, NEW read \in reads, PageFails(read)
  PROVE  MirrorInv'
<1> USE DEF MirrorInv, Types
<1>1. reads' = reads \ {read}
      /\ chat' = IF following /\ chat.number = read.number
                 THEN [chat EXCEPT !.older = "stored"] ELSE chat
  BY DEF PageFails, Into
<1>2. LogIs' /\ LoopTypes' /\ Versions' = Versions
      /\ UNCHANGED <<log, applied, records, ready, following>>
  BY AppKeepsLoop DEF PageFails, AppOnly, mirrorVars
<1>3. /\ chat' \in [number : Nat, rows : [Keys -> Versions], before : 1 .. Beyond, older : Marks]
      /\ chat'.number = chat.number /\ chat'.before = chat.before /\ chat'.rows = chat.rows
      /\ chat'.older = "exhausted" => chat.older = "exhausted"
      /\ chat'.older = "loading" => chat.older = "loading"
      /\ chat'.older # "stored" => chat' = chat
  BY <1>1 DEF ViewTypes, Marks
<1>4. ViewTypes'
  BY <1>1, <1>2, <1>3 DEF ViewTypes, ReadOf
<1>5. View'
  BY <1>2, <1>3 DEF View, ViewIsARevision, NeverBehind, NoHole, MirrorAt, Version, Retained
<1>6. ShownWhileRead'
  BY <1>1, <1>2, <1>3 DEF Pages, ShownWhileRead
<1>7. ReadsInto'
  BY <1>1, <1>2 DEF Pages, ReadsInto
<1>8. Awaited'
  BY <1>1, <1>2, <1>3 DEF Pages, Awaited
<1>9. Forgotten'
  BY <1>1 DEF Pages, Forgotten, Retained, Awaited, NoChat
<1> QED BY <1>2, <1>4, <1>5, <1>6, <1>7, <1>8, <1>9 DEF Pages

\* What a landed page makes of an entry.
LEMMA FilledIs ==
  ASSUME MirrorInv, NEW read \in reads
  PROVE  LET new == Filled(chat, read) IN
         /\ new \in [number : Nat, rows : [Keys -> Versions], before : 1 .. Beyond, older : Marks]
         /\ new.number = chat.number
         /\ new.older \in {"stored", "exhausted"}
         /\ new.older = "exhausted" <=> Page(read) = Stored(read)
         /\ new.before = IF Page(read) = Stored(read) THEN Beyond ELSE Min(Page(read))
         /\ \A k \in Keys : new.rows[k] =
              IF k \in Page(read) /\ chat.rows[k] = 0 THEN Version(k, read.at) ELSE chat.rows[k]
<1> USE DEF MirrorInv, Types
<1> DEFINE rows == [k \in Keys |-> IF k \in Page(read) /\ chat.rows[k] = 0
                                   THEN Version(k, read.at) ELSE chat.rows[k]]
           before == IF Page(read) = Stored(read) THEN Beyond ELSE Min(Page(read))
           older == IF Page(read) = Stored(read) THEN "exhausted" ELSE "stored"
<1>1. read.before \in 1 .. Beyond /\ read.at \in Versions /\ chat.rows \in [Keys -> Versions]
  BY NumberIs
<1>2. rows \in [Keys -> Versions]
  <2>1. MirrorAt(read.at) \in [Keys -> Versions]
    BY <1>1, MirrorAtIs
  <2>2. \A k \in Keys : Version(k, read.at) \in Versions
    BY <2>1 DEF MirrorAt
  <2> QED BY <1>1, <2>2
<1>3. before \in 1 .. Beyond
  <2>1. Beyond \in 1 .. Beyond /\ Keys \subseteq 1 .. Beyond
    BY MirrorAssumption DEF Beyond, Keys
  <2> QED BY <1>1, <2>1, PageBegins
<1>4. Filled(chat, read) = [chat EXCEPT !.rows = rows, !.before = before, !.older = older]
  BY DEF Filled
<1>5. \A k \in Keys : rows[k] = IF k \in Page(read) /\ chat.rows[k] = 0
                                THEN Version(k, read.at) ELSE chat.rows[k]
  OBVIOUS
<1>6. older \in {"stored", "exhausted"} /\ (older = "exhausted" <=> Page(read) = Stored(read))
  OBVIOUS
<1>7. /\ Filled(chat, read).rows = rows /\ Filled(chat, read).before = before
      /\ Filled(chat, read).older = older /\ Filled(chat, read).number = chat.number
      /\ Filled(chat, read) \in [number : Nat, rows : [Keys -> Versions], before : 1 .. Beyond,
                                 older : Marks]
  <2> HIDE DEF rows, before
  <2> QED BY <1>2, <1>3, <1>4 DEF ViewTypes, Marks
<1> QED BY <1>5, <1>6, <1>7

LEMMA PageLandsKeeps ==
  ASSUME MirrorInv, NEW read \in reads, PageLands(read)
  PROVE  MirrorInv'
<1> USE DEF MirrorInv, Types
<1>1. read.at # 0 /\ reads' = reads \ {read}
      /\ chat' = IF following /\ chat.number = read.number THEN Filled(chat, read) ELSE chat
  BY DEF PageLands, Into
<1>2. LogIs' /\ LoopTypes' /\ Versions' = Versions
      /\ UNCHANGED <<log, applied, records, ready, following>>
  BY AppKeepsLoop DEF PageLands, AppOnly, mirrorVars
<1>3. CASE ~(following /\ chat.number = read.number)
  <2>1. chat' = chat
    BY <1>1, <1>3
  <2>2. ViewTypes'
    BY <1>1, <1>2, <2>1 DEF ViewTypes, ReadOf
  <2>3. View'
    BY <1>2, <2>1 DEF View, ViewIsARevision, NeverBehind, NoHole, MirrorAt, Version, Retained
  <2>4. ShownWhileRead' /\ ReadsInto' /\ Forgotten'
    BY <1>1, <1>2, <2>1 DEF Pages, ShownWhileRead, ReadsInto, Forgotten, Retained
  <2>5. Awaited'
    BY <1>1, <1>2, <1>3, <2>1 DEF Pages, Awaited
  <2> QED BY <1>2, <2>2, <2>3, <2>4, <2>5 DEF Pages
<1>4. CASE following /\ chat.number = read.number
  <2> DEFINE new == Filled(chat, read)
  <2>1. chat' = new
    BY <1>1, <1>4
  <2>2. /\ new \in [number : Nat, rows : [Keys -> Versions], before : 1 .. Beyond, older : Marks]
        /\ new.number = chat.number
        /\ new.older \in {"stored", "exhausted"}
        /\ new.older = "exhausted" <=> Page(read) = Stored(read)
        /\ new.before = IF Page(read) = Stored(read) THEN Beyond ELSE Min(Page(read))
        /\ \A k \in Keys : new.rows[k] =
             IF k \in Page(read) /\ chat.rows[k] = 0 THEN Version(k, read.at) ELSE chat.rows[k]
    BY FilledIs
  <2> HIDE DEF new
  <2>3. /\ read.before = chat.before /\ read.before \in 1 .. Beyond /\ read.at \in Nat
        /\ read.number # 0 /\ applied \in Nat
        /\ chat.rows \in [Keys -> Versions] /\ Versions \subseteq Nat
    BY <1>4, NumberIs DEF Pages, ReadsInto, Awaited, ViewTypes, Versions
  \* What is not shown has not changed since the store was asked.
  <2>4. ASSUME NEW k \in Keys, chat.rows[k] = 0
        PROVE  /\ Version(k, applied) <= Version(k, read.at)
               /\ Version(k, applied) \in Nat /\ Version(k, read.at) \in Nat
    <3> DEFINE a == Last(k, log, applied)
               b == Last(k, log, read.at)
    <3>1. a \in 0 .. applied /\ b \in 0 .. read.at /\ (a # 0 => k \in log[a])
      BY <2>3, LastIs
    <3>2. CASE applied <= read.at
      BY <2>3, <3>2, LastMoves, <3>1, VersionIsLast
    <3>3. CASE read.at <= applied
      <4>1. a # b => a > read.at
        BY <2>3, <3>3, LastMoves
      <4> HIDE DEF a, b
      <4>2. a > read.at => a \in 1 .. applied /\ k \in log[a]
        BY <3>1, <2>3
      <4>3. a > read.at => chat.rows[k] # 0
        BY <4>2, <1>1, <1>4 DEF Pages, ShownWhileRead
      <4>4. a = b
        BY <4>1, <4>3, <2>4
      <4> QED BY <4>4, <3>1, VersionIsLast DEF a, b
    <3> QED BY <2>3, <3>2, <3>3
  <2>5. \A k \in Keys : chat.rows[k] # 0 => new.rows[k] # 0
    BY <2>2
  <2>6. ViewTypes'
    BY <1>1, <1>2, <2>1, <2>2 DEF ViewTypes, ReadOf
  <2>7. ViewIsARevision'
    BY <1>2 DEF View, ViewIsARevision, MirrorAt, Version
  <2>8. \A k : Version(k, applied)' = Version(k, applied)
    BY <1>2 DEF Version
  <2>9. NeverBehind'
    <3> SUFFICES ASSUME NEW k \in Keys, new.rows[k] # 0
                 PROVE  new.rows[k] >= Version(k, applied)
      BY <2>1, <2>8 DEF NeverBehind
    <3>1. CASE k \in Page(read) /\ chat.rows[k] = 0
      BY <2>2, <2>4, <3>1
    <3>2. CASE ~(k \in Page(read) /\ chat.rows[k] = 0)
      BY <2>2, <3>2 DEF View, NeverBehind
    <3> QED BY <3>1, <3>2
  <2>10. NoHole'
    <3> SUFFICES ASSUME NEW k \in Keys, Version(k, applied) # 0, chat.rows[k] = 0, Retained,
                        new.older = "exhausted" \/ (new.before # Beyond /\ k >= new.before)
                 PROVE  new.rows[k] # 0
      BY <2>1, <2>2, <2>5, <2>8 DEF NoHole, Retained
    <3>1. Version(k, read.at) # 0
      BY <2>4
    <3>2. k < read.before
      <4>1. CASE read.before = Beyond
        BY <4>1, MirrorAssumption DEF Beyond, Keys
      <4>2. CASE read.before # Beyond
        <5>1. ~(k >= chat.before)
          BY <4>2, <2>3 DEF View, NoHole
        <5> QED BY <5>1, <2>3, MirrorAssumption DEF Keys, Beyond
      <4> QED BY <4>1, <4>2
    <3>3. k \in Stored(read)
      BY <2>3, <3>1, <3>2, StoredIs
    <3>4. k \in Page(read)
      BY <2>2, <2>3, <3>3, PageBegins
    <3> QED BY <2>2, <3>1, <3>4
  <2>11. ShownWhileRead'
    <3> SUFFICES ASSUME NEW other \in reads, other.number = chat.number, other.at # 0,
                        NEW i \in 1 .. applied, i > other.at, NEW k \in log[i]
                 PROVE  new.rows[k] # 0
      BY <1>1, <1>2, <2>1, <2>2 DEF ShownWhileRead
    <3>1. k \in Keys
      BY DEF LogIs, ViewTypes, Versions
    <3> QED BY <2>5, <3>1 DEF Pages, ShownWhileRead
  <2>12. \A other \in reads' : other.number # chat'.number
    BY <1>1, <1>4, <2>1, <2>2 DEF Pages, ReadsInto
  <2>13. ReadsInto' /\ Awaited' /\ Forgotten'
    BY <1>1, <1>2, <1>4, <2>1, <2>2, <2>3, <2>12
       DEF Pages, ReadsInto, Awaited, Forgotten, Retained
  <2> QED BY <1>2, <2>6, <2>7, <2>9, <2>10, <2>11, <2>13 DEF Pages, View
<1> QED BY <1>3, <1>4

LEMMA NextMirror == MirrorInv /\ [Next]_vars => MirrorInv'
<1> SUFFICES ASSUME MirrorInv, [Next]_vars PROVE MirrorInv'
  OBVIOUS
<1>1. CASE UNCHANGED vars
  <2>1. LoopTypes' /\ UNCHANGED viewVars /\ ready' = ready
    BY <1>1 DEF MirrorInv, Types, LoopTypes, Versions, vars, mirrorVars, followVars, clientVars,
                viewVars
  <2> QED BY <2>1, ViewStays
<1>2. CASE Commit \/ Publish \/ Claim \/ Lose \/ Close
  BY <1>2, CommitKeeps, MirrorSide
<1>3. CASE Follow \/ ReadRejects
  BY <1>3, LoopSide, SnapshotKeeps, FrameKeeps, ClosingKeeps DEF Follow
<1>4. CASE OpenChat \/ Older \/ CloseClient
  BY <1>4, OpenChatKeeps, OlderKeeps, ClosingKeeps
<1>5. CASE \E read \in reads : PageRead(read) \/ PageLands(read) \/ PageFails(read)
  BY <1>5, PageReadKeeps, PageLandsKeeps, PageFailsKeeps
<1> QED BY <1>1, <1>2, <1>3, <1>4, <1>5 DEF Next

(***************************************************************************)
(* The types of the mirror, of the frame loop and of the view hold.        *)
(***************************************************************************)
THEOREM MirrorTypes == Spec => []TypeOK
BY InitMirror, NextMirror, TypesAre, PTL DEF Spec

(***************************************************************************)
(* Whatever was missed, buffered or read meanwhile, a client that is ready  *)
(* holds the mirror as of one revision.                                    *)
(***************************************************************************)
THEOREM NothingIsSkipped == Spec => []ViewIsARevision
<1>1. MirrorInv => ViewIsARevision
  BY DEF MirrorInv, View
<1> QED BY <1>1, InitMirror, NextMirror, PTL DEF Spec

(***************************************************************************)
(* A page that lands late takes back nothing that a patch has brought.     *)
(***************************************************************************)
THEOREM PagesTakeNothingBack == Spec => []NeverBehind
<1>1. MirrorInv => NeverBehind
  BY DEF MirrorInv, View
<1> QED BY <1>1, InitMirror, NextMirror, PTL DEF Spec

(***************************************************************************)
(* From the cursor on, and from the beginning once all is read, every       *)
(* message that the mirror held at the client's revision is shown.         *)
(***************************************************************************)
THEOREM PagesLeaveNoHole == Spec => []NoHole
<1>1. MirrorInv => NoHole
  BY DEF MirrorInv, View
<1> QED BY <1>1, InitMirror, NextMirror, PTL DEF Spec

-----------------------------------------------------------------------------
(***************************************************************************)
(* Media. Of each call that carries some: what is behind it when it is      *)
(* where it is. A name is made only for a temporary file that is on the     *)
(* disk, so no name ever stands for bytes that are not.                    *)
(***************************************************************************)
MediaTypes ==
  /\ temporary \in [Writers -> {"none", "partial", "complete", "synced"}]
  /\ object \in [Objects -> {"none", "whole"}]
  /\ entered \in SUBSET Named
  /\ stage \in [Calls -> Stages]
  /\ content \in [Operations -> Contents \cup {NoContent}]

Behind(c) ==
  /\ stage[c] \in StagingStages => c \in Writers
  /\ stage[c] = "synced" => temporary[c] = "synced"
  /\ stage[c] \in {"linked", "cleaning"} => object[ObjectOf(c)] = "whole"
  /\ stage[c] \in {"submitting", "committed"} /\ c \in Writers => ObjectOf(c) \in entered

Submitted ==
  \A w \in Writers : content[OperationOf[w]] = ContentOf[w] => ObjectOf(w) \in entered

MediaInv == MediaTypes /\ (\A c \in Calls : Behind(c)) /\ Submitted

LEMMA InitMedia == OperationsInit => MediaInv
<1> SUFFICES ASSUME OperationsInit PROVE MediaInv
  OBVIOUS
<1> USE CallsAssumption DEF OperationsInit, MediaInit
<1>1. MediaTypes
  BY DEF MediaTypes, Stages
<1>2. \A c \in Calls : Behind(c)
  BY DEF Behind, StagingStages
<1>3. Submitted
  BY DEF Submitted
<1> QED BY <1>1, <1>2, <1>3 DEF MediaInv

LEMMA MediaOutlives == MediaInv => MediaOutlivesPower
BY CallsAssumption DEF MediaInv, MediaTypes, Submitted, MediaOutlivesPower, Named, Readable

\* One call moves; of the store it takes nothing away.
LEMMA CallMoves ==
  ASSUME MediaInv, NEW c \in Calls, NEW new \in Stages, stage' = [stage EXCEPT ![c] = new],
         content' = content,
         temporary' \in [Writers -> {"none", "partial", "complete", "synced"}],
         \A w \in Writers : w # c => temporary'[w] = temporary[w],
         object' \in [Objects -> {"none", "whole"}],
         \A b \in Objects : object[b] = "whole" => object'[b] = "whole",
         entered \subseteq entered', entered' \subseteq Named',
         new \in StagingStages => c \in Writers,
         new = "synced" => temporary'[c] = "synced",
         new \in {"linked", "cleaning"} => object'[ObjectOf(c)] = "whole",
         new \in {"submitting", "committed"} /\ c \in Writers => ObjectOf(c) \in entered'
  PROVE  MediaInv'
<1> USE CallsAssumption DEF MediaInv
<1>1. MediaTypes'
  BY DEF MediaTypes
<1>2. \A d \in Calls : ObjectOf(d)' = ObjectOf(d)
  BY DEF ObjectOf
<1>3. ASSUME NEW d \in Calls PROVE Behind(d)'
  <2>1. CASE d = c
    <3>1. stage'[d] = new
      BY <2>1 DEF MediaTypes
    <3> QED BY <1>2, <2>1, <3>1 DEF Behind
  <2>2. CASE d # c
    <3>1. stage'[d] = stage[d]
      BY <2>2 DEF MediaTypes
    <3>2. stage[d] = "synced" => d \in Writers
      BY DEF Behind, StagingStages
    <3>3. stage[d] \in {"linked", "cleaning"} => ObjectOf(d) \in Objects
      BY DEF Behind, StagingStages
    <3> QED BY <1>2, <2>2, <3>1, <3>2, <3>3 DEF Behind
  <2> QED BY <2>1, <2>2
<1>4. Submitted'
  BY <1>2 DEF Submitted
<1> QED BY <1>1, <1>3, <1>4

\* The directory and what is named in it as they were.
LEMMA OnlyTheCall ==
  ASSUME MediaInv, NEW c \in Calls,
         NEW new \in {"submitting", "committed", "recovering", "fetched", "unwinding", "done"},
         To(c, new), content' = content, UNCHANGED mediaVars,
         new = "unwinding" => c \in Writers,
         new \in {"submitting", "committed"} /\ c \in Writers => ObjectOf(c) \in entered
  PROVE  MediaInv'
<1>1. new \in Stages /\ new # "synced" /\ new \notin {"linked", "cleaning"}
      /\ (new \in StagingStages => new = "unwinding")
  BY DEF Stages, StagingStages
<1>2. temporary' = temporary /\ object' = object /\ entered' = entered
  BY DEF mediaVars
<1>3. Named' = Named
  BY <1>2 DEF Named
<1> QED BY <1>1, <1>2, <1>3, CallMoves DEF To, MediaInv, MediaTypes

LEMMA StagingKeepsMedia ==
  ASSUME MediaInv, NEW c \in Calls, Staging(c)
  PROVE  MediaInv'
<1> USE CallsAssumption DEF MediaInv, MediaTypes
<1>0. ASSUME stage[c] \in StagingStages PROVE c \in Writers /\ ObjectOf(c) \in Objects
  BY <1>0 DEF Behind
<1> USE <1>0
<1>1. CASE Staged(c)
  <2>1. c \in Writers /\ stage' = [stage EXCEPT ![c] = "complete"] /\ content' = content
        /\ temporary' = [temporary EXCEPT ![c] = "complete"] /\ object' = object
        /\ entered' = entered
    BY <1>1 DEF Staged, Consume, SetTemporary, To, At, Untouched, storeVars, StagingStages
  <2>2. Named' = Named /\ "complete" \in Stages
    BY <2>1 DEF Named, Stages, StagingStages
  <2> QED BY <2>1, <2>2, CallMoves
<1>2. CASE TemporarySynced(c)
  <2>1. c \in Writers /\ stage' = [stage EXCEPT ![c] = "synced"] /\ content' = content
        /\ temporary' = [temporary EXCEPT ![c] = "synced"] /\ object' = object
        /\ entered' = entered
    BY <1>2 DEF TemporarySynced, SyncTemporary, SetTemporary, To, At, Untouched, storeVars,
                StagingStages
  <2>2. Named' = Named /\ "synced" \in Stages
    BY <2>1 DEF Named, Stages, StagingStages
  <2> QED BY <2>1, <2>2, CallMoves
<1>3. CASE Linked(c)
  <2>1. c \in Writers /\ ObjectOf(c) \in Objects /\ stage[c] = "synced"
        /\ temporary[c] = "synced"
        /\ stage' = [stage EXCEPT ![c] = "linked"] /\ content' = content
    BY <1>3 DEF Linked, To, At, Untouched, storeVars, StagingStages, Behind
  <2>2. temporary' = temporary /\ entered' = entered
        /\ object' = [object EXCEPT ![ObjectOf(c)] = "whole"]
    <3>1. CASE LinkObject(c, ObjectOf(c))
      BY <2>1, <3>1 DEF LinkObject
    <3>2. CASE FindObject(c, ObjectOf(c))
      <4>1. object[ObjectOf(c)] = "whole"
        BY <2>1, <3>2 DEF FindObject
      <4> QED BY <3>2, <4>1 DEF FindObject, mediaVars
    <3> QED BY <1>3, <3>1, <3>2 DEF Linked
  <2>3. entered' \subseteq Named' /\ "linked" \in Stages
    BY <2>1, <2>2 DEF Named, Stages, StagingStages
  <2> QED BY <2>1, <2>2, <2>3, CallMoves
<1>4. CASE ObjectSynced(c)
  <2>1. c \in Writers /\ ObjectOf(c) \in Objects /\ object[ObjectOf(c)] = "whole"
        /\ stage' = [stage EXCEPT ![c] = "cleaning"] /\ content' = content
    BY <1>4 DEF ObjectSynced, To, At, Untouched, storeVars, StagingStages, Behind
  <2>2. temporary' = temporary /\ entered' = entered /\ object' = object
    BY <1>4, <2>1 DEF ObjectSynced, SyncObject
  <2>3. Named' = Named /\ "cleaning" \in Stages
    BY <2>2 DEF Named, Stages, StagingStages
  <2> QED BY <2>1, <2>2, <2>3, CallMoves
<1>5. CASE Published(c)
  <2>1. c \in Writers /\ ObjectOf(c) \in Objects /\ object[ObjectOf(c)] = "whole"
        /\ stage' = [stage EXCEPT ![c] = "submitting"] /\ content' = content
        /\ temporary' = [temporary EXCEPT ![c] = "none"] /\ object' = object
        /\ entered' = Named
    BY <1>5 DEF Published, RemoveTemporary, To, At, Untouched, storeVars, StagingStages, Behind
  <2>2. Named' = Named /\ ObjectOf(c) \in Named /\ "submitting" \in Stages
        /\ "submitting" \notin StagingStages
    BY <2>1 DEF Named, Stages, StagingStages
  <2> QED BY <2>1, <2>2, CallMoves
<1>6. CASE StagingFails(c) \/ AbortStaging(c)
  <2>1. c \in Writers /\ To(c, "unwinding") /\ content' = content /\ UNCHANGED mediaVars
    BY <1>6 DEF StagingFails, AbortStaging, At, storeVars, StagingStages
  <2> QED BY <2>1, OnlyTheCall
<1>7. CASE Unwound(c) \/ CleanupFails(c)
  <2>1. c \in Writers /\ stage' = [stage EXCEPT ![c] = "done"] /\ content' = content
        /\ temporary' = [temporary EXCEPT ![c] = "none"] /\ object' = object
        /\ entered' \in {entered, Named}
    BY <1>7 DEF Unwound, CleanupFails, RemoveTemporary, RemoveOnly, SetTemporary, End, At,
                storeVars, StagingStages
  <2>2. Named' = Named /\ "done" \in Stages /\ "done" \notin StagingStages
    BY <2>1 DEF Named, Stages, StagingStages
  <2> QED BY <2>1, <2>2, CallMoves
<1> QED BY <1>1, <1>2, <1>3, <1>4, <1>5, <1>6, <1>7 DEF Staging

LEMMA CallKeepsMedia ==
  ASSUME MediaInv, NEW c \in Calls, Call(c)
  PROVE  MediaInv'
<1>1. content' = content
  BY DEF Call, storeVars
<1>2. CASE c \in Writers
  <2>1. stage' = [stage EXCEPT ![c] = "consuming"] /\ object' = object /\ entered' = entered
        /\ temporary' = [temporary EXCEPT ![c] = "partial"]
    BY <1>2 DEF Call, To, CreateTemporary, SetTemporary
  <2>2. Named' = Named /\ "consuming" \in Stages
    BY <2>1 DEF Named, Stages, StagingStages
  <2> QED BY <1>1, <1>2, <2>1, <2>2, CallMoves DEF MediaInv, MediaTypes
<1>3. CASE c \notin Writers
  BY <1>1, <1>3, OnlyTheCall DEF Call
<1> QED BY <1>2, <1>3

LEMMA SubmissionKeepsMedia ==
  ASSUME MediaInv, NEW c \in Calls, Submission(c)
  PROVE  MediaInv'
<1> USE CallsAssumption DEF MediaInv
<1>1. CASE SubmitCommits(c)
  <2> DEFINE o == OperationOf[c]
  <2>1. UNCHANGED mediaVars /\ stage[c] = "submitting" /\ stage' = [stage EXCEPT ![c] = "committed"]
    BY <1>1 DEF SubmitCommits, At, To
  <2>2. c \in Writers => ObjectOf(c) \in entered
    BY <2>1 DEF Behind
  <2>3. CASE content' = content
    BY <2>1, <2>2, <2>3, OnlyTheCall DEF To
  <2>4. CASE content' = [content EXCEPT ![o] = ContentOf[c]]
    <3>1. MediaTypes'
      BY <2>1, <2>4 DEF MediaTypes, mediaVars, Named, Stages
    <3>2. \A d \in Calls : Behind(d)'
      BY <2>1, <2>2 DEF Behind, mediaVars, MediaTypes, ObjectOf, StagingStages
    <3>3. ASSUME NEW w \in Writers, content'[OperationOf[w]] = ContentOf[w]
          PROVE  ObjectOf(w) \in entered
      <4>1. CASE OperationOf[w] = o
        <5>1. ContentOf[w] = ContentOf[c]
          BY <2>4, <3>3, <4>1 DEF MediaTypes
        <5>2. c \in Writers /\ ObjectOf(w) = ObjectOf(c)
          BY <4>1, <5>1 DEF ObjectOf
        <5> QED BY <2>2, <5>2
      <4>2. CASE OperationOf[w] # o
        BY <2>4, <3>3, <4>2 DEF MediaTypes, Submitted
      <4> QED BY <4>1, <4>2
    <3>4. Submitted'
      BY <2>1, <3>3 DEF Submitted, mediaVars, ObjectOf
    <3> QED BY <3>1, <3>2, <3>4
  <2> QED BY <1>1, <2>3, <2>4 DEF SubmitCommits, storeVars
<1>2. CASE SubmitRejects(c)
  BY <1>2, OnlyTheCall DEF SubmitRejects, storeVars
<1>3. CASE Fetched(c)
  BY <1>3, OnlyTheCall DEF Fetched, storeVars
<1>4. CASE SubmitAnswers(c) \/ FetchLands(c) \/ FetchFails(c)
  <2>1. To(c, "done") /\ content' = content /\ UNCHANGED mediaVars
    BY <1>4 DEF SubmitAnswers, FetchLands, FetchFails, End, To, AnswerOnly, storeVars
  <2> QED BY <2>1, OnlyTheCall
<1> QED BY <1>1, <1>2, <1>3, <1>4 DEF Submission

LEMMA CrashKeepsMedia ==
  ASSUME MediaInv, Crash
  PROVE  MediaInv'
<1> USE CallsAssumption DEF MediaInv
<1>1. content' = content /\ stage' = [c \in Calls |-> "idle"]
      /\ temporary' = [w \in Writers |-> "none"]
  BY DEF Crash, AbandonTemporaries, LosePower, storeVars
<1>2. object' \in [Objects -> {"none", "whole"}] /\ entered \subseteq entered'
      /\ entered' \subseteq Named'
  <2>1. CASE AbandonTemporaries
    BY <2>1 DEF AbandonTemporaries, MediaTypes, Named
  <2>2. CASE LosePower
    <3>1. PICK kept \in SUBSET Named :
            /\ entered \subseteq kept /\ entered' = kept
            /\ object' = [b \in Objects |-> IF b \notin kept THEN "none" ELSE object[b]]
      BY <2>2 DEF LosePower, MediaTypes
    <3> QED BY <3>1 DEF MediaTypes, Named
  <2> QED BY <2>1, <2>2 DEF Crash
<1>3. MediaTypes'
  BY <1>1, <1>2 DEF MediaTypes, Stages
<1>4. \A c \in Calls : Behind(c)'
  BY <1>1 DEF Behind, StagingStages
<1>5. Submitted'
  BY <1>1, <1>2 DEF Submitted, ObjectOf
<1> QED BY <1>3, <1>4, <1>5

LEMMA NextMedia == MediaInv /\ [OperationsNext]_operationVars => MediaInv'
<1> SUFFICES ASSUME MediaInv, [OperationsNext]_operationVars PROVE MediaInv'
  OBVIOUS
<1>1. ASSUME UNCHANGED <<content, stage, mediaVars>> PROVE MediaInv'
  BY <1>1 DEF MediaInv, MediaTypes, Behind, Submitted, Named, mediaVars, ObjectOf
<1>2. CASE Create \/ ListRead \/ ListArrives \/ ListFails \/ CloseOperations \/ WaitsCancelled
  BY <1>1, <1>2 DEF Create, ListRead, ListArrives, ListFails, CloseOperations, WaitsCancelled,
                    ClientOnly, storeVars, callVars
<1>3. CASE Crash
  BY <1>3, CrashKeepsMedia
<1>4. CASE \E c \in Calls : Call(c) \/ Staging(c) \/ Submission(c)
  BY <1>4, CallKeepsMedia, StagingKeepsMedia, SubmissionKeepsMedia
<1>5. CASE \E o \in Operations :
             \/ Executed(o) \/ ExecutedElsewhere(o)
             \/ Wait(o) \/ AbortWait(o) \/ Acknowledge(o)
  BY <1>1, <1>5 DEF Executed, ExecutedElsewhere, Wait, AbortWait, Acknowledge, StoreOnly, ClientOnly,
                    storeVars, callVars
<1>6. CASE UNCHANGED operationVars
  BY <1>1, <1>6 DEF operationVars, storeVars, callVars
<1> QED BY <1>2, <1>3, <1>4, <1>5, <1>6 DEF OperationsNext

(***************************************************************************)
(* From the first receipt on, the media of an operation can be read, whole, *)
(* whatever fails, retries, crashes or loses its power meanwhile.          *)
(***************************************************************************)
THEOREM MediaComesFirst == OperationsSpec => []MediaOutlivesPower
BY InitMedia, NextMedia, MediaOutlives, PTL DEF OperationsSpec

-----------------------------------------------------------------------------
(***************************************************************************)
(* Receipts. Until the first list is in, what was heard is what was told,   *)
(* and there is no call whose answer could come between.                   *)
(***************************************************************************)
Copied == [Operations -> Nat]

ReceiptTypes ==
  /\ history \in [Operations -> Seq(Receipts)]
  /\ phase \in {"listing", "read", "open", "stopping", "closed", "failed", "down"}
  /\ listed \in Copied /\ early \in Copied /\ held \in Copied /\ told \in Copied
  /\ answer \in [Calls -> Nat]
  /\ DOMAIN stage = Calls

HeardIsTold == Hydrating \/ phase = "down" => told = early

NoCallYet == ~Usable => \A c \in Calls : stage[c] = "idle"

HeldInv == ReceiptTypes /\ HeardIsTold /\ NoCallYet /\ NothingMissed

LEMMA InitHeld == OperationsInit => HeldInv
<1> SUFFICES ASSUME OperationsInit PROVE HeldInv
  OBVIOUS
<1> USE DEF OperationsInit
<1>1. NotRead \in Copied
  BY DEF NotRead, Copied, None
<1>2. ReceiptTypes
  BY <1>1 DEF ReceiptTypes, None
<1>3. HeardIsTold /\ NoCallYet /\ NothingMissed
  BY DEF HeardIsTold, NoCallYet, NothingMissed, Usable
<1> QED BY <1>2, <1>3 DEF HeldInv

LEMMA NewerIs ==
  ASSUME NEW old \in Nat, NEW new \in Nat
  PROVE  Newer(old, new) \in Nat /\ Newer(old, new) = Newer(new, old)
BY DEF Newer

\* A copy that the client takes in, it was given.
LEMMA RetainKeeps ==
  ASSUME ReceiptTypes, NEW o \in Operations, NEW copy \in Nat, NEW receipts,
         Retain(o, copy, receipts)
  PROVE  held' \in Copied /\ told' \in Copied /\ (held = told => held' = told')
<1>1. held' = [held EXCEPT ![o] = Newer(held[o], copy)]
      /\ told' = [told EXCEPT ![o] = Newer(told[o], copy)]
  BY DEF Retain
<1>2. held[o] \in Nat /\ told[o] \in Nat
  BY DEF ReceiptTypes, Copied
<1>3. Newer(held[o], copy) \in Nat /\ Newer(told[o], copy) \in Nat
  BY <1>2, NewerIs
<1> QED BY <1>1, <1>3 DEF ReceiptTypes, Copied

\* The same of one that is announced: it is taken in, or kept for the list, or
\* not heard at all.
LEMMA HearKeeps ==
  ASSUME HeldInv, NEW o \in Operations, NEW receipts, Len(receipts) \in Nat,
         Hear(o, receipts)
  PROVE  /\ early' \in Copied /\ held' \in Copied /\ told' \in Copied
         /\ Hydrating \/ phase = "down" => told' = early'
         /\ held = told /\ ~Hydrating => held' = told'
<1> USE DEF HeldInv
<1>1. CASE phase = "open"
  <2>1. Retain(o, Len(receipts), receipts) /\ early' = early
    BY <1>1 DEF Hear, Subscribed
  <2> QED BY <1>1, <2>1, RetainKeeps DEF Hydrating, ReceiptTypes
<1>2. CASE Hydrating
  <2>1. early' = [early EXCEPT ![o] = Len(receipts)] /\ told' = [told EXCEPT ![o] = Len(receipts)]
        /\ held' = held
    BY <1>2 DEF Hear, Subscribed, Hydrating
  <2> QED BY <1>2, <2>1 DEF HeardIsTold, ReceiptTypes, Copied
<1>3. CASE phase # "open" /\ ~Hydrating
  <2>1. early' = early /\ told' = told /\ held' = held
    BY <1>3 DEF Hear, Subscribed
  <2> QED BY <1>3, <2>1 DEF HeardIsTold, ReceiptTypes
<1> QED BY <1>1, <1>2, <1>3

LEMMA UsableIsHeld ==
  ASSUME HeldInv, Usable PROVE held = told /\ ~Hydrating /\ phase # "down"
BY DEF HeldInv, ReceiptTypes, NothingMissed, Copied, Usable, Hydrating

\* A store that moves on, while the client is where it is.
LEMMA StoreMoves ==
  ASSUME HeldInv, NEW o \in Operations, NEW receipt \in Receipts,
         history' = [history EXCEPT ![o] = Append(@, receipt)]
  PROVE  /\ history' \in [Operations -> Seq(Receipts)] /\ Len(history'[o]) \in Nat
BY DEF HeldInv, ReceiptTypes

LEMMA ReceiptsAre ==
  ASSUME HeldInv, NEW o \in Operations, Latest(o) # None
  PROVE  /\ history[o][Latest(o)] \in Receipts
         /\ \A s \in Moves(StatusOf(o, Latest(o))) : [status |-> s, acknowledged |-> FALSE] \in Receipts
<1>1. history[o] \in Seq(Receipts) /\ Len(history[o]) \in Nat
  BY DEF HeldInv, ReceiptTypes
<1>2. history[o][Latest(o)] \in Receipts
  BY <1>1 DEF Latest, None
<1>3. \A s \in Moves(StatusOf(o, Latest(o))) : s \in {"executing", "verdict"}
  BY <1>2 DEF StatusOf, Moves, Receipts
<1> QED BY <1>2, <1>3 DEF Receipts

\* The client stays in its phase, and what it was told stays what it has.
LEMMA SamePhase ==
  ASSUME HeldInv, phase' = phase, history' \in [Operations -> Seq(Receipts)],
         listed' = listed, early' \in Copied, held' \in Copied, told' \in Copied,
         answer' \in [Calls -> Nat], DOMAIN stage' = Calls,
         Hydrating \/ phase = "down" => told' = early',
         Usable => held' = told',
         ~Usable => stage' = stage
  PROVE  HeldInv'
<1> USE DEF HeldInv
<1>1. ReceiptTypes'
  BY DEF ReceiptTypes
<1>2. HeardIsTold' /\ NoCallYet' /\ NothingMissed'
  BY DEF HeardIsTold, NoCallYet, NothingMissed, Usable, Hydrating
<1> QED BY <1>1, <1>2

LEMMA StoreKeepsHeld ==
  ASSUME HeldInv, NEW o \in Operations,
         \/ Executed(o) \/ ExecutedElsewhere(o)
         \/ Wait(o) \/ AbortWait(o) \/ Acknowledge(o)
  PROVE  HeldInv'
<1>0. /\ history \in [Operations -> Seq(Receipts)]
      /\ early \in Copied /\ held \in Copied /\ told \in Copied
      /\ answer \in [Calls -> Nat] /\ DOMAIN stage = Calls
      /\ (Hydrating \/ phase = "down" => told = early)
      /\ (Usable => held = told /\ ~Hydrating /\ phase # "down")
  BY UsableIsHeld DEF HeldInv, ReceiptTypes, HeardIsTold
<1>1. CASE Executed(o)
  <2>1. PICK s \in Moves(StatusOf(o, Latest(o))) :
          Becomes(o, [status |-> s, acknowledged |-> FALSE])
    BY <1>1 DEF Executed
  <2>2. [status |-> s, acknowledged |-> FALSE] \in Receipts
    BY <1>1, ReceiptsAre DEF Executed
  <2>3. history' \in [Operations -> Seq(Receipts)] /\ Len(history'[o]) \in Nat
        /\ Hear(o, history'[o])
    BY <2>1, <2>2, StoreMoves DEF Becomes
  <2>4. /\ early' \in Copied /\ held' \in Copied /\ told' \in Copied
        /\ Hydrating \/ phase = "down" => told' = early'
        /\ held = told /\ ~Hydrating => held' = told'
    BY <2>3, HearKeeps
  <2>5. phase' = phase /\ listed' = listed /\ answer' = answer /\ stage' = stage
    BY <1>1 DEF Executed, StoreOnly, callVars
  <2> QED BY <1>0, <2>3, <2>4, <2>5, SamePhase
<1>2. CASE ExecutedElsewhere(o)
  <2>1. PICK s \in Moves(StatusOf(o, Latest(o))) :
          history' = [history EXCEPT ![o] = Append(@, [status |-> s, acknowledged |-> FALSE])]
    BY <1>2 DEF ExecutedElsewhere
  <2>2. [status |-> s, acknowledged |-> FALSE] \in Receipts
    BY <1>2, ReceiptsAre DEF ExecutedElsewhere
  <2>3. history' \in [Operations -> Seq(Receipts)]
    BY <2>1, <2>2, StoreMoves
  <2>4. phase' = phase /\ listed' = listed /\ answer' = answer /\ stage' = stage
        /\ early' = early /\ held' = held /\ told' = told
    BY <1>2 DEF ExecutedElsewhere, StoreOnly, callVars
  <2> QED BY <1>0, <2>3, <2>4, SamePhase
<1>3. CASE Wait(o) \/ AbortWait(o)
  <2>1. history' = history /\ phase' = phase /\ listed' = listed /\ answer' = answer
        /\ stage' = stage /\ early' = early /\ held' = held /\ told' = told
    BY <1>3 DEF Wait, AbortWait, ClientOnly, storeVars, callVars
  <2> QED BY <1>0, <2>1, SamePhase
<1>4. CASE Acknowledge(o)
  <2>1. Usable /\ phase' = phase /\ listed' = listed /\ answer' = answer /\ stage' = stage
        /\ Latest(o) # None /\ history' = Marked(o)
    BY <1>4 DEF Acknowledge, callVars
  <2>2. history' \in [Operations -> Seq(Receipts)] /\ Len(history'[o]) \in Nat
    <3> DEFINE receipt == [history[o][Latest(o)] EXCEPT !.acknowledged = TRUE]
    <3>1. receipt \in Receipts
      <4>1. history[o][Latest(o)] \in Receipts
        BY <2>1, ReceiptsAre
      <4> QED BY <4>1 DEF Receipts
    <3>2. \/ history' = history
          \/ history' = [history EXCEPT ![o] = Append(@, receipt)]
      BY <2>1 DEF Marked
    <3> HIDE DEF receipt
    <3>3. CASE history' = history
      BY <1>0, <3>3
    <3>4. CASE history' = [history EXCEPT ![o] = Append(@, receipt)]
      BY <3>1, <3>4, StoreMoves
    <3> QED BY <3>2, <3>3, <3>4
  <2>3. early' \in Copied /\ held' \in Copied /\ told' \in Copied /\ held' = told'
    <3>1. CASE Hear(o, history'[o])
      BY <1>0, <2>1, <2>2, <3>1, HearKeeps
    <3>2. CASE Retain(o, Len(history'[o]), history'[o]) /\ UNCHANGED early
      BY <1>0, <2>1, <2>2, <3>2, RetainKeeps DEF HeldInv
    <3> QED BY <1>4, <3>1, <3>2 DEF Acknowledge
  <2> QED BY <1>0, <2>1, <2>2, <2>3, SamePhase
<1> QED BY <1>1, <1>2, <1>3, <1>4

LEMMA PhasesKeepHeld ==
  ASSUME HeldInv,
         \/ Create \/ ListRead \/ ListArrives \/ ListFails
         \/ CloseOperations \/ WaitsCancelled
  PROVE  HeldInv'
<1> USE DEF HeldInv
<1>1. history' = history /\ answer' = answer /\ stage' = stage
  BY DEF Create, ListRead, ListArrives, ListFails, CloseOperations, WaitsCancelled, ClientOnly,
         storeVars, callVars
<1>2. NotRead \in Copied
  BY DEF NotRead, Copied, None
<1>3. CASE Create \/ CloseOperations \/ WaitsCancelled
  <2>1. listed' = listed /\ early' = early /\ held' = held /\ told' = told
    BY <1>3 DEF Create, CloseOperations, WaitsCancelled
  <2>2. \/ phase = "down" /\ phase' = "listing"
        \/ phase = "open" /\ phase' = "stopping"
        \/ phase = "stopping" /\ phase' = "closed"
    BY <1>3 DEF Create, CloseOperations, WaitsCancelled
  <2>3. ReceiptTypes'
    BY <1>1, <2>1, <2>2 DEF ReceiptTypes
  <2>4. HeardIsTold' /\ NoCallYet' /\ NothingMissed'
    BY <1>1, <2>1, <2>2 DEF HeardIsTold, NoCallYet, NothingMissed, Usable, Hydrating
  <2> QED BY <2>3, <2>4
<1>4. CASE ListRead
  <2>1. early' = early /\ held' = held /\ told' = told /\ phase = "listing" /\ phase' = "read"
        /\ listed' = [o \in Operations |-> Latest(o)]
    BY <1>4 DEF ListRead
  <2>2. listed' \in Copied
    BY <2>1 DEF Copied, Latest, ReceiptTypes
  <2>3. ReceiptTypes'
    BY <1>1, <2>1, <2>2 DEF ReceiptTypes
  <2>4. HeardIsTold' /\ NoCallYet' /\ NothingMissed'
    BY <1>1, <2>1 DEF HeardIsTold, NoCallYet, NothingMissed, Usable, Hydrating
  <2> QED BY <2>3, <2>4
<1>5. CASE ListArrives
  <2>1. /\ phase = "read" /\ phase' = "open" /\ listed' = NotRead /\ early' = NotRead
        /\ held' = [o \in Operations |-> Newer(listed[o], early[o])]
        /\ told' = [o \in Operations |-> Newer(told[o], listed[o])]
    BY <1>5 DEF ListArrives
  <2>2. told = early
    BY <2>1 DEF HeardIsTold, Hydrating
  <2>3. \A o \in Operations : listed[o] \in Nat /\ early[o] \in Nat /\ told[o] \in Nat
    BY DEF ReceiptTypes, Copied
  <2>4. \A o \in Operations : /\ Newer(listed[o], early[o]) \in Nat
                              /\ Newer(told[o], listed[o]) = Newer(listed[o], early[o])
    BY <2>2, <2>3, NewerIs
  <2>5. held' \in Copied /\ told' \in Copied /\ \A o \in Operations : held'[o] = told'[o]
    BY <2>1, <2>4 DEF Copied
  <2>6. ReceiptTypes'
    BY <1>1, <1>2, <2>1, <2>5 DEF ReceiptTypes
  <2>7. HeardIsTold' /\ NoCallYet' /\ NothingMissed'
    BY <2>1, <2>5 DEF HeardIsTold, NoCallYet, NothingMissed, Usable, Hydrating
  <2> QED BY <2>6, <2>7
<1>6. CASE ListFails
  <2>1. /\ phase \in {"listing", "read"} /\ phase' = "failed"
        /\ listed' = NotRead /\ early' = NotRead /\ held' = held /\ told' = told
    BY <1>6 DEF ListFails
  <2>2. ReceiptTypes'
    BY <1>1, <1>2, <2>1 DEF ReceiptTypes
  <2>3. HeardIsTold' /\ NoCallYet' /\ NothingMissed'
    BY <1>1, <2>1 DEF HeardIsTold, NoCallYet, NothingMissed, Usable, Hydrating
  <2> QED BY <2>2, <2>3
<1> QED BY <1>3, <1>4, <1>5, <1>6

LEMMA CrashKeepsHeld ==
  ASSUME HeldInv, Crash
  PROVE  HeldInv'
<1> USE DEF HeldInv
<1>1. NotRead \in Copied
  BY DEF NotRead, Copied, None
<1>2. /\ phase' = "down" /\ history' = history
      /\ listed' = NotRead /\ early' = NotRead /\ held' = NotRead /\ told' = NotRead
      /\ stage' = [c \in Calls |-> "idle"] /\ answer' = [c \in Calls |-> None]
  BY DEF Crash, storeVars
<1>3. ReceiptTypes'
  BY <1>1, <1>2 DEF ReceiptTypes, None
<1>4. HeardIsTold' /\ NoCallYet' /\ NothingMissed'
  BY <1>2 DEF HeardIsTold, NoCallYet, NothingMissed, Usable
<1> QED BY <1>3, <1>4

\* There are calls only at a client that can be used.
LEMMA CallsKeepHeld ==
  ASSUME HeldInv, NEW c \in Calls, Call(c) \/ Staging(c) \/ Submission(c)
  PROVE  HeldInv'
<1> USE CallsAssumption
<1>0. /\ history \in [Operations -> Seq(Receipts)]
      /\ early \in Copied /\ held \in Copied /\ told \in Copied
      /\ answer \in [Calls -> Nat] /\ DOMAIN stage = Calls
  BY DEF HeldInv, ReceiptTypes
<1>1. Usable
  BY DEF Call, Staging, Submission, Staged, TemporarySynced, Linked, ObjectSynced, Published,
         StagingFails, AbortStaging, Unwound, CleanupFails, SubmitCommits, SubmitRejects,
         SubmitAnswers, Fetched, FetchLands, FetchFails, At, HeldInv, NoCallYet
<1>2. held = told /\ ~Hydrating /\ phase # "down"
  BY <1>1, UsableIsHeld
<1>3. OperationOf[c] \in Operations /\ Latest(OperationOf[c]) \in Nat
  BY <1>0 DEF Latest
<1>5. ASSUME To(c, "consuming") \/ To(c, "submitting") \/ To(c, "complete") \/ To(c, "synced")
             \/ To(c, "linked") \/ To(c, "cleaning") \/ To(c, "unwinding")
             \/ To(c, "recovering") \/ To(c, "fetched") \/ To(c, "done") \/ To(c, "committed")
      PROVE  DOMAIN stage' = Calls
  BY <1>0, <1>5 DEF To
<1>6. CASE Call(c) \/ Staging(c)
  <2>1. UNCHANGED <<history, phase, listed, early, held, told>>
    BY <1>6 DEF Call, Staging, Staged, TemporarySynced, Linked, ObjectSynced, Published,
         StagingFails, AbortStaging, Unwound, CleanupFails, Untouched, CallOnly, holdVars, storeVars
  <2>2. DOMAIN stage' = Calls
    BY <1>6, <1>5 DEF Call, Staging, Staged, TemporarySynced, Linked, ObjectSynced, Published,
         StagingFails, AbortStaging, Unwound, CleanupFails, End, To
  <2>3. answer' = answer \/ answer' = [answer EXCEPT ![c] = None]
    BY <1>6 DEF Call, Staging, Staged, TemporarySynced, Linked, ObjectSynced, Published,
         StagingFails, AbortStaging, Unwound, CleanupFails, Untouched, End
  <2>4. answer' \in [Calls -> Nat]
    BY <1>0, <2>3 DEF None
  <2> QED BY <1>0, <1>1, <1>2, <2>1, <2>2, <2>4, SamePhase
<1>7. CASE SubmitCommits(c)
  <2> DEFINE o == OperationOf[c]
  <2>1. phase' = phase /\ listed' = listed /\ To(c, "committed")
        /\ answer' = [answer EXCEPT ![c] = Len(history'[o])]
    BY <1>7 DEF SubmitCommits
  <2>2. CASE Becomes(o, Queued)
    <3>1. Queued \in Receipts
      BY DEF Queued, Receipts
    <3>2. history' \in [Operations -> Seq(Receipts)] /\ Len(history'[o]) \in Nat
          /\ Hear(o, history'[o])
      BY <1>3, <2>2, <3>1, StoreMoves DEF Becomes
    <3>3. early' \in Copied /\ held' \in Copied /\ told' \in Copied /\ held' = told'
      BY <1>2, <1>3, <3>2, HearKeeps
    <3>4. answer' \in [Calls -> Nat]
      BY <1>0, <2>1, <3>2
    <3> QED BY <1>0, <1>1, <1>2, <1>5, <2>1, <3>2, <3>3, <3>4, SamePhase
  <2>3. CASE UNCHANGED <<storeVars, early, held, told, waiting>>
    <3>1. history' = history /\ early' = early /\ held' = held /\ told' = told
      BY <2>3 DEF storeVars
    <3>2. answer' \in [Calls -> Nat]
      BY <1>0, <1>3, <2>1, <3>1 DEF Latest
    <3> QED BY <1>0, <1>1, <1>2, <1>5, <2>1, <3>1, <3>2, SamePhase
  <2> QED BY <1>7, <2>2, <2>3 DEF SubmitCommits
<1>8. CASE SubmitRejects(c) \/ Fetched(c) \/ FetchFails(c)
  <2>1. UNCHANGED <<history, phase, listed, early, held, told>>
    BY <1>8 DEF SubmitRejects, Fetched, FetchFails, CallOnly, holdVars, storeVars
  <2>2. DOMAIN stage' = Calls
    BY <1>8, <1>5 DEF SubmitRejects, Fetched, FetchFails, End, To
  <2>3. \E copy \in Nat : answer' = [answer EXCEPT ![c] = copy]
    BY <1>3, <1>8 DEF SubmitRejects, Fetched, FetchFails, End, None
  <2>4. answer' \in [Calls -> Nat]
    BY <1>0, <2>3
  <2> QED BY <1>0, <1>1, <1>2, <2>1, <2>2, <2>4, SamePhase
<1>9. CASE SubmitAnswers(c) \/ FetchLands(c)
  <2>1. UNCHANGED <<history, phase, listed, early>>
    BY <1>9 DEF SubmitAnswers, FetchLands, AnswerOnly, storeVars
  <2>2. DOMAIN stage' = Calls
    BY <1>9, <1>5 DEF SubmitAnswers, FetchLands, End, To
  <2>3. answer' \in [Calls -> Nat]
    <3>1. answer' = [answer EXCEPT ![c] = None]
      BY <1>9 DEF SubmitAnswers, FetchLands, End
    <3> QED BY <1>0, <3>1 DEF None
  <2>4. held' \in Copied /\ told' \in Copied /\ held' = told'
    <3>1. CASE Retain(OperationOf[c], answer[c], history[OperationOf[c]])
      BY <1>0, <1>2, <1>3, <3>1, RetainKeeps DEF HeldInv
    <3>2. CASE UNCHANGED <<held, told, waiting>>
      BY <1>0, <1>2, <3>2
    <3> QED BY <1>9, <3>1, <3>2 DEF SubmitAnswers, FetchLands
  <2> QED BY <1>0, <1>1, <1>2, <2>1, <2>2, <2>3, <2>4, SamePhase
<1> QED BY <1>6, <1>7, <1>8, <1>9 DEF Submission

LEMMA NextHeld == HeldInv /\ [OperationsNext]_operationVars => HeldInv'
<1> SUFFICES ASSUME HeldInv, [OperationsNext]_operationVars PROVE HeldInv'
  OBVIOUS
<1>1. CASE UNCHANGED operationVars
  <2>1. UNCHANGED <<history, phase, listed, early, held, told, answer, stage>>
    BY <1>1 DEF operationVars, storeVars, holdVars, callVars
  <2> QED BY <2>1 DEF HeldInv, ReceiptTypes, HeardIsTold, NoCallYet, NothingMissed, Usable, Hydrating
<1> QED BY <1>1, PhasesKeepHeld, CrashKeepsHeld, CallsKeepHeld, StoreKeepsHeld DEF OperationsNext

(***************************************************************************)
(* A client that is created holds the newest copy it was given of every     *)
(* receipt, in whatever order list, changes and answers reached it.        *)
(***************************************************************************)
THEOREM NoReceiptIsMissed == OperationsSpec => []NothingMissed
<1>1. HeldInv => NothingMissed
  BY DEF HeldInv
<1> QED BY <1>1, InitHeld, NextHeld, PTL DEF OperationsSpec
=============================================================================
