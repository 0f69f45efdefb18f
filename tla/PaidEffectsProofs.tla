--------------------------- MODULE PaidEffectsProofs ---------------------------
(***************************************************************************)
(* Machine-checked proofs about the portal's paid rooms: a room runs only  *)
(* under a reservation that counts it, the undelivered rooms of a period   *)
(* stay within the cap, and Stripe hears only of delivered rooms, whichever *)
(* requests, jobs and answers are lost, for any intentions and callers.    *)
(***************************************************************************)
EXTENDS PaidEffects, FiniteSetTheorems, TLAPS

States == {"none", "reserved", "released", "committed", "completed"} \cup Barrier
Effect == [state : States, delivery : {"held", "activated", "voided"},
           dispatched : BOOLEAN, ref : BOOLEAN]
UsageRow == [status : {"none", "pending", "failed", "delivering", "delivered",
                       "dead_letter", "voided"},
             attempts : Nat]

(* Where a request is once the provider may have heard of its room.        *)
Opened == {"commit", "give_up", "uncommitted_fence", "uncommitted_end",
           "uncommitted_reconcile", "bind", "transcript", "fence", "void", "end",
           "reconcile"}
Asking == [pc : {"retry", "claim", "dispatch", "create"} \cup Opened, row : Rows,
           seen : {"held", "activated", "voided"}, sound : BOOLEAN]
Cleaning == [pc : {"clean"}, row : Rows, todo : SUBSET {"void", "end"}, sound : BOOLEAN]
Sending == [pc : {"send"}, row : Rows]

PaidTypeOK ==
  /\ effect \in [Rows -> Effect]
  /\ joined \in [Rows -> {"none", "delivered", "never_joined"}]
  /\ usage \in [Rows -> UsageRow]
  /\ room \in [Rows -> {"none", "running", "ended"}]
  /\ charged \in [Rows -> BOOLEAN]
  /\ activated \in [Rows -> BOOLEAN]
  /\ vouched \in [Rows -> BOOLEAN]
  /\ caller \in [Callers -> {AtRest} \cup Asking]
  /\ cleaner \in {AtRest} \cup Cleaning
  /\ biller \in {AtRest} \cup Sending

(* A row: its room, its delivery and its bill fit the state of the effect, *)
(* unless an operator vouched for the row: then it is released, whatever   *)
(* its room does.                                                          *)
RowSound(r) ==
  LET e == effect[r] IN
  /\ room[r] = "running" => e.state \notin {"none", "reserved", "released"} \/ vouched[r]
  /\ vouched[r] => e.state = "released" /\ e.dispatched
  /\ e.state \in {"none", "reserved"} => room[r] = "none" /\ e.delivery = "held"
  /\ e.state \in {"committed", "completed"} \cup Barrier => e.dispatched
  /\ e.state \in {"none", "reserved", "provider_in_flight"} => ~e.ref
  /\ e.state = "none" => ~e.dispatched
  /\ e.delivery # "held" => e.dispatched
  /\ e.delivery = "activated" => activated[r]
  /\ activated[r] => e.delivery # "held" /\ joined[r] = "delivered"
  /\ joined[r] # "none" => room[r] = "ended"
  /\ usage[r].status # "none" => activated[r]
  /\ charged[r] => activated[r]

(* A row whose room its request may open: in flight, unless an operator    *)
(* released it before the request asked the provider.                      *)
ToBeOpened(r) == /\ room[r] = "none" /\ ~effect[r].ref
                 /\ effect[r].state = "provider_in_flight" \/ vouched[r]

(* A request: what it may still do to its row fits what the row is in.     *)
CallerSound(k) ==
  caller[k].pc # "idle" =>
    LET r == caller[k].row IN
    /\ effect[r].state # "none"
    /\ caller[k].pc = "retry" => r[2] = "base" /\ effect[r].state = "released"
    /\ caller[k].pc = "create" => ToBeOpened(r)
    /\ caller[k].pc \in Opened => effect[r].state # "reserved"
    /\ caller[k].pc \in {"uncommitted_reconcile", "reconcile"} => room[r] # "running"

(* Only the request that dispatched a row opens its room, and no other     *)
(* deals with a room before it has.                                        *)
OneOpener ==
  \A k, l \in Callers :
    /\ caller[k].pc = "create"
    /\ caller[l].pc \in Opened \cup {"create"}
    /\ caller[k].row = caller[l].row
    => k = l

(* The cleanup job has confirmed an end only of a room that was opened.    *)
CleanerSound ==
  cleaner.pc = "clean" /\ cleaner.sound =>
    /\ effect[cleaner.row].ref
    /\ "end" \notin cleaner.todo => room[cleaner.row] # "running"

BillerSound == biller.pc = "send" => activated[biller.row]

(* An intention is retried only when its first row was released.           *)
RetriesFollow ==
  \A c \in Intentions :
    effect[<<c, "retry">>].state # "none" => effect[<<c, "base">>].state = "released"

Engaged == {r \in Rows : effect[r].state # "none"}

PaidInv ==
  /\ PaidTypeOK
  /\ \A r \in Rows : RowSound(r)
  /\ \A k \in Callers : CallerSound(k)
  /\ OneOpener
  /\ CleanerSound
  /\ BillerSound
  /\ RetriesFollow
  /\ IsFiniteSet(Engaged)
  /\ ExposureIsBounded

LEMMA PaidInvImplies ==
  PaidInv => RoomsFollowReservations /\ BillingFollowsDelivery /\ ExposureIsBounded
<1> SUFFICES ASSUME PaidInv
             PROVE  RoomsFollowReservations /\ BillingFollowsDelivery
  BY DEF PaidInv
<1>1. \A r \in Rows : RowSound(r) /\ effect[r].state \in States
  BY DEF PaidInv, PaidTypeOK, Effect
<1>2. BillingFollowsDelivery
  BY <1>1 DEF RowSound, BillingFollowsDelivery
<1>3. \A r \in Rows : room[r] = "running" =>
        /\ effect[r].dispatched
        /\ effect[r].state \notin {"none", "reserved", "released"} \/ vouched[r]
  BY <1>1 DEF RowSound, States
<1>4. ASSUME NEW c \in Intentions
      PROVE  Cardinality({r \in Rows : r[1] = c /\ effect[r].state \notin {"none", "released"}}) <= 1
  <2> DEFINE live == {r \in Rows : r[1] = c /\ effect[r].state \notin {"none", "released"}}
  <2>1. \A r \in live : r = <<c, "base">> \/ r = <<c, "retry">>
    BY DEF Rows
  <2>2. ~(<<c, "base">> \in live /\ <<c, "retry">> \in live)
    BY DEF PaidInv, RetriesFollow
  <2>3. PICK r : live \subseteq {r}
    BY <2>1, <2>2
  <2>4. IsFiniteSet({r}) /\ Cardinality({r}) = 1
    BY FS_Singleton
  <2> HIDE DEF live
  <2>5. IsFiniteSet(live) /\ Cardinality(live) <= Cardinality({r})
    BY <2>3, <2>4, FS_Subset
  <2> QED
    BY <2>4, <2>5 DEF live
<1> QED
  BY <1>2, <1>3, <1>4 DEF RoomsFollowReservations

(* The fields of a row and what is known of them.                          *)
LEMMA RowFields ==
  ASSUME PaidInv, NEW r \in Rows
  PROVE  /\ effect \in [Rows -> Effect] /\ effect[r] \in Effect /\ RowSound(r)
         /\ room \in [Rows -> {"none", "running", "ended"}]
         /\ usage \in [Rows -> UsageRow] /\ usage[r] \in UsageRow
         /\ joined \in [Rows -> {"none", "delivered", "never_joined"}]
         /\ charged \in [Rows -> BOOLEAN] /\ activated \in [Rows -> BOOLEAN]
         /\ vouched \in [Rows -> BOOLEAN]
  BY DEF PaidInv, PaidTypeOK

(* What a request that is under way looks like.                            *)
LEMMA CallerFields ==
  ASSUME PaidInv, NEW k \in Callers, caller[k].pc # "idle"
  PROVE  /\ caller[k] \in Asking /\ caller[k].row \in Rows
         /\ caller \in [Callers -> {AtRest} \cup Asking]
         /\ CallerSound(k) /\ RowSound(caller[k].row)
         /\ effect \in [Rows -> Effect] /\ effect[caller[k].row] \in Effect
  BY DEF PaidInv, PaidTypeOK, Asking, AtRest

-------------------------------------------------------------------------------
Kept(r) ==
  /\ effect'[r] = effect[r] /\ room'[r] = room[r] /\ joined'[r] = joined[r]
  /\ usage'[r] = usage[r] /\ charged'[r] = charged[r] /\ activated'[r] = activated[r]
  /\ vouched'[r] = vouched[r]

(* How a row goes on: never back to an earlier state of the reservation,   *)
(* and its room only starts for the request that opens it.                 *)
GoesOn(r, opening) ==
  /\ effect'[r].state = "none" <=> effect[r].state = "none"
  /\ effect'[r].state = "reserved" => effect[r].state = "reserved"
  /\ effect[r].state = "released" => effect'[r].state = "released"
  /\ effect[r].ref => effect'[r].ref
  /\ effect'[r].dispatched => effect[r].dispatched \/ effect[r].state = "reserved"
  /\ activated[r] => activated'[r]
  /\ vouched'[r] = vouched[r]
  /\ room'[r] = "running" => room[r] = "running" \/ opening

(* What a request opening a room relies on.                                *)
Untouched(r) == effect'[r] = effect[r] /\ room'[r] = room[r] /\ vouched'[r] = vouched[r]

LEMMA ExposureKept ==
  ASSUME PaidInv, PaidTypeOK', \A r \in Rows : Kept(r) \/ \E o \in BOOLEAN : GoesOn(r, o)
  PROVE  IsFiniteSet(Engaged)' /\ ExposureIsBounded'
<1>1. \A r \in Rows : /\ effect'[r].state = "none" <=> effect[r].state = "none"
                      /\ effect[r].state = "released" => effect'[r].state = "released"
                      /\ effect'[r].dispatched => effect[r].dispatched \/ effect[r].state = "reserved"
                      /\ activated[r] => activated'[r]
  BY DEF Kept, GoesOn
<1>2. Engaged' = Engaged
  BY <1>1 DEF Engaged
<1>3. NeverDelivered' \subseteq NeverDelivered
  BY <1>1 DEF NeverDelivered
<1>4. NeverDelivered \subseteq Engaged
  <2>1. \A r \in Rows : effect[r].state = "none" => ~effect[r].dispatched
    BY DEF PaidInv, RowSound
  <2> QED
    BY <2>1 DEF NeverDelivered, Engaged
<1>5. IsFiniteSet(Engaged) /\ Cardinality(NeverDelivered) <= Cap
  BY DEF PaidInv, ExposureIsBounded
<1>6. IsFiniteSet(NeverDelivered)
  BY <1>4, <1>5, FS_Subset
<1>7. /\ Cardinality(NeverDelivered') <= Cardinality(NeverDelivered)
      /\ IsFiniteSet(NeverDelivered')
  BY <1>3, <1>6, FS_Subset
<1>8. /\ Cardinality(NeverDelivered') \in Nat /\ Cardinality(NeverDelivered) \in Nat
      /\ Cap \in Nat
  BY <1>6, <1>7, FS_CardinalityType, PaidEffectsAssumption
<1>9. Cardinality(NeverDelivered') <= Cap
  BY <1>5, <1>7, <1>8
<1> QED
  BY <1>2, <1>5, <1>9 DEF ExposureIsBounded

(* A step of one request (k), or of no request, that leaves the rows of    *)
(* the other openers alone.                                                *)
LEMMA StepKeeps ==
  ASSUME PaidInv, PaidTypeOK', NEW k,
         \A l \in Callers \ {k} : caller'[l] = caller[l],
         k \in Callers => CallerSound(k)',
         \A l \in Callers \ {k} :
           /\ k \in Callers /\ caller'[k].pc = "create" /\ caller[l].pc \in Opened \cup {"create"}
              => caller'[k].row # caller[l].row
           /\ k \in Callers /\ caller[l].pc = "create" /\ caller'[k].pc \in Opened \cup {"create"}
              => caller'[k].row # caller[l].row,
         \A r \in Rows :
           \/ Kept(r)
           \/ /\ RowSound(r)' /\ GoesOn(r, k \in Callers /\ caller[k].pc = "create" /\ caller[k].row = r)
              /\ \A l \in Callers \ {k} :
                   caller[l].pc = "create" /\ caller[l].row = r => Untouched(r),
         CleanerSound', BillerSound'
  PROVE  PaidInv'
<1>1. \A r \in Rows : GoesOn(r, k \in Callers /\ caller[k].pc = "create" /\ caller[k].row = r)
  BY DEF Kept, GoesOn
<1>2. \A r \in Rows : RowSound(r)'
  BY DEF PaidInv, Kept, RowSound
<1>3. ASSUME NEW l \in Callers \ {k}
      PROVE  CallerSound(l)'
  <2>1. CallerSound(l) /\ caller'[l] = caller[l]
    BY DEF PaidInv
  <2>2. CASE caller[l].pc = "idle"
    BY <2>1, <2>2 DEF CallerSound
  <2>3. CASE caller[l].pc # "idle"
    <3>1. caller[l] \in Asking
      BY <2>3 DEF PaidInv, PaidTypeOK, AtRest
    <3>2. PICK r \in Rows : r = caller[l].row
      BY <3>1 DEF Asking
    <3>3. /\ effect'[r].state = "none" <=> effect[r].state = "none"
          /\ effect'[r].state = "reserved" => effect[r].state = "reserved"
          /\ effect[r].state = "released" => effect'[r].state = "released"
          /\ room'[r] = "running" =>
               room[r] = "running" \/ (k \in Callers /\ caller[k].pc = "create" /\ caller[k].row = r)
      BY <1>1 DEF GoesOn
    <3>4. caller[l].pc = "create" => Untouched(r)
      BY <3>2 DEF Kept, Untouched
    <3>5. caller[l].pc \in Opened => ~(k \in Callers /\ caller[k].pc = "create" /\ caller[k].row = r)
      BY <3>2 DEF PaidInv, OneOpener
    <3>6. {"uncommitted_reconcile", "reconcile"} \subseteq Opened
      BY DEF Opened
    <3> QED
      BY <2>1, <2>3, <3>2, <3>3, <3>4, <3>5, <3>6 DEF CallerSound, ToBeOpened, Untouched
  <2> QED
    BY <2>2, <2>3
<1>4. OneOpener'
  <2> SUFFICES ASSUME NEW a \in Callers, NEW b \in Callers, a # b, caller'[a].pc = "create",
                      caller'[b].pc \in Opened \cup {"create"}, caller'[a].row = caller'[b].row
               PROVE  FALSE
    BY DEF OneOpener
  <2>1. CASE a # k /\ b # k
    <3>1. caller'[a] = caller[a] /\ caller'[b] = caller[b]
      BY <2>1
    <3> QED
      BY <3>1 DEF PaidInv, OneOpener
  <2>2. CASE a = k \/ b = k
    BY <2>2
  <2> QED
    BY <2>1, <2>2
<1>5. RetriesFollow'
  <2> SUFFICES ASSUME NEW c \in Intentions, effect'[<<c, "retry">>].state # "none"
               PROVE  effect'[<<c, "base">>].state = "released"
    BY DEF RetriesFollow
  <2>1. <<c, "retry">> \in Rows /\ <<c, "base">> \in Rows
    BY DEF Rows
  <2>2. effect[<<c, "retry">>].state # "none"
    BY <1>1, <2>1 DEF GoesOn
  <2>3. effect[<<c, "base">>].state = "released"
    BY <2>2 DEF PaidInv, RetriesFollow
  <2> QED
    BY <1>1, <2>1, <2>3 DEF GoesOn
<1>6. IsFiniteSet(Engaged)' /\ ExposureIsBounded'
  <2>1. \A r \in Rows : \E o \in BOOLEAN : GoesOn(r, o)
    <3> TAKE r \in Rows
    <3>1. GoesOn(r, TRUE)
      BY <1>1 DEF GoesOn
    <3> QED
      BY <3>1
  <2> QED
    BY <2>1, ExposureKept
<1> QED
  BY <1>2, <1>3, <1>4, <1>5, <1>6 DEF PaidInv

(* The jobs keep what they know while rows only go on.                     *)
LEMMA JobsStay ==
  ASSUME PaidInv, UNCHANGED <<cleaner, biller>>, NEW k,
         \A r \in Rows :
           Kept(r) \/ GoesOn(r, k \in Callers /\ caller[k].pc = "create" /\ caller[k].row = r)
  PROVE  CleanerSound' /\ BillerSound'
<1>1. \A r \in Rows :
        /\ effect[r].ref => effect'[r].ref
        /\ activated[r] => activated'[r]
        /\ room'[r] = "running" =>
             room[r] = "running" \/ (k \in Callers /\ caller[k].pc = "create" /\ caller[k].row = r)
  BY DEF Kept, GoesOn
<1>2. CleanerSound'
  <2> SUFFICES ASSUME cleaner.pc = "clean", cleaner.sound
               PROVE  /\ effect'[cleaner.row].ref
                      /\ "end" \notin cleaner.todo => room'[cleaner.row] # "running"
    BY DEF CleanerSound
  <2>1. cleaner.row \in Rows
    BY DEF PaidInv, PaidTypeOK, Cleaning, AtRest
  <2>2. /\ effect[cleaner.row].ref
        /\ "end" \notin cleaner.todo => room[cleaner.row] # "running"
    BY DEF PaidInv, CleanerSound
  <2>3. ~(k \in Callers /\ caller[k].pc = "create" /\ caller[k].row = cleaner.row)
    BY <2>2 DEF PaidInv, CallerSound, ToBeOpened
  <2> QED
    BY <1>1, <2>1, <2>2, <2>3
<1>3. BillerSound'
  <2>1. biller.pc = "send" => biller.row \in Rows
    BY DEF PaidInv, PaidTypeOK, Sending, AtRest
  <2> QED
    BY <1>1, <2>1 DEF PaidInv, BillerSound
<1> QED
  BY <1>2, <1>3

(* A request that goes on with its row, or leaves it.                      *)
LEMMA CallerKeeps ==
  ASSUME PaidInv, PaidTypeOK', NEW k \in Callers, NEW r \in Rows,
         caller[k].pc # "idle", caller[k].row = r,
         \A l \in Callers \ {k} : caller'[l] = caller[l],
         \/ caller'[k] = AtRest
         \/ caller'[k].row = r /\ CallerSound(k)',
         caller[k].pc \in Opened \cup {"create"} \/ effect[r].state = "reserved",
         caller'[k].pc = "create" => effect[r].state = "reserved",
         \A q \in Rows \ {r} : Kept(q),
         Kept(r) \/ (RowSound(r)' /\ GoesOn(r, caller[k].pc = "create")),
         UNCHANGED <<cleaner, biller>>
  PROVE  PaidInv'
<1>1. ASSUME NEW l \in Callers \ {k}, caller[l].pc = "create"
      PROVE  caller[l].row # r
  <2>1. effect[caller[l].row].state # "reserved"
    BY <1>1, CallerFields, RowFields DEF CallerSound, ToBeOpened, RowSound
  <2> QED
    BY <1>1, <2>1 DEF PaidInv, OneOpener
<1>2. ASSUME NEW l \in Callers \ {k}, caller[l].pc \in Opened \cup {"create"},
             caller'[k].pc = "create"
      PROVE  caller[l].row # r
  <2>1. effect[caller[l].row].state # "reserved"
    BY <1>2, CallerFields, RowFields DEF CallerSound, ToBeOpened, RowSound, Opened
  <2> QED
    BY <1>2, <2>1
<1>3. AtRest.pc = "idle" /\ "idle" \notin Opened \cup {"create"}
  BY DEF AtRest, Opened
<1>4. CallerSound(k)'
  BY <1>3 DEF CallerSound
<1>5. \A q \in Rows :
        Kept(q) \/ GoesOn(q, k \in Callers /\ caller[k].pc = "create" /\ caller[k].row = q)
  <2> SUFFICES ASSUME ~Kept(r)
               PROVE  GoesOn(r, k \in Callers /\ caller[k].pc = "create" /\ caller[k].row = r)
    OBVIOUS
  <2> QED
    BY DEF GoesOn
<1>6. CleanerSound' /\ BillerSound'
  BY <1>5, JobsStay
<1>7. \A q \in Rows :
        \/ Kept(q)
        \/ /\ RowSound(q)'
           /\ GoesOn(q, k \in Callers /\ caller[k].pc = "create" /\ caller[k].row = q)
           /\ \A l \in Callers \ {k} :
                caller[l].pc = "create" /\ caller[l].row = q => Untouched(q)
  BY <1>1, <1>5
<1>8. \A l \in Callers \ {k} :
        /\ k \in Callers /\ caller'[k].pc = "create" /\ caller[l].pc \in Opened \cup {"create"}
           => caller'[k].row # caller[l].row
        /\ k \in Callers /\ caller[l].pc = "create" /\ caller'[k].pc \in Opened \cup {"create"}
           => caller'[k].row # caller[l].row
  BY <1>1, <1>2, <1>3
<1> QED
  BY <1>4, <1>6, <1>7, <1>8, StepKeeps

LEMMA GoToMoves ==
  ASSUME PaidInv, NEW k \in Callers, caller[k].pc # "idle",
         NEW pc \in {"retry", "claim", "dispatch", "create"} \cup Opened, GoTo(k, pc)
  PROVE  /\ caller' \in [Callers -> {AtRest} \cup Asking]
         /\ \A l \in Callers \ {k} : caller'[l] = caller[l]
         /\ caller'[k].pc = pc /\ caller'[k].row = caller[k].row
  BY CallerFields DEF GoTo, Asking

LEMMA LeaveMoves ==
  ASSUME PaidInv, NEW k \in Callers, LeaveRequest(k)
  PROVE  /\ caller' \in [Callers -> {AtRest} \cup Asking]
         /\ \A l \in Callers \ {k} : caller'[l] = caller[l]
         /\ caller'[k] = AtRest
  BY DEF LeaveRequest, PaidInv, PaidTypeOK

(* A request that only moves, or leaves, changes no row.                   *)
LEMMA QuietKeeps ==
  ASSUME PaidInv, NEW k \in Callers, caller[k].pc # "idle",
         UNCHANGED <<effect, joined, usage, room, charged, activated, vouched, cleaner, biller>>,
         \/ LeaveRequest(k)
         \/ \E pc \in {"retry", "claim", "dispatch"} \cup Opened :
              /\ GoTo(k, pc) /\ CallerSound(k)'
              /\ caller[k].pc \in Opened \cup {"create"} \/ pc \notin Opened
  PROVE  PaidInv'
<1>1. PICK r \in Rows : r = caller[k].row
  BY CallerFields
<1>2. \A q \in Rows : Kept(q)
  BY DEF Kept
<1>3. CASE LeaveRequest(k)
  <2>1. PaidTypeOK'
    BY <1>3, LeaveMoves DEF PaidInv, PaidTypeOK
  <2>2. caller'[k].pc # "create"
    BY <1>3, LeaveMoves DEF AtRest
  <2>3. CASE caller[k].pc \in Opened \cup {"create"}
    BY <1>1, <1>2, <1>3, <2>1, <2>2, <2>3, LeaveMoves, CallerKeeps
  <2>4. CASE caller[k].pc \notin Opened \cup {"create"}
    <3>1. \A l \in Callers \ {k} : caller'[l] = caller[l]
      BY <1>3, LeaveMoves
    <3>2. caller'[k].pc = "idle" /\ "idle" \notin Opened \cup {"create"}
      BY <1>3, LeaveMoves DEF AtRest, Opened
    <3>3. CallerSound(k)'
      BY <3>2 DEF CallerSound
    <3>4. CleanerSound' /\ BillerSound'
      BY <1>2, JobsStay
    <3> QED
      BY <1>2, <2>1, <3>1, <3>2, <3>3, <3>4, StepKeeps
  <2> QED
    BY <2>3, <2>4
<1>4. ASSUME NEW pc \in {"retry", "claim", "dispatch"} \cup Opened, GoTo(k, pc), CallerSound(k)',
             caller[k].pc \in Opened \cup {"create"} \/ pc \notin Opened
      PROVE  PaidInv'
  <2>1. /\ \A l \in Callers \ {k} : caller'[l] = caller[l]
        /\ caller'[k].pc = pc /\ caller'[k].row = r
        /\ caller' \in [Callers -> {AtRest} \cup Asking]
    BY <1>1, <1>4, GoToMoves
  <2>2. PaidTypeOK'
    BY <2>1 DEF PaidInv, PaidTypeOK
  <2>3. pc # "create"
    BY DEF Opened
  <2>4. CASE caller[k].pc \in Opened \cup {"create"}
    BY <1>1, <1>2, <1>4, <2>1, <2>2, <2>3, <2>4, CallerKeeps
  <2>5. CASE pc \notin Opened
    <3>1. CleanerSound' /\ BillerSound'
      BY <1>2, JobsStay
    <3> QED
      BY <1>2, <1>4, <2>1, <2>2, <2>3, <2>5, <3>1, StepKeeps
  <2> QED
    BY <1>4, <2>4, <2>5
<1> QED
  BY <1>3, <1>4

-------------------------------------------------------------------------------
(* The rooms counted when a row is reserved are the undelivered ones.      *)
LEMMA UndeliveredAreCounted ==
  ASSUME PaidInv
  PROVE  /\ IsFiniteSet(NeverDelivered)
         /\ Cardinality(NeverDelivered) <= Undelivered
         /\ Undelivered \in Nat /\ Cardinality(NeverDelivered) \in Nat
<1>1. \A r \in Rows : RowSound(r) /\ effect[r] \in Effect
  BY DEF PaidInv, PaidTypeOK
<1>2. /\ PendingDelivery \subseteq Engaged /\ NoDelivery \subseteq Engaged
      /\ PendingDelivery \cap NoDelivery = {}
      /\ NeverDelivered \subseteq PendingDelivery \cup NoDelivery
  <2>1. PendingDelivery \subseteq Engaged
    BY DEF PendingDelivery, Engaged
  <2>2. NoDelivery \subseteq Engaged
    BY <1>1 DEF NoDelivery, Engaged, RowSound
  <2>3. PendingDelivery \cap NoDelivery = {}
    BY DEF PendingDelivery, NoDelivery
  <2>4. ASSUME NEW r \in NeverDelivered
        PROVE  r \in PendingDelivery \cup NoDelivery
    <3>1. /\ r \in Rows /\ RowSound(r) /\ effect[r] \in Effect /\ ~activated[r]
          /\ effect[r].dispatched \/ effect[r].state \notin {"none", "released"}
      BY <1>1 DEF NeverDelivered
    <3>2. effect[r].delivery \in {"held", "voided"}
      BY <3>1 DEF RowSound, Effect
    <3>3. effect[r].delivery = "voided" => effect[r].dispatched
      BY <3>1 DEF RowSound
    <3>4. effect[r].state = "none" => ~effect[r].dispatched
      BY <3>1 DEF RowSound
    <3> QED
      BY <3>1, <3>2, <3>3, <3>4 DEF PendingDelivery, NoDelivery
  <2> QED
    BY <2>1, <2>2, <2>3, <2>4
<1>3. IsFiniteSet(Engaged)
  BY DEF PaidInv
<1>4. IsFiniteSet(PendingDelivery) /\ IsFiniteSet(NoDelivery)
  BY <1>2, <1>3, FS_Subset
<1>5. /\ IsFiniteSet(PendingDelivery \cup NoDelivery)
      /\ Cardinality(PendingDelivery \cup NoDelivery) =
           Cardinality(PendingDelivery) + Cardinality(NoDelivery)
  <2>1. Cardinality(PendingDelivery \cap NoDelivery) = 0
    BY <1>2, FS_EmptySet
  <2>2. Cardinality(PendingDelivery) \in Nat /\ Cardinality(NoDelivery) \in Nat
    BY <1>4, FS_CardinalityType
  <2>3. /\ IsFiniteSet(PendingDelivery \cup NoDelivery)
        /\ Cardinality(PendingDelivery \cup NoDelivery) =
             Cardinality(PendingDelivery) + Cardinality(NoDelivery)
               - Cardinality(PendingDelivery \cap NoDelivery)
    BY <1>4, FS_Union
  <2> QED
    BY <2>1, <2>2, <2>3
<1>6. Cardinality(PendingDelivery) \in Nat /\ Cardinality(NoDelivery) \in Nat
  BY <1>4, FS_CardinalityType
<1>7. /\ IsFiniteSet(NeverDelivered)
      /\ Cardinality(NeverDelivered) <= Cardinality(PendingDelivery \cup NoDelivery)
  BY <1>2, <1>5, FS_Subset
<1>8. Cardinality(NeverDelivered) \in Nat
  BY <1>7, FS_CardinalityType
<1> QED
  BY <1>5, <1>6, <1>7, <1>8 DEF Undelivered

(* A new reservation is made within the cap, and for a retry only once the *)
(* first row of the intention was released.                                *)
LEMMA ReserveKeeps ==
  ASSUME PaidInv, NEW k \in Callers, NEW r \in Rows,
         effect[r].state = "none", ~UndeliveredCapReached, SetState(r, "reserved"),
         r[2] = "retry" => effect[<<r[1], "base">>].state = "released",
         caller' = [caller EXCEPT ![k] = [pc |-> "claim", row |-> r, seen |-> "held", sound |-> TRUE]],
         UNCHANGED <<joined, usage, room, charged, activated, vouched, cleaner, biller>>
  PROVE  PaidInv'
<1>1. /\ effect \in [Rows -> Effect] /\ caller \in [Callers -> {AtRest} \cup Asking]
      /\ \A q \in Rows : RowSound(q)
  BY DEF PaidInv, PaidTypeOK
<1>2. /\ effect' = [effect EXCEPT ![r].state = "reserved"]
      /\ \A q \in Rows \ {r} : effect'[q] = effect[q]
      /\ effect'[r].state = "reserved" /\ effect'[r].delivery = effect[r].delivery
      /\ effect'[r].dispatched = effect[r].dispatched /\ effect'[r].ref = effect[r].ref
      /\ effect' \in [Rows -> Effect]
  BY <1>1 DEF SetState, Effect, States
<1>3. /\ caller'[k] = [pc |-> "claim", row |-> r, seen |-> "held", sound |-> TRUE]
      /\ \A l \in Callers \ {k} : caller'[l] = caller[l]
  BY <1>1
<1>4. PaidTypeOK'
  <2>1. caller' \in [Callers -> {AtRest} \cup Asking]
    BY <1>1 DEF Asking
  <2> QED
    BY <1>2, <2>1 DEF PaidInv, PaidTypeOK
<1>5. ASSUME NEW q \in Rows
      PROVE  RowSound(q)'
  <2>1. CASE q = r
    BY <1>1, <1>2, <2>1 DEF RowSound, Barrier
  <2>2. CASE q # r
    BY <1>1, <1>2, <2>2 DEF RowSound
  <2> QED
    BY <2>1, <2>2
<1>6. ASSUME NEW l \in Callers
      PROVE  CallerSound(l)'
  <2>1. CASE l = k
    BY <1>2, <1>3, <2>1 DEF CallerSound, Opened
  <2>2. CASE l # k
    <3>1. CallerSound(l) /\ caller'[l] = caller[l]
      BY <1>3, <2>2 DEF PaidInv
    <3>2. caller[l].pc # "idle" => caller[l].row \in Rows \ {r}
      BY <3>1, CallerFields DEF CallerSound
    <3> QED
      BY <1>2, <3>1, <3>2 DEF CallerSound, ToBeOpened
  <2> QED
    BY <2>1, <2>2
<1>7. OneOpener'
  <2>1. caller'[k].pc \notin Opened \cup {"create"}
    BY <1>3 DEF Opened
  <2> QED
    BY <1>3, <2>1 DEF PaidInv, OneOpener
<1>8. CleanerSound' /\ BillerSound'
  <2>1. cleaner.pc = "clean" => cleaner.row \in Rows
    BY DEF PaidInv, PaidTypeOK, Cleaning, AtRest
  <2>2. CleanerSound'
    BY <1>2, <2>1 DEF PaidInv, CleanerSound
  <2>3. BillerSound'
    BY DEF PaidInv, BillerSound
  <2> QED
    BY <2>2, <2>3
<1>9. RetriesFollow'
  <2> SUFFICES ASSUME NEW c \in Intentions, effect'[<<c, "retry">>].state # "none"
               PROVE  effect'[<<c, "base">>].state = "released"
    BY DEF RetriesFollow
  <2>1. <<c, "retry">> \in Rows /\ <<c, "base">> \in Rows
    BY DEF Rows
  <2>2. effect[<<c, "base">>].state = "released"
    BY <1>2, <2>1 DEF PaidInv, RetriesFollow
  <2> QED
    BY <1>2, <2>1, <2>2
<1>10. IsFiniteSet(Engaged)' /\ ExposureIsBounded'
  <2>1. Engaged' = Engaged \cup {r}
    BY <1>2 DEF Engaged
  <2>2. IsFiniteSet(Engaged')
    BY <2>1, FS_AddElement DEF PaidInv
  <2>3. NeverDelivered' \subseteq NeverDelivered \cup {r}
    BY <1>2 DEF NeverDelivered
  <2>4. /\ IsFiniteSet(NeverDelivered \cup {r})
        /\ Cardinality(NeverDelivered \cup {r}) <= Cardinality(NeverDelivered) + 1
    <3>1. IsFiniteSet(NeverDelivered) /\ Cardinality(NeverDelivered) \in Nat
      BY UndeliveredAreCounted
    <3>2. /\ IsFiniteSet(NeverDelivered \cup {r})
          /\ \/ Cardinality(NeverDelivered \cup {r}) = Cardinality(NeverDelivered)
             \/ Cardinality(NeverDelivered \cup {r}) = Cardinality(NeverDelivered) + 1
      BY <3>1, FS_AddElement
    <3> QED
      BY <3>1, <3>2
  <2>5. /\ IsFiniteSet(NeverDelivered')
        /\ Cardinality(NeverDelivered') <= Cardinality(NeverDelivered \cup {r})
    BY <2>3, <2>4, FS_Subset
  <2>6. Cardinality(NeverDelivered') \in Nat /\ Cardinality(NeverDelivered \cup {r}) \in Nat
    BY <2>4, <2>5, FS_CardinalityType
  <2>7. Undelivered < Cap /\ Cap \in Nat
    BY PaidEffectsAssumption, UndeliveredAreCounted DEF UndeliveredCapReached
  <2>8. Cardinality(NeverDelivered') <= Cap
    BY <2>4, <2>5, <2>6, <2>7, UndeliveredAreCounted
  <2> QED
    BY <2>2, <2>8 DEF ExposureIsBounded
<1> QED
  BY <1>4, <1>5, <1>6, <1>7, <1>8, <1>9, <1>10 DEF PaidInv

LEMMA BeginEffectKeeps ==
  ASSUME PaidInv, NEW k \in Callers, NEW r \in Rows, BeginEffect(k, r),
         r[2] = "retry" => effect[<<r[1], "base">>].state = "released",
         r[2] \in {"base", "retry"},
         UNCHANGED <<joined, usage, room, charged, activated, vouched, cleaner, biller>>
  PROVE  PaidInv'
<1>1. CASE LeaveRequest(k) /\ UNCHANGED effect
  <2>1. \A q \in Rows : Kept(q)
    BY <1>1 DEF Kept
  <2>2. PaidTypeOK'
    BY <1>1, LeaveMoves DEF PaidInv, PaidTypeOK
  <2>3. \A l \in Callers \ {k} : caller'[l] = caller[l]
    BY <1>1, LeaveMoves
  <2>4. caller'[k].pc = "idle" /\ "idle" \notin Opened \cup {"create"}
    BY <1>1, LeaveMoves DEF AtRest, Opened
  <2>5. CallerSound(k)'
    BY <2>4 DEF CallerSound
  <2>6. CleanerSound' /\ BillerSound'
    BY <2>1, JobsStay
  <2> QED
    BY <2>1, <2>2, <2>3, <2>4, <2>5, <2>6, StepKeeps
<1>2. CASE /\ ~Blocked(r) /\ effect[r].state = "none" /\ ~UndeliveredCapReached
           /\ SetState(r, "reserved")
           /\ caller' = [caller EXCEPT ![k] = [pc |-> "claim", row |-> r, seen |-> "held", sound |-> TRUE]]
  BY <1>2, ReserveKeeps
<1>3. CASE /\ effect[r].state # "none" /\ UNCHANGED effect
           /\ caller' = [caller EXCEPT ![k] =
                [pc |-> CASE effect[r].state = "committed" -> "bind"
                          [] effect[r].state = "released" /\ r[2] = "base" -> "retry"
                          [] OTHER -> "claim",
                 row |-> r, seen |-> effect[r].delivery, sound |-> TRUE]]
  <2>1. PICK pc : /\ pc = CASE effect[r].state = "committed" -> "bind"
                            [] effect[r].state = "released" /\ r[2] = "base" -> "retry"
                            [] OTHER -> "claim"
                  /\ pc \in {"bind", "retry", "claim"}
    OBVIOUS
  <2>2. /\ pc = "bind" => effect[r].state = "committed"
        /\ pc = "retry" => effect[r].state = "released" /\ r[2] = "base"
    BY <2>1
  <2>3. /\ caller \in [Callers -> {AtRest} \cup Asking] /\ effect \in [Rows -> Effect]
        /\ caller' = [caller EXCEPT ![k] = [pc |-> pc, row |-> r, seen |-> effect[r].delivery,
                                            sound |-> TRUE]]
    BY <1>3, <2>1 DEF PaidInv, PaidTypeOK
  <2>4. /\ \A l \in Callers \ {k} : caller'[l] = caller[l]
        /\ caller'[k].pc = pc /\ caller'[k].row = r
        /\ caller' \in [Callers -> {AtRest} \cup Asking]
    <3>1. effect[r].delivery \in {"held", "activated", "voided"}
      BY <2>3 DEF Effect
    <3>2. pc \in {"retry", "claim", "dispatch", "create"} \cup Opened
      BY <2>1 DEF Opened
    <3> QED
      BY <2>3, <3>1, <3>2 DEF Asking
  <2>5. PaidTypeOK'
    BY <1>3, <2>4 DEF PaidInv, PaidTypeOK
  <2>6. CallerSound(k)'
    BY <1>3, <2>1, <2>2, <2>4 DEF CallerSound, Opened
  <2>7. \A q \in Rows : Kept(q)
    BY <1>3 DEF Kept
  <2>8. CleanerSound' /\ BillerSound'
    BY <2>7, JobsStay
  <2>9. ASSUME NEW l \in Callers \ {k}, caller[l].pc = "create", pc \in Opened \cup {"create"}
        PROVE  r # caller[l].row
    <3>1. pc = "bind"
      BY <2>1, <2>9 DEF Opened
    <3>2. effect[caller[l].row].state # "committed"
      BY <2>9, CallerFields, RowFields DEF CallerSound, ToBeOpened, RowSound
    <3> QED
      BY <2>2, <3>1, <3>2
  <2>10. pc # "create"
    BY <2>1
  <2> QED
    BY <2>4, <2>5, <2>6, <2>7, <2>8, <2>9, <2>10, StepKeeps
<1> QED
  BY <1>1, <1>2, <1>3 DEF BeginEffect

LEMMA StartVideoConversationKeeps ==
  ASSUME PaidInv, NEW k \in Callers, NEW c \in Intentions, StartVideoConversation(k, c)
  PROVE  PaidInv'
<1>1. Base(c) \in Rows /\ Base(c)[2] = "base"
  BY DEF Base, Rows
<1> QED
  BY <1>1, BeginEffectKeeps DEF StartVideoConversation, jobVars

LEMMA RetryReleasedKeeps ==
  ASSUME PaidInv, NEW k \in Callers, RetryReleased(k)
  PROVE  PaidInv'
<1>1. PICK q \in Rows : q = caller[k].row
  BY CallerFields DEF RetryReleased
<1>2. q[2] = "base" /\ effect[q].state = "released"
  BY <1>1 DEF RetryReleased, PaidInv, CallerSound
<1>3. PICK c \in Intentions : q = <<c, "base">>
  BY <1>2 DEF Rows
<1>4. PICK r \in Rows : r = <<c, "retry">>
  BY DEF Rows
<1>5. BeginEffect(k, r)
  BY <1>1, <1>3, <1>4 DEF RetryReleased
<1>6. r[2] = "retry" /\ effect[<<r[1], "base">>].state = "released"
  BY <1>2, <1>3, <1>4
<1> QED
  BY <1>5, <1>6, BeginEffectKeeps DEF RetryReleased, jobVars

-------------------------------------------------------------------------------
(* What a call of the database or the provider may do to one row (r).      *)
RowsMove(r) ==
  /\ effect' \in [Rows -> Effect]
  /\ joined' \in [Rows -> {"none", "delivered", "never_joined"}]
  /\ usage' \in [Rows -> UsageRow]
  /\ room' \in [Rows -> {"none", "running", "ended"}]
  /\ charged' \in [Rows -> BOOLEAN]
  /\ activated' \in [Rows -> BOOLEAN]
  /\ vouched' \in [Rows -> BOOLEAN]
  /\ \A q \in Rows \ {r} : Kept(q)
  /\ Kept(r) \/ (RowSound(r)' /\ GoesOn(r, FALSE))

LEMMA RowsStay ==
  ASSUME PaidInv, NEW r \in Rows, UNCHANGED <<effect, joined, usage, room, charged, activated, vouched>>
  PROVE  RowsMove(r) /\ \A q \in Rows : Kept(q)
  BY DEF PaidInv, PaidTypeOK, RowsMove, Kept

(* A write of one row's reservation, the rest being as it was.             *)
LEMMA EffectMoves ==
  ASSUME PaidInv, NEW r \in Rows, NEW e \in Effect, effect' = [effect EXCEPT ![r] = e],
         UNCHANGED <<joined, usage, room, charged, activated, vouched>>,
         RowSound(r)', GoesOn(r, FALSE)
  PROVE  RowsMove(r)
<1>1. effect \in [Rows -> Effect]
  BY DEF PaidInv, PaidTypeOK
<1> QED
  BY <1>1 DEF PaidInv, PaidTypeOK, RowsMove, Kept

LEMMA FenceMoves ==
  ASSUME PaidInv, NEW r \in Rows, Fence(r) \/ UNCHANGED effect,
         UNCHANGED <<joined, usage, room, charged, activated, vouched>>
  PROVE  RowsMove(r)
<1>1. effect \in [Rows -> Effect] /\ effect[r] \in Effect /\ RowSound(r)
  BY RowFields
<1>2. CASE UNCHANGED effect
  BY <1>2, RowsStay
<1>3. CASE FenceHolds(r) /\ effect' = [effect EXCEPT ![r].state = "cleanup_pending", ![r].ref = TRUE]
  <2>1. PICK e \in Effect : e = [effect[r] EXCEPT !.state = "cleanup_pending", !.ref = TRUE]
    BY <1>1 DEF Effect, States, Barrier
  <2>2. /\ effect' = [effect EXCEPT ![r] = e] /\ effect'[r] = e
        /\ e.state = "cleanup_pending" /\ e.ref /\ e.delivery = effect[r].delivery
        /\ e.dispatched = effect[r].dispatched
    BY <1>1, <1>3, <2>1 DEF Effect
  <2>3. RowSound(r)'
    BY <1>1, <1>3, <2>2 DEF RowSound, FenceHolds, Barrier
  <2>4. GoesOn(r, FALSE)
    BY <1>1, <1>3, <2>2 DEF GoesOn, FenceHolds, Barrier
  <2> QED
    BY <2>2, <2>3, <2>4, EffectMoves
<1> QED
  BY <1>2, <1>3 DEF Fence

LEMMA VoidMoves ==
  ASSUME PaidInv, NEW r \in Rows, Void(r) \/ UNCHANGED <<effect, usage>>,
         UNCHANGED <<joined, room, charged, activated, vouched>>
  PROVE  RowsMove(r) /\ \A q \in Rows : effect'[q].ref = effect[q].ref
<1>1. effect \in [Rows -> Effect] /\ effect[r] \in Effect /\ RowSound(r)
      /\ usage \in [Rows -> UsageRow] /\ usage[r] \in UsageRow
  BY RowFields
<1>2. CASE UNCHANGED <<effect, usage>>
  BY <1>2, RowsStay
<1>3. CASE /\ VoidHolds(r) /\ effect' = [effect EXCEPT ![r].delivery = "voided"]
           /\ usage' = [usage EXCEPT ![r].status = IF @ = "none" THEN @ ELSE "voided"]
  <2>1. /\ effect' \in [Rows -> Effect] /\ \A q \in Rows \ {r} : effect'[q] = effect[q]
        /\ effect'[r].state = effect[r].state /\ effect'[r].ref = effect[r].ref
        /\ effect'[r].dispatched = effect[r].dispatched /\ effect'[r].delivery = "voided"
    BY <1>1, <1>3 DEF Effect
  <2>2. /\ usage' \in [Rows -> UsageRow] /\ \A q \in Rows \ {r} : usage'[q] = usage[q]
        /\ usage'[r].status # "none" => usage[r].status # "none"
    BY <1>1, <1>3 DEF UsageRow
  <2>3. effect[r].state \notin {"none", "reserved"} /\ effect[r].dispatched
    BY <1>1, <1>3 DEF RowSound, VoidHolds, Barrier
  <2>4. RowSound(r)'
    BY <1>1, <2>1, <2>2, <2>3 DEF RowSound
  <2>5. GoesOn(r, FALSE)
    BY <2>1 DEF GoesOn
  <2>6. \A q \in Rows \ {r} : Kept(q)
    BY <2>1, <2>2 DEF Kept
  <2> QED
    BY <2>1, <2>2, <2>4, <2>5, <2>6, RowFields DEF RowsMove
<1> QED
  BY <1>2, <1>3 DEF Void

LEMMA ReconcileMoves ==
  ASSUME PaidInv, NEW r \in Rows, Reconcile(r) \/ UNCHANGED <<effect, cleanup>>,
         room[r] # "running", UNCHANGED <<joined, usage, room, charged, activated, vouched>>
  PROVE  RowsMove(r)
<1>1. effect \in [Rows -> Effect] /\ effect[r] \in Effect /\ RowSound(r)
  BY RowFields
<1>2. CASE UNCHANGED effect
  BY <1>2, RowsStay
<1>3. CASE effect[r].state \in Barrier /\ SetState(r, "released")
  <2>1. PICK e \in Effect : e = [effect[r] EXCEPT !.state = "released"]
    BY <1>1 DEF Effect, States
  <2>2. /\ effect' = [effect EXCEPT ![r] = e] /\ effect'[r] = e
        /\ e.state = "released" /\ e.ref = effect[r].ref /\ e.delivery = effect[r].delivery
        /\ e.dispatched = effect[r].dispatched
    BY <1>1, <1>3, <2>1 DEF Effect, SetState
  <2>3. RowSound(r)'
    BY <1>1, <1>3, <2>2 DEF RowSound, Barrier
  <2>4. GoesOn(r, FALSE)
    BY <1>1, <1>3, <2>2 DEF GoesOn, Barrier
  <2> QED
    BY <2>2, <2>3, <2>4, EffectMoves
<1> QED
  BY <1>2, <1>3 DEF Reconcile

LEMMA EndRoomMoves ==
  ASSUME PaidInv, NEW r \in Rows, EndRoom(r) \/ UNCHANGED room,
         UNCHANGED <<effect, joined, usage, charged, activated, vouched>>
  PROVE  /\ RowsMove(r)
         /\ EndRoom(r) => room'[r] # "running"
         /\ \A q \in Rows : room[q] # "running" => room'[q] # "running"
<1>1. RowSound(r) /\ room \in [Rows -> {"none", "running", "ended"}]
  BY RowFields
<1>2. CASE UNCHANGED room
  BY <1>1, <1>2, RowsStay DEF EndRoom
<1>3. CASE EndRoom(r)
  <2>1. /\ room' \in [Rows -> {"none", "running", "ended"}]
        /\ \A q \in Rows \ {r} : room'[q] = room[q]
        /\ room'[r] = IF room[r] = "running" THEN "ended" ELSE room[r]
    BY <1>1, <1>3 DEF EndRoom
  <2>2. RowSound(r)'
    BY <1>1, <2>1 DEF RowSound
  <2>3. GoesOn(r, FALSE)
    BY <2>1 DEF GoesOn
  <2>4. \A q \in Rows \ {r} : Kept(q)
    BY <2>1 DEF Kept
  <2> QED
    BY <2>1, <2>2, <2>3, <2>4, RowFields DEF RowsMove
<1> QED
  BY <1>2, <1>3

(* A request past the opening of its room, whose call moved its row.       *)
LEMMA OpenedKeeps ==
  ASSUME PaidInv, NEW k \in Callers, caller[k].pc \in Opened, NEW r \in Rows,
         r = caller[k].row, RowsMove(r), UNCHANGED <<cleaner, biller>>,
         \A l \in Callers \ {k} : caller'[l] = caller[l],
         caller' \in [Callers -> {AtRest} \cup Asking],
         \/ caller'[k] = AtRest
         \/ /\ caller'[k].pc \in Opened /\ caller'[k].row = r
            /\ caller'[k].pc \in {"uncommitted_reconcile", "reconcile"} => room'[r] # "running"
  PROVE  PaidInv'
<1>1. caller[k].pc # "idle" /\ "create" \notin Opened
  BY DEF Opened
<1>2. CallerSound(k) /\ effect[r].state \notin {"none", "reserved"}
  BY <1>1 DEF PaidInv, CallerSound
<1>3. effect'[r].state \notin {"none", "reserved"}
  BY <1>2 DEF RowsMove, Kept, GoesOn
<1>4. caller'[k].pc # "create"
  BY <1>1 DEF AtRest
<1>5. caller'[k] = AtRest \/ (caller'[k].row = r /\ CallerSound(k)')
  <2> SUFFICES ASSUME caller'[k].pc \in Opened, caller'[k].row = r,
                      caller'[k].pc \in {"uncommitted_reconcile", "reconcile"} => room'[r] # "running"
               PROVE  CallerSound(k)'
    OBVIOUS
  <2>1. "retry" \notin Opened
    BY DEF Opened
  <2> QED
    BY <1>3, <1>4, <2>1 DEF CallerSound
<1>6. PaidTypeOK'
  BY DEF PaidInv, PaidTypeOK, RowsMove
<1>7. Kept(r) \/ (RowSound(r)' /\ GoesOn(r, caller[k].pc = "create"))
  BY DEF RowsMove, GoesOn
<1>8. \A q \in Rows \ {r} : Kept(q)
  BY DEF RowsMove
<1> QED
  BY <1>1, <1>4, <1>5, <1>6, <1>7, <1>8, CallerKeeps

-------------------------------------------------------------------------------
LEMMA ClaimDispatchKeeps ==
  ASSUME PaidInv, NEW k \in Callers, ClaimDispatch(k)
  PROVE  PaidInv'
<1>1. /\ caller[k].pc = "claim"
      /\ UNCHANGED <<joined, usage, room, charged, activated, vouched, cleaner, biller>>
  BY DEF ClaimDispatch, jobVars
<1>2. PICK r \in Rows : r = caller[k].row
  BY <1>1, CallerFields
<1>3. CallerSound(k) /\ effect[r].state # "none" /\ RowSound(r)
      /\ effect \in [Rows -> Effect] /\ effect[r] \in Effect
  BY <1>1, <1>2, CallerFields DEF CallerSound
<1>4. CASE GoTo(k, "dispatch") /\ UNCHANGED effect
  <2>1. caller'[k].pc = "dispatch" /\ caller'[k].row = r
    BY <1>1, <1>2, <1>4, GoToMoves
  <2>2. CallerSound(k)' /\ "dispatch" \notin Opened
    BY <1>2, <1>3, <1>4, <2>1 DEF CallerSound, Opened
  <2> QED
    BY <1>1, <1>4, <2>2, QuietKeeps
<1>5. CASE LeaveRequest(k) /\ UNCHANGED effect
  BY <1>1, <1>5, QuietKeeps
<1>6. CASE LeaveRequest(k) /\ effect[r].state = "reserved" /\ SetState(r, "released")
  <2>1. PICK e \in Effect : e = [effect[r] EXCEPT !.state = "released"]
    BY <1>3 DEF Effect, States
  <2>2. /\ effect' = [effect EXCEPT ![r] = e] /\ effect'[r] = e
        /\ e.state = "released" /\ e.ref = effect[r].ref /\ e.delivery = effect[r].delivery
        /\ e.dispatched = effect[r].dispatched
    BY <1>3, <1>6, <2>1 DEF Effect, SetState
  <2>3. RowSound(r)'
    BY <1>1, <1>3, <1>6, <2>2 DEF RowSound, Barrier
  <2>4. GoesOn(r, FALSE)
    BY <1>1, <1>6, <2>2 DEF GoesOn
  <2>5. RowsMove(r)
    BY <1>1, <2>2, <2>3, <2>4, EffectMoves
  <2>6. PaidTypeOK'
    BY <1>1, <1>6, <2>5, LeaveMoves DEF PaidInv, PaidTypeOK, RowsMove
  <2>7. /\ caller'[k] = AtRest /\ \A l \in Callers \ {k} : caller'[l] = caller[l]
        /\ caller'[k].pc # "create"
    BY <1>6, LeaveMoves DEF AtRest
  <2>8. GoesOn(r, caller[k].pc = "create") /\ \A q \in Rows \ {r} : Kept(q)
    BY <2>4, <2>5 DEF GoesOn, RowsMove
  <2> QED
    BY <1>1, <1>2, <1>6, <2>3, <2>6, <2>7, <2>8, CallerKeeps
<1> QED
  BY <1>2, <1>4, <1>5, <1>6 DEF ClaimDispatch

LEMMA BindWebhookCapabilityKeeps ==
  ASSUME PaidInv, NEW k \in Callers, BindWebhookCapability(k)
  PROVE  PaidInv'
<1>1. /\ caller[k].pc = "dispatch"
      /\ UNCHANGED <<joined, usage, room, charged, activated, vouched, cleaner, biller>>
  BY DEF BindWebhookCapability, jobVars
<1>2. PICK r \in Rows : r = caller[k].row
  BY <1>1, CallerFields
<1>3. RowSound(r) /\ effect \in [Rows -> Effect] /\ effect[r] \in Effect
  BY RowFields
<1>4. CASE LeaveRequest(k) /\ UNCHANGED effect
  BY <1>1, <1>4, QuietKeeps
<1>5. CASE /\ effect[r].state = "reserved" /\ GoTo(k, "create")
           /\ effect' = [effect EXCEPT ![r].state = "provider_in_flight", ![r].dispatched = TRUE]
  <2>1. PICK e \in Effect : e = [effect[r] EXCEPT !.state = "provider_in_flight", !.dispatched = TRUE]
    BY <1>3 DEF Effect, States, Barrier
  <2>2. /\ effect' = [effect EXCEPT ![r] = e] /\ effect'[r] = e
        /\ e.state = "provider_in_flight" /\ e.ref = effect[r].ref
        /\ e.delivery = effect[r].delivery /\ e.dispatched
    BY <1>3, <1>5, <2>1 DEF Effect
  <2>3. RowSound(r)'
    BY <1>1, <1>3, <1>5, <2>2 DEF RowSound
  <2>4. GoesOn(r, FALSE)
    BY <1>1, <1>5, <2>2 DEF GoesOn
  <2>5. RowsMove(r)
    BY <1>1, <2>2, <2>3, <2>4, EffectMoves
  <2>6. /\ caller'[k].pc = "create" /\ caller'[k].row = r
        /\ \A l \in Callers \ {k} : caller'[l] = caller[l]
        /\ caller' \in [Callers -> {AtRest} \cup Asking]
    BY <1>1, <1>2, <1>5, GoToMoves
  <2>7. PaidTypeOK'
    BY <1>1, <2>5, <2>6 DEF PaidInv, PaidTypeOK, RowsMove
  <2>8. CallerSound(k)'
    BY <1>1, <1>3, <1>5, <2>2, <2>6 DEF CallerSound, ToBeOpened, RowSound, Opened
  <2>9. GoesOn(r, caller[k].pc = "create") /\ \A q \in Rows \ {r} : Kept(q)
    BY <2>4, <2>5 DEF GoesOn, RowsMove
  <2> QED
    BY <1>1, <1>2, <1>5, <2>3, <2>6, <2>7, <2>8, <2>9, CallerKeeps
<1> QED
  BY <1>2, <1>4, <1>5 DEF BindWebhookCapability

(* The only step that starts a room.                                       *)
LEMMA CreateConversationKeeps ==
  ASSUME PaidInv, NEW k \in Callers, CreateConversation(k)
  PROVE  PaidInv'
<1>1. /\ caller[k].pc = "create"
      /\ UNCHANGED <<effect, joined, usage, charged, activated, vouched, cleaner, biller>>
  BY DEF CreateConversation, jobVars
<1>2. PICK r \in Rows : r = caller[k].row
  BY <1>1, CallerFields
<1>3. /\ RowSound(r) /\ room \in [Rows -> {"none", "running", "ended"}]
      /\ effect[r].state = "provider_in_flight" \/ (vouched[r] /\ effect[r].state = "released")
      /\ room[r] = "none"
  BY <1>1, <1>2, RowFields, CallerFields DEF CallerSound, ToBeOpened, RowSound
<1>4. PICK pc \in {"commit", "give_up"} :
         GoTo(k, pc) /\ (UNCHANGED room \/ room' = [room EXCEPT ![r] = "running"])
  BY <1>2 DEF CreateConversation
<1>5. pc \in Opened
  BY DEF Opened
<1>6. /\ caller'[k].pc = pc /\ caller'[k].row = r
      /\ \A l \in Callers \ {k} : caller'[l] = caller[l]
      /\ caller' \in [Callers -> {AtRest} \cup Asking]
  BY <1>1, <1>2, <1>4, <1>5, GoToMoves
<1>7. /\ room' \in [Rows -> {"none", "running", "ended"}]
      /\ \A q \in Rows \ {r} : Kept(q)
      /\ room'[r] \in {"none", "running"}
  BY <1>1, <1>3, <1>4 DEF Kept
<1>8. PaidTypeOK'
  BY <1>1, <1>6, <1>7 DEF PaidInv, PaidTypeOK
<1>9. CallerSound(k)'
  BY <1>1, <1>3, <1>6 DEF CallerSound, Opened
<1>10. RowSound(r)'
  BY <1>1, <1>3, <1>7 DEF RowSound
<1>11. GoesOn(r, caller[k].pc = "create")
  BY <1>1, <1>7 DEF GoesOn
<1>12. caller'[k].pc # "create"
  BY <1>6
<1> QED
  BY <1>1, <1>2, <1>6, <1>7, <1>8, <1>9, <1>10, <1>11, <1>12, CallerKeeps

LEMMA CommitEffectKeeps ==
  ASSUME PaidInv, NEW k \in Callers, CommitEffect(k)
  PROVE  PaidInv'
<1>1. /\ caller[k].pc = "commit" /\ caller[k].pc \in Opened
      /\ UNCHANGED <<joined, usage, room, charged, activated, vouched, cleaner, biller>>
  BY DEF CommitEffect, jobVars, Opened
<1>2. PICK r \in Rows : r = caller[k].row
  BY <1>1, CallerFields
<1>3. RowSound(r) /\ effect \in [Rows -> Effect] /\ effect[r] \in Effect
  BY RowFields
<1>4. PICK pc \in {"bind", "uncommitted_fence"} :
         /\ GoTo(k, pc)
         /\ \/ UNCHANGED effect
            \/ /\ effect[r].state = "provider_in_flight"
               /\ effect' = [effect EXCEPT ![r].state = "committed", ![r].ref = TRUE]
  BY <1>2 DEF CommitEffect
<1>5. /\ caller'[k].pc = pc /\ caller'[k].row = r /\ pc \in Opened
      /\ \A l \in Callers \ {k} : caller'[l] = caller[l]
      /\ caller' \in [Callers -> {AtRest} \cup Asking]
  BY <1>1, <1>2, <1>4, GoToMoves DEF Opened
<1>6. RowsMove(r)
  <2>1. CASE UNCHANGED effect
    BY <1>1, <2>1, RowsStay
  <2>2. CASE /\ effect[r].state = "provider_in_flight"
             /\ effect' = [effect EXCEPT ![r].state = "committed", ![r].ref = TRUE]
    <3>1. PICK e \in Effect : e = [effect[r] EXCEPT !.state = "committed", !.ref = TRUE]
      BY <1>3 DEF Effect, States
    <3>2. /\ effect' = [effect EXCEPT ![r] = e] /\ effect'[r] = e
          /\ e.state = "committed" /\ e.ref
          /\ e.delivery = effect[r].delivery /\ e.dispatched = effect[r].dispatched
      BY <1>3, <2>2, <3>1 DEF Effect
    <3>3. RowSound(r)'
      BY <1>1, <1>3, <2>2, <3>2 DEF RowSound, Barrier
    <3>4. GoesOn(r, FALSE)
      BY <1>1, <2>2, <3>2 DEF GoesOn
    <3> QED
      BY <1>1, <3>2, <3>3, <3>4, EffectMoves
  <2> QED
    BY <1>4, <2>1, <2>2
<1>7. pc \notin {"uncommitted_reconcile", "reconcile"}
  OBVIOUS
<1> QED
  BY <1>1, <1>2, <1>5, <1>6, <1>7, OpenedKeeps

LEMMA CompensateUncommittedKeeps ==
  ASSUME PaidInv, NEW k \in Callers, CompensateUncommitted(k)
  PROVE  PaidInv'
<1>1. /\ caller[k].pc \in {"uncommitted_fence", "uncommitted_end", "uncommitted_reconcile"}
      /\ caller[k].pc \in Opened /\ caller[k].pc # "idle"
      /\ UNCHANGED <<joined, usage, charged, activated, vouched, cleaner, biller>>
  BY DEF CompensateUncommitted, jobVars, Opened
<1>2. PICK r \in Rows : r = caller[k].row
  BY <1>1, CallerFields
<1>3. ASSUME NEW pc \in Opened, GoTo(k, pc)
      PROVE  /\ caller'[k].pc = pc /\ caller'[k].row = r
             /\ \A l \in Callers \ {k} : caller'[l] = caller[l]
             /\ caller' \in [Callers -> {AtRest} \cup Asking]
  BY <1>1, <1>2, <1>3, GoToMoves
<1>4. {"uncommitted_end", "uncommitted_reconcile", "give_up"} \subseteq Opened
  BY DEF Opened
<1>5. CASE /\ caller[k].pc = "uncommitted_fence" /\ (Fence(r) \/ UNCHANGED effect)
           /\ GoTo(k, "uncommitted_end") /\ UNCHANGED room
  <2>1. RowsMove(r)
    BY <1>1, <1>5, FenceMoves
  <2> QED
    BY <1>1, <1>2, <1>3, <1>4, <1>5, <2>1, OpenedKeeps
<1>6. CASE /\ caller[k].pc = "uncommitted_end" /\ EndRoom(r)
           /\ GoTo(k, "uncommitted_reconcile") /\ UNCHANGED effect
  <2>1. RowsMove(r) /\ room'[r] # "running"
    BY <1>1, <1>6, EndRoomMoves
  <2> QED
    BY <1>1, <1>2, <1>3, <1>4, <1>6, <2>1, OpenedKeeps
<1>7. CASE /\ caller[k].pc = "uncommitted_end" /\ GoTo(k, "give_up") /\ UNCHANGED <<effect, room>>
  <2>1. RowsMove(r)
    BY <1>1, <1>7, RowsStay
  <2> QED
    BY <1>1, <1>2, <1>3, <1>4, <1>7, <2>1, OpenedKeeps
<1>8. CASE /\ caller[k].pc = "uncommitted_reconcile" /\ (Reconcile(r) \/ UNCHANGED <<effect, cleanup>>)
           /\ GoTo(k, "give_up") /\ UNCHANGED room
  <2>1. room[r] # "running"
    BY <1>2, <1>8 DEF PaidInv, CallerSound
  <2>2. RowsMove(r)
    BY <1>1, <1>8, <2>1, ReconcileMoves
  <2> QED
    BY <1>1, <1>2, <1>3, <1>4, <1>8, <2>2, OpenedKeeps
<1> QED
  BY <1>2, <1>5, <1>6, <1>7, <1>8 DEF CompensateUncommitted

LEMMA FenceProviderFailureKeeps ==
  ASSUME PaidInv, NEW k \in Callers, FenceProviderFailure(k)
  PROVE  PaidInv'
<1>1. /\ caller[k].pc = "give_up" /\ caller[k].pc \in Opened /\ LeaveRequest(k)
      /\ UNCHANGED <<joined, usage, room, charged, activated, vouched, cleaner, biller>>
  BY DEF FenceProviderFailure, jobVars, Opened
<1>2. PICK r \in Rows : r = caller[k].row
  BY <1>1, CallerFields
<1>3. RowSound(r) /\ effect \in [Rows -> Effect] /\ effect[r] \in Effect
  BY RowFields
<1>4. RowsMove(r)
  <2>1. CASE UNCHANGED effect
    BY <1>1, <2>1, RowsStay
  <2>2. CASE effect[r].state = "provider_in_flight" /\ SetState(r, "unknown")
    <3>1. PICK e \in Effect : e = [effect[r] EXCEPT !.state = "unknown"]
      BY <1>3 DEF Effect, States, Barrier
    <3>2. /\ effect' = [effect EXCEPT ![r] = e] /\ effect'[r] = e
          /\ e.state = "unknown" /\ e.ref = effect[r].ref
          /\ e.delivery = effect[r].delivery /\ e.dispatched = effect[r].dispatched
      BY <1>3, <2>2, <3>1 DEF Effect, SetState
    <3>3. RowSound(r)'
      BY <1>1, <1>3, <2>2, <3>2 DEF RowSound, Barrier
    <3>4. GoesOn(r, FALSE)
      BY <1>1, <2>2, <3>2 DEF GoesOn
    <3> QED
      BY <1>1, <3>2, <3>3, <3>4, EffectMoves
  <2> QED
    BY <1>2, <2>1, <2>2 DEF FenceProviderFailure
<1> QED
  BY <1>1, <1>2, <1>4, LeaveMoves, OpenedKeeps

LEMMA BindChannelKeeps ==
  ASSUME PaidInv, NEW k \in Callers, BindChannel(k)
  PROVE  PaidInv'
<1>1. /\ caller[k].pc = "bind" /\ caller[k].pc \in Opened /\ {"transcript", "fence"} \subseteq Opened
      /\ UNCHANGED <<effect, joined, usage, room, charged, activated, vouched, cleaner, biller>>
  BY DEF BindChannel, jobVars, Opened
<1>2. PICK r \in Rows : r = caller[k].row
  BY <1>1, CallerFields
<1>3. RowsMove(r)
  BY <1>1, RowsStay
<1>4. CASE LeaveRequest(k)
  BY <1>1, <1>2, <1>3, <1>4, LeaveMoves, OpenedKeeps
<1>5. CASE \E pc \in {"transcript", "fence"} : GoTo(k, pc)
  BY <1>1, <1>2, <1>3, <1>5, GoToMoves, OpenedKeeps
<1> QED
  BY <1>4, <1>5 DEF BindChannel

LEMMA RegisterTranscriptKeeps ==
  ASSUME PaidInv, NEW k \in Callers, RegisterTranscript(k)
  PROVE  PaidInv'
<1>1. /\ caller[k].pc = "transcript" /\ caller[k].pc \in Opened /\ "fence" \in Opened
      /\ UNCHANGED <<effect, joined, usage, room, charged, activated, vouched, cleaner, biller>>
  BY DEF RegisterTranscript, jobVars, Opened
<1>2. PICK r \in Rows : r = caller[k].row
  BY <1>1, CallerFields
<1>3. RowsMove(r)
  BY <1>1, RowsStay
<1>4. CASE LeaveRequest(k)
  BY <1>1, <1>2, <1>3, <1>4, LeaveMoves, OpenedKeeps
<1>5. CASE GoTo(k, "fence")
  BY <1>1, <1>2, <1>3, <1>5, GoToMoves, OpenedKeeps
<1> QED
  BY <1>4, <1>5 DEF RegisterTranscript

(* The compensation goes on whatever its calls answered.                   *)
LEMMA ThenMoves ==
  ASSUME PaidInv, NEW k \in Callers, caller[k].pc # "idle", NEW pc \in Opened,
         NEW holds \in BOOLEAN, Then(k, pc, holds)
  PROVE  /\ caller' \in [Callers -> {AtRest} \cup Asking]
         /\ \A l \in Callers \ {k} : caller'[l] = caller[l]
         /\ caller'[k].pc = pc /\ caller'[k].row = caller[k].row
<1>1. caller[k] \in Asking /\ caller \in [Callers -> {AtRest} \cup Asking]
  BY CallerFields
<1>2. PICK sound \in BOOLEAN : sound = (caller[k].sound /\ holds)
  OBVIOUS
<1>3. caller' = [caller EXCEPT ![k].pc = pc, ![k].sound = sound]
  BY <1>2 DEF Then
<1> QED
  BY <1>1, <1>3 DEF Asking

LEMMA CompensateUndeliveredKeeps ==
  ASSUME PaidInv, NEW k \in Callers, CompensateUndelivered(k)
  PROVE  PaidInv'
<1>1. /\ caller[k].pc \in {"fence", "void", "end", "reconcile"}
      /\ caller[k].pc \in Opened /\ caller[k].pc # "idle"
      /\ UNCHANGED <<joined, charged, activated, vouched, cleaner, biller>>
  BY DEF CompensateUndelivered, jobVars, Opened
<1>2. PICK r \in Rows : r = caller[k].row
  BY <1>1, CallerFields
<1>3. {"void", "end", "reconcile"} \subseteq Opened /\ FenceHolds(r) \in BOOLEAN
      /\ VoidHolds(r) \in BOOLEAN /\ FALSE \in BOOLEAN
  BY DEF Opened, FenceHolds, VoidHolds
<1>4. CASE /\ caller[k].pc = "fence" /\ UNCHANGED <<usage, room>>
           /\ \/ Fence(r) /\ Then(k, "void", FenceHolds(r))
              \/ UNCHANGED effect /\ Then(k, "void", FALSE)
  <2>1. RowsMove(r)
    BY <1>1, <1>4, FenceMoves
  <2>2. /\ caller' \in [Callers -> {AtRest} \cup Asking]
        /\ \A l \in Callers \ {k} : caller'[l] = caller[l]
        /\ caller'[k].pc = "void" /\ caller'[k].row = r
    BY ZenonT(60), <1>1, <1>2, <1>3, <1>4, ThenMoves
  <2> QED
    BY <1>1, <1>2, <1>3, <2>1, <2>2, OpenedKeeps
<1>5. CASE /\ caller[k].pc = "void" /\ UNCHANGED room
           /\ \/ Void(r) /\ Then(k, "end", VoidHolds(r))
              \/ UNCHANGED <<effect, usage>> /\ Then(k, "end", FALSE)
  <2>1. RowsMove(r)
    BY <1>1, <1>5, VoidMoves
  <2>2. /\ caller' \in [Callers -> {AtRest} \cup Asking]
        /\ \A l \in Callers \ {k} : caller'[l] = caller[l]
        /\ caller'[k].pc = "end" /\ caller'[k].row = r
    BY ZenonT(60), <1>1, <1>2, <1>3, <1>5, ThenMoves
  <2> QED
    BY <1>1, <1>2, <1>3, <2>1, <2>2, OpenedKeeps
<1>6. CASE /\ caller[k].pc = "end" /\ EndRoom(r) /\ UNCHANGED <<effect, usage>>
           /\ GoTo(k, "reconcile")
  <2>1. RowsMove(r) /\ room'[r] # "running"
    BY <1>1, <1>6, EndRoomMoves
  <2> QED
    BY <1>1, <1>2, <1>3, <1>6, <2>1, GoToMoves, OpenedKeeps
<1>7. CASE /\ caller[k].pc = "end" /\ (EndRoom(r) \/ UNCHANGED room) /\ UNCHANGED <<effect, usage>>
           /\ LeaveRequest(k)
  <2>1. RowsMove(r)
    BY <1>1, <1>7, EndRoomMoves
  <2> QED
    BY <1>1, <1>2, <1>7, <2>1, LeaveMoves, OpenedKeeps
<1>8. CASE /\ caller[k].pc = "reconcile" /\ Reconcile(r) /\ LeaveRequest(k)
           /\ UNCHANGED <<usage, room>>
  <2>1. room[r] # "running"
    BY <1>2, <1>8 DEF PaidInv, CallerSound
  <2>2. RowsMove(r)
    BY <1>1, <1>8, <2>1, ReconcileMoves
  <2> QED
    BY <1>1, <1>2, <1>8, <2>2, LeaveMoves, OpenedKeeps
<1> QED
  BY <1>2, <1>4, <1>5, <1>6, <1>7, <1>8 DEF CompensateUndelivered

LEMMA CallerLostKeeps ==
  ASSUME PaidInv, NEW k \in Callers, CallerLost(k)
  PROVE  PaidInv'
  BY QuietKeeps DEF CallerLost, jobVars

-------------------------------------------------------------------------------
(* A step of the provider, a webhook, a job or an operator on one row.     *)
LEMMA RowKeeps ==
  ASSUME PaidInv, NEW r \in Rows, RowsMove(r), UNCHANGED caller,
         ToBeOpened(r) => Untouched(r),
         cleaner' \in {AtRest} \cup Cleaning, biller' \in {AtRest} \cup Sending,
         CleanerSound', BillerSound'
  PROVE  PaidInv'
<1>1. PICK k : k \notin Callers
  BY NoSetContainsEverything
<1>2. PaidTypeOK'
  BY DEF PaidInv, PaidTypeOK, RowsMove
<1>3. \A l \in Callers : caller[l].pc = "create" /\ caller[l].row = r => Untouched(r)
  BY DEF PaidInv, CallerSound
<1>4. GoesOn(r, FALSE) => GoesOn(r, k \in Callers /\ caller[k].pc = "create" /\ caller[k].row = r)
  BY <1>1
<1>5. \A q \in Rows :
        \/ Kept(q)
        \/ /\ RowSound(q)'
           /\ GoesOn(q, k \in Callers /\ caller[k].pc = "create" /\ caller[k].row = q)
           /\ \A l \in Callers \ {k} :
                caller[l].pc = "create" /\ caller[l].row = q => Untouched(q)
  BY <1>3, <1>4 DEF RowsMove
<1> QED
  BY <1>1, <1>2, <1>5, StepKeeps

(* The same, of a step that neither the cleanup nor the usage job makes.   *)
LEMMA RowKeepsJobs ==
  ASSUME PaidInv, NEW r \in Rows, RowsMove(r), UNCHANGED <<caller, cleaner, biller>>,
         ToBeOpened(r) => Untouched(r)
  PROVE  PaidInv'
<1>1. PICK k : k \notin Callers
  BY NoSetContainsEverything
<1>2. \A q \in Rows :
        Kept(q) \/ GoesOn(q, k \in Callers /\ caller[k].pc = "create" /\ caller[k].row = q)
  BY DEF RowsMove, GoesOn
<1>3. CleanerSound' /\ BillerSound'
  BY <1>2, JobsStay
<1> QED
  BY <1>3, RowKeeps DEF PaidInv, PaidTypeOK

LEMMA RoomEndsKeeps ==
  ASSUME PaidInv, NEW r \in Rows, RoomEnds(r)
  PROVE  PaidInv'
<1>1. RowsMove(r) /\ room[r] = "running"
  BY EndRoomMoves DEF RoomEnds
<1> QED
  BY <1>1, RowKeepsJobs DEF RoomEnds, ToBeOpened, requestVars, jobVars

LEMMA RecordDeliveryKeeps ==
  ASSUME PaidInv, NEW r \in Rows, RecordDelivery(r)
  PROVE  PaidInv'
<1>1. /\ room[r] = "ended" /\ joined[r] = "none"
      /\ joined' = [joined EXCEPT ![r] = "delivered"]
      /\ UNCHANGED <<effect, usage, room, charged, activated, vouched, caller, cleaner, biller>>
  BY DEF RecordDelivery, requestVars, jobVars
<1>2. /\ joined' \in [Rows -> {"none", "delivered", "never_joined"}]
      /\ joined'[r] = "delivered" /\ \A q \in Rows \ {r} : Kept(q)
  BY <1>1, RowFields DEF Kept
<1>3. RowSound(r)'
  BY <1>1, <1>2, RowFields DEF RowSound
<1>4. RowsMove(r)
  BY <1>1, <1>2, <1>3, RowFields DEF RowsMove, GoesOn
<1> QED
  BY <1>1, <1>4, RowKeepsJobs DEF ToBeOpened

LEMMA RecordNoDeliveryKeeps ==
  ASSUME PaidInv, NEW r \in Rows, RecordNoDelivery(r)
  PROVE  PaidInv'
<1>1. /\ room[r] = "ended" /\ joined[r] = "none"
      /\ effect[r].state \in {"committed", "completed"}
      /\ joined' = [joined EXCEPT ![r] = "never_joined"]
      /\ effect' = [effect EXCEPT ![r].delivery = "voided"]
      /\ usage' = [usage EXCEPT ![r].status = IF @ = "none" THEN @ ELSE "voided"]
      /\ UNCHANGED <<room, charged, activated, vouched, caller, cleaner, biller>>
  BY DEF RecordNoDelivery, WebhookIsTrusted, requestVars, jobVars
<1>2. /\ RowSound(r) /\ effect \in [Rows -> Effect] /\ effect[r] \in Effect
      /\ joined \in [Rows -> {"none", "delivered", "never_joined"}]
      /\ usage \in [Rows -> UsageRow] /\ usage[r] \in UsageRow
  BY RowFields
<1>3. /\ effect' \in [Rows -> Effect] /\ \A q \in Rows \ {r} : effect'[q] = effect[q]
      /\ effect'[r].state = effect[r].state /\ effect'[r].ref = effect[r].ref
      /\ effect'[r].dispatched = effect[r].dispatched /\ effect'[r].delivery = "voided"
  BY <1>1, <1>2 DEF Effect
<1>4. /\ usage' \in [Rows -> UsageRow] /\ \A q \in Rows \ {r} : usage'[q] = usage[q]
      /\ usage'[r].status # "none" => usage[r].status # "none"
  BY <1>1, <1>2 DEF UsageRow
<1>5. /\ joined' \in [Rows -> {"none", "delivered", "never_joined"}]
      /\ joined'[r] = "never_joined" /\ \A q \in Rows \ {r} : joined'[q] = joined[q]
  BY <1>1, <1>2
<1>6. ~activated[r] /\ effect[r].dispatched
  BY <1>1, <1>2 DEF RowSound
<1>7. RowSound(r)'
  BY <1>1, <1>2, <1>3, <1>4, <1>5, <1>6 DEF RowSound
<1>8. GoesOn(r, FALSE) /\ \A q \in Rows \ {r} : Kept(q)
  BY <1>1, <1>3, <1>4, <1>5 DEF GoesOn, Kept
<1>9. RowsMove(r)
  BY <1>1, <1>3, <1>4, <1>5, <1>7, <1>8, RowFields DEF RowsMove
<1>10. ~ToBeOpened(r)
  BY <1>1, <1>2 DEF ToBeOpened, RowSound
<1> QED
  BY <1>1, <1>9, <1>10, RowKeepsJobs

(* Only a delivery activates the billing of its row.                       *)
LEMMA ActivateBillingKeeps ==
  ASSUME PaidInv, NEW r \in Rows, ActivateBilling(r)
  PROVE  PaidInv'
<1>1. PICK status \in {"none", "pending"} :
         /\ joined[r] = "delivered" /\ effect[r].state \in {"committed", "completed"}
         /\ effect' = [effect EXCEPT ![r].delivery = "activated"]
         /\ activated' = [activated EXCEPT ![r] = TRUE]
         /\ usage' = [usage EXCEPT ![r].status = status]
         /\ UNCHANGED <<joined, room, charged, vouched, caller, cleaner, biller>>
  BY DEF ActivateBilling, requestVars, jobVars
<1>2. /\ RowSound(r) /\ effect \in [Rows -> Effect] /\ effect[r] \in Effect
      /\ activated \in [Rows -> BOOLEAN]
      /\ usage \in [Rows -> UsageRow] /\ usage[r] \in UsageRow
  BY RowFields
<1>3. /\ effect' \in [Rows -> Effect] /\ \A q \in Rows \ {r} : effect'[q] = effect[q]
      /\ effect'[r].state = effect[r].state /\ effect'[r].ref = effect[r].ref
      /\ effect'[r].dispatched = effect[r].dispatched /\ effect'[r].delivery = "activated"
  BY <1>1, <1>2 DEF Effect
<1>4. /\ usage' \in [Rows -> UsageRow] /\ \A q \in Rows \ {r} : usage'[q] = usage[q]
  BY <1>1, <1>2 DEF UsageRow
<1>5. /\ activated' \in [Rows -> BOOLEAN] /\ activated'[r]
      /\ \A q \in Rows \ {r} : activated'[q] = activated[q]
  BY <1>1, <1>2
<1>6. effect[r].dispatched
  BY <1>1, <1>2 DEF RowSound
<1>7. RowSound(r)'
  BY <1>1, <1>2, <1>3, <1>5, <1>6 DEF RowSound
<1>8. GoesOn(r, FALSE) /\ \A q \in Rows \ {r} : Kept(q)
  BY <1>1, <1>3, <1>4, <1>5 DEF GoesOn, Kept
<1>9. RowsMove(r)
  BY <1>1, <1>3, <1>4, <1>5, <1>7, <1>8, RowFields DEF RowsMove
<1>10. ~ToBeOpened(r)
  BY <1>1, <1>2 DEF ToBeOpened, RowSound
<1> QED
  BY <1>1, <1>9, <1>10, RowKeepsJobs

(* A reservation nobody dispatched is given back.                          *)
LEMMA StaleReleased ==
  ASSUME PaidInv, NEW r \in Rows, effect[r].state = "reserved",
         effect'[r] = [effect[r] EXCEPT !.state = "released"],
         UNCHANGED <<joined, usage, room, charged, activated, vouched>>
  PROVE  /\ RowSound(r)' /\ GoesOn(r, FALSE) /\ effect'[r] \in Effect
<1>1. RowSound(r) /\ effect[r] \in Effect
  BY RowFields
<1>2. PICK e \in Effect : e = [effect[r] EXCEPT !.state = "released"]
  BY <1>1 DEF Effect, States
<1>3. /\ effect'[r] = e /\ e.state = "released" /\ e.ref = effect[r].ref
      /\ e.delivery = effect[r].delivery /\ e.dispatched = effect[r].dispatched
  BY <1>1, <1>2 DEF Effect
<1>4. RowSound(r)'
  BY <1>1, <1>3 DEF RowSound, Barrier
<1>5. GoesOn(r, FALSE)
  BY <1>3 DEF GoesOn
<1> QED
  BY <1>3, <1>4, <1>5

LEMMA SweepStaleKeeps ==
  ASSUME PaidInv, NEW r \in Rows, SweepStale(r)
  PROVE  PaidInv'
<1>1. /\ effect[r].state = "reserved" /\ effect' = [effect EXCEPT ![r].state = "released"]
      /\ UNCHANGED <<joined, usage, room, charged, activated, vouched, caller, cleaner, biller>>
  BY DEF SweepStale, SetState, requestVars, jobVars
<1>2. effect \in [Rows -> Effect]
  BY RowFields
<1>3. /\ effect'[r] = [effect[r] EXCEPT !.state = "released"]
      /\ \A q \in Rows \ {r} : effect'[q] = effect[q]
  BY <1>1, <1>2
<1>4. RowSound(r)' /\ GoesOn(r, FALSE) /\ effect'[r] \in Effect
  BY <1>1, <1>3, StaleReleased
<1>5. effect' \in [Rows -> Effect] /\ \A q \in Rows \ {r} : Kept(q)
  BY <1>1, <1>2, <1>3, <1>4 DEF Kept
<1>6. RowsMove(r)
  BY <1>1, <1>4, <1>5, RowFields DEF RowsMove
<1>7. ~ToBeOpened(r)
  BY <1>1, RowFields DEF ToBeOpened, RowSound
<1> QED
  BY <1>1, <1>6, <1>7, RowKeepsJobs

(* A lease sweeps the stale reservations and starts a cleanup.             *)
LEMMA LeaseCleanupKeeps ==
  ASSUME PaidInv, NEW r \in Rows, LeaseCleanup(r)
  PROVE  PaidInv'
<1>1. PICK stale \in SUBSET {q \in Rows : effect[q].state = "reserved"} :
         effect' = [q \in Rows |-> IF q \in stale THEN [effect[q] EXCEPT !.state = "released"]
                                   ELSE effect[q]]
  BY DEF LeaseCleanup
<1>2. /\ effect[r].state \in Barrier
      /\ UNCHANGED <<joined, usage, room, charged, activated, vouched, caller, biller>>
  BY DEF LeaseCleanup, requestVars
<1>3. PICK sound \in BOOLEAN, todo \in SUBSET {"void", "end"} :
         /\ cleaner' = [pc |-> "clean", row |-> r, todo |-> todo, sound |-> sound]
         /\ sound => effect[r].ref /\ todo = {"void", "end"}
  <2>1. CASE effect[r].state = "cleanup_pending" /\ effect[r].ref
    BY <2>1 DEF LeaseCleanup
  <2>2. CASE ~(effect[r].state = "cleanup_pending" /\ effect[r].ref)
    BY ZenonT(60), <2>2 DEF LeaseCleanup
  <2> QED
    BY <2>1, <2>2
<1>4. effect \in [Rows -> Effect]
  BY RowFields
<1>5. ASSUME NEW q \in Rows
      PROVE  Kept(q) \/ (effect[q].state = "reserved" /\ RowSound(q)' /\ GoesOn(q, FALSE))
  <2>1. CASE q \in stale
    <3>1. effect[q].state = "reserved" /\ effect'[q] = [effect[q] EXCEPT !.state = "released"]
      BY <1>1, <2>1
    <3> QED
      BY <1>2, <3>1, StaleReleased
  <2>2. CASE q \notin stale
    BY <1>1, <1>2, <2>2 DEF Kept
  <2> QED
    BY <2>1, <2>2
<1>6. effect' \in [Rows -> Effect]
  BY <1>1, <1>4 DEF Effect, States
<1>7. cleaner' \in Cleaning /\ cleaner'.row = r /\ cleaner'.todo = todo /\ cleaner'.sound = sound
  BY <1>3 DEF Cleaning
<1>8. PaidTypeOK'
  BY <1>2, <1>6, <1>7 DEF PaidInv, PaidTypeOK
<1>9. effect[r].state # "reserved" /\ effect'[r] = effect[r]
  BY <1>1, <1>2 DEF Barrier
<1>10. CleanerSound'
  <2>1. sound => effect'[r].ref /\ "end" \in todo
    BY <1>3, <1>9
  <2> QED
    BY <1>7, <2>1 DEF CleanerSound
<1>11. BillerSound'
  BY <1>2 DEF PaidInv, BillerSound
<1>12. PICK k : k \notin Callers
  BY NoSetContainsEverything
<1>13. \A q \in Rows :
        \/ Kept(q)
        \/ /\ RowSound(q)'
           /\ GoesOn(q, k \in Callers /\ caller[k].pc = "create" /\ caller[k].row = q)
           /\ \A l \in Callers \ {k} :
                caller[l].pc = "create" /\ caller[l].row = q => Untouched(q)
  <2>1. \A l \in Callers : caller[l].pc = "create" => effect[caller[l].row].state # "reserved"
    BY CallerFields, RowFields DEF CallerSound, ToBeOpened, RowSound
  <2>2. \A q \in Rows : GoesOn(q, FALSE) =>
          GoesOn(q, k \in Callers /\ caller[k].pc = "create" /\ caller[k].row = q)
    BY <1>12
  <2> QED
    BY <1>5, <2>1, <2>2
<1> QED
  BY <1>2, <1>8, <1>10, <1>11, <1>12, <1>13, StepKeeps

(* The row the cleanup job is at.                                          *)
LEMMA CleanerFields ==
  ASSUME PaidInv, cleaner.pc = "clean"
  PROVE  /\ cleaner \in Cleaning /\ cleaner.row \in Rows
         /\ cleaner.todo \subseteq {"void", "end"}
         /\ CleanerSound /\ BillerSound /\ biller \in {AtRest} \cup Sending
  BY DEF PaidInv, PaidTypeOK, Cleaning, AtRest

LEMMA CleanerDoneMoves ==
  ASSUME PaidInv, cleaner.pc = "clean", NEW what, NEW holds \in BOOLEAN, CleanerDone(what, holds)
  PROVE  /\ cleaner' \in Cleaning /\ cleaner'.row = cleaner.row
         /\ cleaner'.todo = cleaner.todo \ {what}
         /\ cleaner'.sound => cleaner.sound /\ holds
<1>1. cleaner \in Cleaning
  BY CleanerFields
<1>2. PICK sound \in BOOLEAN : sound = (cleaner.sound /\ holds)
  OBVIOUS
<1>3. cleaner' = [cleaner EXCEPT !.todo = @ \ {what}, !.sound = sound]
  BY <1>2 DEF CleanerDone
<1>4. cleaner'.sound = sound
  BY <1>1, <1>3 DEF Cleaning
<1> QED
  BY <1>1, <1>2, <1>3, <1>4 DEF Cleaning

LEMMA CleanerVoidsKeeps ==
  ASSUME PaidInv, CleanerVoids
  PROVE  PaidInv'
<1>1. /\ cleaner.pc = "clean"
      /\ UNCHANGED <<joined, room, charged, activated, vouched, caller, biller>>
  BY DEF CleanerVoids, requestVars
<1>2. PICK r \in Rows : r = cleaner.row
  BY <1>1, CleanerFields
<1>3. PICK holds \in BOOLEAN :
         CleanerDone("void", holds) /\ (Void(r) \/ UNCHANGED <<effect, usage>>)
  BY <1>2 DEF CleanerVoids, VoidHolds
<1>4. RowsMove(r) /\ \A q \in Rows : effect'[q].ref = effect[q].ref
  BY <1>1, <1>3, VoidMoves
<1>5. /\ cleaner' \in Cleaning /\ cleaner'.row = r /\ cleaner'.todo = cleaner.todo \ {"void"}
      /\ cleaner'.sound => cleaner.sound
  BY <1>1, <1>2, <1>3, CleanerDoneMoves
<1>6. CleanerSound'
  BY <1>1, <1>2, <1>4, <1>5, CleanerFields DEF CleanerSound
<1>7. BillerSound'
  BY <1>1, CleanerFields DEF BillerSound
<1>8. ToBeOpened(r) => Untouched(r)
  <2>1. effect \in [Rows -> Effect] /\ effect[r] \in Effect
    BY RowFields
  <2>2. ASSUME effect[r].state \in {"provider_in_flight", "released"}, Void(r)
        PROVE  effect'[r] = effect[r]
    <3>1. CASE VoidHolds(r)
      BY <2>1, <2>2, <3>1 DEF Void, VoidHolds, Effect
    <3>2. CASE ~VoidHolds(r)
      BY <2>2, <3>2 DEF Void
    <3> QED
      BY <3>1, <3>2
  <2> QED
    BY <1>1, <1>3, <2>2, RowFields DEF Untouched, ToBeOpened, RowSound
<1> QED
  BY <1>1, <1>4, <1>5, <1>6, <1>7, <1>8, CleanerFields, RowKeeps

LEMMA CleanerEndsKeeps ==
  ASSUME PaidInv, CleanerEnds
  PROVE  PaidInv'
<1>1. /\ cleaner.pc = "clean"
      /\ UNCHANGED <<effect, joined, usage, charged, activated, vouched, caller, biller>>
  BY DEF CleanerEnds, requestVars
<1>2. PICK r \in Rows : r = cleaner.row
  BY <1>1, CleanerFields
<1>3. PICK holds \in BOOLEAN :
         /\ CleanerDone("end", holds) /\ (EndRoom(r) \/ UNCHANGED room)
         /\ holds => EndRoom(r)
  BY <1>2 DEF CleanerEnds
<1>4. RowsMove(r) /\ (holds => room'[r] # "running")
  BY <1>1, <1>3, EndRoomMoves
<1>5. /\ cleaner' \in Cleaning /\ cleaner'.row = r
      /\ cleaner'.sound => cleaner.sound /\ holds
  BY <1>1, <1>2, <1>3, CleanerDoneMoves
<1>6. CleanerSound'
  BY <1>1, <1>2, <1>4, <1>5, CleanerFields DEF CleanerSound
<1>7. BillerSound'
  BY <1>1, CleanerFields DEF BillerSound
<1>8. ToBeOpened(r) => Untouched(r)
  BY <1>1, <1>3, RowFields DEF EndRoom, ToBeOpened, Untouched
<1> QED
  BY <1>1, <1>4, <1>5, <1>6, <1>7, <1>8, CleanerFields, RowKeeps

LEMMA CleanerSettlesKeeps ==
  ASSUME PaidInv, CleanerSettles
  PROVE  PaidInv'
<1>1. /\ cleaner.pc = "clean" /\ cleaner.todo = {} /\ cleaner' = AtRest
      /\ UNCHANGED <<joined, usage, room, charged, activated, vouched, caller, biller>>
  BY DEF CleanerSettles, requestVars
<1>2. PICK r \in Rows : r = cleaner.row
  BY <1>1, CleanerFields
<1>3. CleanerSound' /\ BillerSound'
  BY <1>1, CleanerFields DEF CleanerSound, BillerSound, AtRest
<1>4. CASE UNCHANGED effect
  <2>1. RowsMove(r) /\ Untouched(r)
    BY <1>1, <1>4, RowsStay DEF Untouched
  <2> QED
    BY <1>1, <1>3, <2>1, CleanerFields, RowKeeps
<1>5. CASE cleaner.sound /\ Reconcile(r)
  <2>1. room[r] # "running" /\ effect[r].ref
    BY <1>1, <1>2, <1>5, CleanerFields DEF CleanerSound
  <2>2. RowsMove(r)
    BY <1>1, <1>5, <2>1, ReconcileMoves
  <2>3. ~ToBeOpened(r)
    BY <2>1 DEF ToBeOpened
  <2> QED
    BY <1>1, <1>3, <2>2, <2>3, CleanerFields, RowKeeps
<1> QED
  BY <1>2, <1>4, <1>5 DEF CleanerSettles

(* An operator releases a row behind the barrier: a request at the provider *)
(* may still open its room, under a row he vouched for.                     *)
LEMMA ManuallyReconcileKeeps ==
  ASSUME PaidInv, NEW r \in Rows, ManuallyReconcile(r)
  PROVE  PaidInv'
<1>1. /\ effect[r].state \in Barrier /\ effect' = [effect EXCEPT ![r].state = "released"]
      /\ vouched' = [vouched EXCEPT ![r] = TRUE]
      /\ UNCHANGED <<joined, usage, room, charged, activated, caller, cleaner, biller>>
  BY DEF ManuallyReconcile, Reconcile, SetState, requestVars, jobVars
<1>2. RowSound(r) /\ effect \in [Rows -> Effect] /\ effect[r] \in Effect /\ vouched \in [Rows -> BOOLEAN]
  BY RowFields
<1>3. /\ effect' \in [Rows -> Effect] /\ \A q \in Rows \ {r} : effect'[q] = effect[q]
      /\ effect'[r].state = "released" /\ effect'[r].ref = effect[r].ref
      /\ effect'[r].delivery = effect[r].delivery /\ effect'[r].dispatched = effect[r].dispatched
  BY <1>1, <1>2 DEF Effect, States
<1>4. /\ vouched' \in [Rows -> BOOLEAN] /\ vouched'[r]
      /\ \A q \in Rows \ {r} : vouched'[q] = vouched[q]
  BY <1>1, <1>2
<1>5. \A q \in Rows : /\ effect'[q].ref = effect[q].ref
                      /\ effect'[q].dispatched = effect[q].dispatched
                      /\ effect'[q].state = "none" <=> effect[q].state = "none"
                      /\ effect'[q].state = "reserved" <=> effect[q].state = "reserved"
                      /\ effect[q].state = "released" => effect'[q].state = "released"
  BY <1>1, <1>3 DEF Barrier
<1>6. PaidTypeOK'
  BY <1>1, <1>3, <1>4 DEF PaidInv, PaidTypeOK
<1>7. ASSUME NEW q \in Rows
      PROVE  RowSound(q)'
  <2>1. CASE q = r
    BY <1>1, <1>2, <1>3, <1>4, <2>1 DEF RowSound, Barrier
  <2>2. CASE q # r
    BY <1>1, <1>3, <1>4, <2>2, RowFields DEF RowSound
  <2> QED
    BY <2>1, <2>2
<1>8. ASSUME NEW k \in Callers
      PROVE  CallerSound(k)'
  <2>1. CASE caller[k].pc = "idle"
    BY <1>1, <2>1 DEF CallerSound
  <2>2. CASE caller[k].pc # "idle"
    <3>1. CallerSound(k) /\ caller[k].row \in Rows
      BY <2>2, CallerFields
    <3>2. ToBeOpened(caller[k].row) => ToBeOpened(caller[k].row)'
      BY <1>1, <1>3, <1>4, <1>5, <3>1 DEF ToBeOpened
    <3> QED
      BY <1>1, <1>5, <2>2, <3>1, <3>2 DEF CallerSound
  <2> QED
    BY <2>1, <2>2
<1>9. OneOpener' /\ BillerSound'
  BY <1>1 DEF PaidInv, OneOpener, BillerSound
<1>10. CleanerSound'
  BY <1>1, <1>5, CleanerFields DEF CleanerSound
<1>11. RetriesFollow'
  BY <1>5 DEF PaidInv, RetriesFollow, Rows
<1>12. Engaged' = Engaged /\ NeverDelivered' \subseteq NeverDelivered
  BY <1>1, <1>5, RowFields DEF Engaged, NeverDelivered
<1>13. ExposureIsBounded'
  BY <1>12, UndeliveredAreCounted, FS_Subset, FS_CardinalityType, PaidEffectsAssumption
  DEF PaidInv, ExposureIsBounded
<1> QED
  BY <1>6, <1>7, <1>8, <1>9, <1>10, <1>11, <1>12, <1>13 DEF PaidInv

(* A step that changes none of what the invariant speaks of but a job.     *)
LEMMA JobKeeps ==
  ASSUME PaidInv, UNCHANGED <<effect, joined, room, activated, vouched, caller>>,
         usage' \in [Rows -> UsageRow], charged' \in [Rows -> BOOLEAN],
         \A r \in Rows : usage'[r].status # "none" => activated[r],
         \A r \in Rows : charged'[r] => activated[r],
         cleaner' \in {AtRest} \cup Cleaning, biller' \in {AtRest} \cup Sending,
         CleanerSound', BillerSound'
  PROVE  PaidInv'
<1>1. PaidTypeOK'
  BY DEF PaidInv, PaidTypeOK
<1>2. \A r \in Rows : RowSound(r)'
  BY DEF PaidInv, RowSound
<1>3. \A k \in Callers : CallerSound(k)'
  BY DEF PaidInv, CallerSound, ToBeOpened
<1>4. OneOpener' /\ RetriesFollow' /\ IsFiniteSet(Engaged)' /\ ExposureIsBounded'
  BY DEF PaidInv, OneOpener, RetriesFollow, Engaged, ExposureIsBounded, NeverDelivered
<1> QED
  BY <1>1, <1>2, <1>3, <1>4 DEF PaidInv

LEMMA BillsKnown ==
  ASSUME PaidInv
  PROVE  /\ usage \in [Rows -> UsageRow] /\ charged \in [Rows -> BOOLEAN]
         /\ \A r \in Rows : usage[r].status # "none" => activated[r]
         /\ \A r \in Rows : charged[r] => activated[r]
         /\ cleaner \in {AtRest} \cup Cleaning /\ biller \in {AtRest} \cup Sending
         /\ CleanerSound /\ BillerSound
  BY DEF PaidInv, PaidTypeOK, RowSound

LEMMA CleanerLostKeeps ==
  ASSUME PaidInv, CleanerLost
  PROVE  PaidInv'
<1>1. /\ cleaner' = AtRest
      /\ UNCHANGED <<effect, joined, usage, room, charged, activated, vouched, caller, biller>>
  BY DEF CleanerLost, requestVars
<1>2. CleanerSound' /\ BillerSound'
  BY <1>1, BillsKnown DEF CleanerSound, BillerSound, AtRest
<1> QED
  BY <1>1, <1>2, BillsKnown, JobKeeps

(* Leases of the cleanup and the receipts of a stop touch no row.          *)
LEMMA OtherKeeps ==
  ASSUME PaidInv,
         UNCHANGED <<effect, joined, usage, room, charged, activated, vouched, caller, cleaner, biller>>
  PROVE  PaidInv'
<1>1. CleanerSound' /\ BillerSound'
  BY BillsKnown DEF CleanerSound, BillerSound
<1> QED
  BY <1>1, BillsKnown, JobKeeps

LEMMA LeaseUsageKeeps ==
  ASSUME PaidInv, NEW r \in Rows, LeaseUsage(r)
  PROVE  PaidInv'
<1>1. UNCHANGED <<effect, joined, room, charged, activated, vouched, caller, cleaner>>
  BY DEF LeaseUsage, requestVars
<1>2. usage \in [Rows -> UsageRow] /\ usage[r] \in UsageRow
  BY RowFields
<1>3. CASE /\ usage[r].status \in {"pending", "failed", "delivering"}
           /\ usage' = [usage EXCEPT ![r] = [status |-> "delivering", attempts |-> @.attempts + 1]]
           /\ biller' = [pc |-> "send", row |-> r]
  <2>1. activated[r]
    BY <1>3, BillsKnown
  <2>2. usage' \in [Rows -> UsageRow] /\ \A q \in Rows \ {r} : usage'[q] = usage[q]
    BY <1>2, <1>3 DEF UsageRow
  <2>3. CleanerSound' /\ BillerSound' /\ biller' \in Sending
    BY <1>1, <1>3, <2>1, BillsKnown DEF CleanerSound, BillerSound, Sending
  <2> QED
    BY <1>1, <2>1, <2>2, <2>3, BillsKnown, JobKeeps
<1>4. CASE /\ usage[r].status = "delivering" /\ usage' = [usage EXCEPT ![r].status = "dead_letter"]
           /\ UNCHANGED biller
  <2>1. activated[r]
    BY <1>4, BillsKnown
  <2>2. usage' \in [Rows -> UsageRow] /\ \A q \in Rows \ {r} : usage'[q] = usage[q]
    BY <1>2, <1>4 DEF UsageRow
  <2>3. CleanerSound' /\ BillerSound'
    BY <1>1, <1>4, BillsKnown DEF CleanerSound, BillerSound
  <2> QED
    BY <1>1, <1>4, <2>1, <2>2, <2>3, BillsKnown, JobKeeps
<1> QED
  BY <1>3, <1>4 DEF LeaseUsage

LEMMA ReportUsageKeeps ==
  ASSUME PaidInv, ReportUsage
  PROVE  PaidInv'
<1>1. /\ biller.pc = "send" /\ biller' = AtRest
      /\ UNCHANGED <<effect, joined, room, activated, vouched, caller, cleaner>>
  BY DEF ReportUsage, requestVars
<1>2. biller \in Sending /\ biller.row \in Rows
  BY <1>1, BillsKnown DEF Sending, AtRest
<1>3. PICK r \in Rows : r = biller.row
  BY <1>2
<1>4. activated[r] /\ usage \in [Rows -> UsageRow] /\ charged \in [Rows -> BOOLEAN]
  BY <1>1, <1>3, BillsKnown DEF BillerSound
<1>5. PICK status \in {"delivering", "dead_letter", "failed", "delivered"} :
         /\ usage' = [usage EXCEPT ![r].status = status]
         /\ UNCHANGED charged \/ charged' = [charged EXCEPT ![r] = TRUE]
  <2>1. PICK unacknowledged \in SUBSET {"delivering", "dead_letter", "failed"} :
           \/ /\ charged' = [charged EXCEPT ![r] = TRUE]
              /\ \E status \in unacknowledged \cup {"delivered"} :
                   usage' = [usage EXCEPT ![r].status = status]
           \/ /\ UNCHANGED charged
              /\ \E status \in unacknowledged : usage' = [usage EXCEPT ![r].status = status]
    BY <1>3 DEF ReportUsage
  <2> QED
    BY <2>1
<1>6. /\ usage' \in [Rows -> UsageRow] /\ \A q \in Rows \ {r} : usage'[q] = usage[q]
      /\ charged' \in [Rows -> BOOLEAN] /\ \A q \in Rows \ {r} : charged'[q] = charged[q]
  BY ZenonT(60), <1>4, <1>5 DEF UsageRow
<1>7. CleanerSound' /\ BillerSound'
  BY <1>1, BillsKnown DEF CleanerSound, BillerSound, AtRest
<1> QED
  BY <1>1, <1>4, <1>6, <1>7, BillsKnown, JobKeeps

LEMMA StopEndsRoomKeeps ==
  ASSUME PaidInv, StopEndsRoom
  PROVE  PaidInv'
<1>1. UNCHANGED <<effect, joined, usage, charged, activated, vouched, caller, cleaner, biller>>
  BY DEF StopEndsRoom, requestVars
<1>2. CASE stop.at.row \in Rows
  <2>1. PICK r \in Rows : r = stop.at.row
    BY <1>2
  <2>2. EndRoom(r) \/ UNCHANGED room
    BY <2>1 DEF StopEndsRoom
  <2>3. RowsMove(r)
    BY <1>1, <2>2, EndRoomMoves
  <2>4. ToBeOpened(r) => Untouched(r)
    BY <1>1, <2>2, RowFields DEF EndRoom, ToBeOpened, Untouched
  <2> QED
    BY <1>1, <2>3, <2>4, RowKeepsJobs
<1>3. CASE stop.at.row \notin Rows
  <2>1. room \in [Rows -> {"none", "running", "ended"}]
    BY DEF PaidInv, PaidTypeOK
  <2>2. UNCHANGED room
    BY <1>3, <2>1 DEF StopEndsRoom, EndRoom
  <2> QED
    BY <1>1, <2>2, OtherKeeps
<1> QED
  BY <1>2, <1>3

LEMMA SettleStopKeeps ==
  ASSUME PaidInv, SettleStop
  PROVE  PaidInv'
<1>1. UNCHANGED <<joined, usage, room, charged, activated, vouched, caller, cleaner, biller>>
  BY DEF SettleStop, requestVars
<1>2. CASE UNCHANGED effect
  BY <1>1, <1>2, OtherKeeps
<1>3. ASSUME NEW r \in Rows, effect[r].state \in {"committed", "completed"}, SetState(r, "completed")
      PROVE  PaidInv'
  <2>1. RowSound(r) /\ effect \in [Rows -> Effect] /\ effect[r] \in Effect
    BY RowFields
  <2>2. PICK e \in Effect : e = [effect[r] EXCEPT !.state = "completed"]
    BY <2>1 DEF Effect, States
  <2>3. /\ effect' = [effect EXCEPT ![r] = e] /\ effect'[r] = e
        /\ e.state = "completed" /\ e.ref = effect[r].ref
        /\ e.delivery = effect[r].delivery /\ e.dispatched = effect[r].dispatched
    BY <1>3, <2>1, <2>2 DEF Effect, SetState
  <2>4. RowSound(r)'
    BY <1>1, <1>3, <2>1, <2>3 DEF RowSound, Barrier
  <2>5. GoesOn(r, FALSE)
    BY <1>1, <1>3, <2>3 DEF GoesOn
  <2>6. RowsMove(r)
    BY <1>1, <2>3, <2>4, <2>5, EffectMoves
  <2>7. ~ToBeOpened(r)
    BY <1>3, <2>1 DEF ToBeOpened, RowSound
  <2> QED
    BY <1>1, <2>6, <2>7, RowKeepsJobs
<1>4. ASSUME NEW r, r \notin Rows, SetState(r, "completed")
      PROVE  UNCHANGED effect
  <2>1. effect \in [Rows -> Effect]
    BY DEF PaidInv, PaidTypeOK
  <2> QED
    BY <1>4, <2>1 DEF SetState
<1> QED
  BY <1>2, <1>3, <1>4 DEF SettleStop

-------------------------------------------------------------------------------
LEMMA PaidInvHolds == PaidInit => PaidInv
<1> SUFFICES ASSUME PaidInit
             PROVE  PaidInv
  OBVIOUS
<1>1. NoEffect \in Effect /\ NoUsage \in UsageRow
  BY DEF NoEffect, NoUsage, Effect, UsageRow, States
<1>2. PaidTypeOK
  BY <1>1 DEF PaidInit, PaidTypeOK
<1>3. ASSUME NEW r \in Rows
      PROVE  RowSound(r)
  <2>1. /\ effect[r].state = "none" /\ effect[r].delivery = "held"
        /\ effect[r].dispatched = FALSE /\ effect[r].ref = FALSE /\ usage[r].status = "none"
        /\ room[r] = "none" /\ joined[r] = "none" /\ charged[r] = FALSE /\ activated[r] = FALSE
        /\ vouched[r] = FALSE
    BY DEF PaidInit, NoEffect, NoUsage
  <2> QED
    BY <2>1 DEF RowSound, Barrier
<1>4. \A k \in Callers : caller[k].pc = "idle"
  BY DEF PaidInit, AtRest
<1>5. (\A k \in Callers : CallerSound(k)) /\ OneOpener
  BY <1>4 DEF CallerSound, OneOpener
<1>6. CleanerSound /\ BillerSound
  BY DEF PaidInit, AtRest, CleanerSound, BillerSound
<1>7. \A r \in Rows : /\ effect[r].state = "none"
                      /\ effect[r].dispatched = FALSE
  BY DEF PaidInit, NoEffect
<1>8. RetriesFollow
  BY <1>7 DEF RetriesFollow, Rows
<1>9. Engaged = {} /\ NeverDelivered = {}
  BY <1>7 DEF Engaged, NeverDelivered
<1>10. IsFiniteSet(Engaged) /\ ExposureIsBounded
  BY <1>9, FS_EmptySet, PaidEffectsAssumption DEF ExposureIsBounded
<1> QED
  BY <1>2, <1>3, <1>5, <1>6, <1>8, <1>10 DEF PaidInv

LEMMA CallerNextKeeps ==
  ASSUME PaidInv, NEW k \in Callers, CallerNext(k)
  PROVE  PaidInv'
  BY StartVideoConversationKeeps, RetryReleasedKeeps, ClaimDispatchKeeps,
     BindWebhookCapabilityKeeps, CreateConversationKeeps, CommitEffectKeeps,
     CompensateUncommittedKeeps, FenceProviderFailureKeeps, BindChannelKeeps,
     RegisterTranscriptKeeps, CompensateUndeliveredKeeps, CallerLostKeeps
  DEF CallerNext

LEMMA PaidInvKept == PaidInv /\ [PaidNext]_paidVars => PaidInv'
<1> SUFFICES ASSUME PaidInv, [PaidNext]_paidVars
             PROVE  PaidInv'
  OBVIOUS
<1>1. CASE \E k \in Callers : CallerNext(k)
  BY <1>1, CallerNextKeeps
<1>2. CASE \E r \in Rows : RoomEnds(r) \/ RecordDelivery(r) \/ RecordNoDelivery(r) \/ ActivateBilling(r)
  BY <1>2, RoomEndsKeeps, RecordDeliveryKeeps, RecordNoDeliveryKeeps, ActivateBillingKeeps
<1>3. CASE \E r \in Rows : LeaseCleanup(r) \/ SweepStale(r) \/ LeaseUsage(r)
  BY <1>3, LeaseCleanupKeeps, SweepStaleKeeps, LeaseUsageKeeps
<1>4. CASE \E r \in Rows : CleanupLeaseExpires(r)
  BY <1>4, OtherKeeps DEF CleanupLeaseExpires, requestVars, jobVars
<1>5. CASE CleanerVoids \/ CleanerEnds \/ CleanerSettles \/ CleanerLost
  BY <1>5, CleanerVoidsKeeps, CleanerEndsKeeps, CleanerSettlesKeeps, CleanerLostKeeps
<1>6. CASE ReportUsage
  BY <1>6, ReportUsageKeeps
<1>7. CASE (\E c \in Intentions : BeginStop(c)) \/ StopLost
  BY <1>7, OtherKeeps DEF BeginStop, StopLost, requestVars
<1>8. CASE StopEndsRoom \/ SettleStop
  BY <1>8, StopEndsRoomKeeps, SettleStopKeeps
<1>9. CASE UNCHANGED paidVars
  BY <1>9, OtherKeeps DEF paidVars
<1>10. CASE \E r \in Rows : ManuallyReconcile(r)
  BY <1>10, ManuallyReconcileKeeps
<1> QED
  BY <1>1, <1>2, <1>3, <1>4, <1>5, <1>6, <1>7, <1>8, <1>9, <1>10 DEF PaidNext

LEMMA PaidInductive == PaidSpec => []PaidInv
  BY PaidInvHolds, PaidInvKept, PTL DEF PaidSpec

(* No room runs without a reservation that counts it, unless an operator's *)
(* own evidence released it, and an intention never has two rows that may  *)
(* hold a room, whichever requests, jobs and answers are lost              *)
(* (portal_begin_provider_effect_service,                                  *)
(* portal_reconcile_provider_effect_service).                              *)
THEOREM RoomsAreReserved == PaidSpec => []RoomsFollowReservations
  BY PaidInductive, PaidInvImplies, PTL

(* The rooms a period may have paid for without a delivery stay within the *)
(* cap, whichever way they end.                                            *)
THEOREM ExposureStaysBounded == PaidSpec => []ExposureIsBounded
  BY PaidInductive, PaidInvImplies, PTL

(* Stripe is told only of rooms that are over and in which a customer was  *)
(* heard (portal_activate_provider_effect_billing_service).                *)
THEOREM OnlyDeliveriesAreBilled == PaidSpec => []BillingFollowsDelivery
  BY PaidInductive, PaidInvImplies, PTL
===============================================================================
