---------------------------- MODULE LifecycleProofs ---------------------------
(***************************************************************************)
(* Machine-checked proofs about the session lifecycle, for every set of    *)
(* calls, keys and sessions, every order of their names and every size of  *)
(* the store.                                                              *)
(***************************************************************************)
EXTENDS SessionLifecycle, ReducerProofs, SequenceTheorems, WellFoundedInduction

Names == Keys \cup Sessions
Works == {"delivering", "committed", "failing"}
In(c, l) == \E i \in DOMAIN locks[l] : locks[l][i] = c

LifecycleTyped ==
  /\ evidence \subseteq Sessions
  /\ ledger \in [Keys -> Result]
  /\ counted \in [Calls -> SUBSET Keys]
  /\ counter \in Calls \cup {NoCall}
  /\ call \in [Calls -> CallState]
  /\ aggregate \in [Sessions -> AggregateState]

(* A call is queued for the locks it needs and no other: for the first one *)
(* all the time, for a later one only while it holds those before it.      *)
Queued(c) ==
  /\ \A l \in Names : In(c, l) => InFlight(c) /\ l \in LocksOf(call[c])
  /\ InFlight(c) =>
       /\ \A l \in LocksOf(call[c]) : (\A m \in LocksOf(call[c]) : ~Before(m, l)) => In(c, l)
       /\ \A l, m \in LocksOf(call[c]) : Before(l, m) /\ In(c, m) => Holds(c, l)
  /\ call[c].pc \in Works => \A l \in LocksOf(call[c]) : Holds(c, l)

QueuesTyped ==
  /\ locks \in [Names -> Seq(Calls)]
  /\ \A l \in Names : IsInjective(locks[l])

QueuesSound == QueuesTyped /\ \A c \in Calls : Queued(c)

(* What a call carries at each of its awaits.                              *)
Carries(q) ==
  /\ q.pc = "new" => q.command.op = "none"
  /\ q.pc # "new" => q.command \in Command
  /\ q.pc \notin {"committed", "done"} => q.version = 0
  /\ q.pc = "locking" /\ q.command.op = "create" => q.session = NoSession
  /\ q.pc \notin {"new", "done"} /\ q.command.op # "create" => q.session = q.command.session
  /\ q.pc = "delivering" => q.command.op = "create"
  /\ q.pc \in {"delivering", "committed"} => q.session \in Sessions
  /\ q.pc \in Works => q.counter # NoCall

(* An answer is in the ledger; a call at work has none there yet.          *)
AnswerKept(q) ==
  /\ q.pc \in Works => ledger[q.key] = NoResult
  /\ q.pc = "done" /\ q.version # 0 =>
       ledger[q.key] = [command |-> q.command, session |-> q.session, version |-> q.version]

CallsSound == \A c \in Calls : Carries(call[c]) /\ AnswerKept(call[c])

Whole(st) ==
  /\ st.status # "preparing" /\ Consistent(st)
  /\ Disclosed(st) /\ st.consent # "pending"

IsMinted(s) == \E c \in Calls : call[c].command.op = "create" /\ call[c].session = s

(* A session that is being delivered is new and belongs to one call.       *)
Fresh(c) ==
  /\ aggregate[call[c].session] = AbsentAggregate
  /\ \A d \in Calls : d # c /\ call[d].command.op = "create" => call[d].session # call[c].session
  /\ \A k \in Keys : ledger[k].command.op = "create" => ledger[k].session # call[c].session

SessionsSound ==
  /\ \A s \in Sessions : aggregate[s] = AbsentAggregate \/ (Whole(aggregate[s]) /\ IsMinted(s))
  /\ \A k \in Keys : ledger[k] # NoResult =>
       /\ ledger[k].command \in Command
       /\ ledger[k].command.op = "create" =>
            ledger[k].session \in Sessions /\ IsMinted(ledger[k].session)
  /\ \A c \in Calls : call[c].pc = "delivering" => Fresh(c)

LifecycleInv == LifecycleTyped /\ QueuesSound /\ CallsSound /\ SessionsSound

-------------------------------------------------------------------------------
(* Names and their order.                                                  *)

LEMMA NamesSorted ==
  /\ Names = {Sorted[i] : i \in DOMAIN Sorted}
  /\ \A l \in Names : ~Before(l, l)
  /\ \A l, m \in Names : ~(Before(l, m) /\ Before(m, l))
  /\ \A l, m \in Names : l # m => Before(l, m) \/ Before(m, l)
<1>1. /\ Sorted \in Seq(Names) /\ DOMAIN Sorted = 1..Len(Sorted) /\ Len(Sorted) \in Nat
      /\ \A i, j \in DOMAIN Sorted : Sorted[i] = Sorted[j] => i = j
      /\ \A l \in Names : \E i \in DOMAIN Sorted : Sorted[i] = l
  BY LifecycleAssumption DEF Names, IsInjective, Contains
<1>2. \A i \in DOMAIN Sorted : Sorted[i] \in Names /\ i \in Nat
  BY <1>1
<1>3. Names = {Sorted[i] : i \in DOMAIN Sorted}
  BY <1>1, <1>2
<1>4. \A l \in Names : ~Before(l, l)
  BY <1>1, <1>2 DEF Before
<1>5. \A l, m \in Names : ~(Before(l, m) /\ Before(m, l))
  BY <1>1, <1>2 DEF Before
<1>6. ASSUME NEW l \in Names, NEW m \in Names, l # m PROVE Before(l, m) \/ Before(m, l)
  <2>1. PICK i \in DOMAIN Sorted : Sorted[i] = l
    BY <1>1
  <2>2. PICK j \in DOMAIN Sorted : Sorted[j] = m
    BY <1>1
  <2>3. i < j \/ j < i
    BY <1>2, <1>6, <2>1, <2>2
  <2>4. QED
    BY <2>1, <2>2, <2>3 DEF Before
<1>7. QED
  BY <1>3, <1>4, <1>5, <1>6

(* A call needs one lock or two, which it takes in their order.            *)
LEMMA LocksInOrder ==
  ASSUME NEW q, LocksOf(q) \subseteq Names
  PROVE  /\ FirstLock(q) \in LocksOf(q) /\ LastLock(q) \in LocksOf(q)
         /\ LocksOf(q) = {FirstLock(q), LastLock(q)}
         /\ FirstLock(q) # LastLock(q) => Before(FirstLock(q), LastLock(q))
         /\ \A l \in LocksOf(q) : ~Before(l, FirstLock(q))
<1>1. PICK a, b : LocksOf(q) = {a, b}
  BY ZenonT(60) DEF LocksOf
<1>2. PICK f, t : /\ LocksOf(q) = {f, t} /\ f \in Names /\ t \in Names
                  /\ f = t \/ Before(f, t)
  BY <1>1, NamesSorted
<1>3. \A m \in LocksOf(q) : ~Before(m, f) /\ ~Before(t, m)
  BY <1>2, NamesSorted
<1>4. \A l \in LocksOf(q) : (\A m \in LocksOf(q) : ~Before(m, l)) => l = f
  BY <1>2
<1>5. \A l \in LocksOf(q) : (\A m \in LocksOf(q) : ~Before(l, m)) => l = t
  BY <1>2
<1>6. FirstLock(q) = f
  BY <1>2, <1>3, <1>4 DEF FirstLock
<1>7. LastLock(q) = t
  BY <1>2, <1>3, <1>5 DEF LastLock
<1>8. QED
  BY <1>2, <1>3, <1>6, <1>7

LEMMA LocksNamed ==
  ASSUME NEW q \in CallState, q.command.op # "create" => q.session \in Sessions
  PROVE  LocksOf(q) \subseteq Names
BY DEF LocksOf, CallState, Names

-------------------------------------------------------------------------------
(* The queues of the locks.                                                *)

LEMMA QueueGrows ==
  ASSUME NEW S, NEW w \in Seq(S), IsInjective(w), NEW x \in S,
         ~\E i \in DOMAIN w : w[i] = x
  PROVE  /\ Append(w, x) \in Seq(S) /\ IsInjective(Append(w, x)) /\ Append(w, x) # <<>>
         /\ \A d : (\E i \in DOMAIN Append(w, x) : Append(w, x)[i] = d) <=>
                     (\E i \in DOMAIN w : w[i] = d) \/ d = x
         /\ Head(Append(w, x)) = IF w = <<>> THEN x ELSE Head(w)
<1>1. /\ Append(w, x) \in Seq(S) /\ DOMAIN Append(w, x) = 1..(Len(w) + 1)
      /\ DOMAIN w = 1..Len(w) /\ Len(w) \in Nat
      /\ \A i \in 1..Len(w) : Append(w, x)[i] = w[i]
      /\ Append(w, x)[Len(w) + 1] = x
  BY AppendProperties
<1>2. \A i \in DOMAIN Append(w, x) : i \in DOMAIN w \/ i = Len(w) + 1
  BY <1>1
<1>3. IsInjective(Append(w, x))
  BY <1>1, <1>2 DEF IsInjective
<1>4. \A d : (\E i \in DOMAIN Append(w, x) : Append(w, x)[i] = d) <=>
               (\E i \in DOMAIN w : w[i] = d) \/ d = x
  <2>1. \A i \in DOMAIN w : i \in DOMAIN Append(w, x)
    BY <1>1
  <2>2. Len(w) + 1 \in DOMAIN Append(w, x)
    BY <1>1
  <2>3. QED
    BY <1>1, <1>2, <2>1, <2>2
<1>5. QED
  BY <1>1, <1>3, <1>4

LEMMA QueueShrinks ==
  ASSUME NEW S, NEW w \in Seq(S), IsInjective(w), w # <<>>
  PROVE  /\ Tail(w) \in Seq(S) /\ IsInjective(Tail(w))
         /\ \A d : (\E i \in DOMAIN Tail(w) : Tail(w)[i] = d) <=>
                     (\E i \in DOMAIN w : w[i] = d) /\ d # Head(w)
<1>1. /\ Tail(w) \in Seq(S) /\ DOMAIN Tail(w) = 1..(Len(w) - 1) /\ Len(w) \in Nat \ {0}
      /\ DOMAIN w = 1..Len(w) /\ Head(w) = w[1]
      /\ \A i \in 1..(Len(w) - 1) : Tail(w)[i] = w[i + 1]
  OBVIOUS
<1>2. \A i, j \in DOMAIN w : w[i] = w[j] => i = j
  BY DEF IsInjective
<1>3. \A i \in DOMAIN Tail(w) : i + 1 \in DOMAIN w /\ i + 1 # 1
  BY <1>1
<1>4. \A i \in DOMAIN w : i # 1 => i - 1 \in DOMAIN Tail(w) /\ (i - 1) + 1 = i
  BY <1>1
<1>5. 1 \in DOMAIN w
  BY <1>1
<1>6. IsInjective(Tail(w))
  <2>1. ASSUME NEW i \in DOMAIN Tail(w), NEW j \in DOMAIN Tail(w), Tail(w)[i] = Tail(w)[j]
        PROVE  i = j
    <3>1. w[i + 1] = w[j + 1]
      BY <1>1, <2>1
    <3>2. i + 1 = j + 1
      BY <1>2, <1>3, <3>1
    <3>3. QED
      BY <1>1, <3>2
  <2>2. QED
    BY <2>1 DEF IsInjective
<1>7. ASSUME NEW d
      PROVE  (\E i \in DOMAIN Tail(w) : Tail(w)[i] = d) <=>
               (\E i \in DOMAIN w : w[i] = d) /\ d # Head(w)
  <2>1. ASSUME NEW i \in DOMAIN Tail(w), Tail(w)[i] = d
        PROVE  (\E j \in DOMAIN w : w[j] = d) /\ d # Head(w)
    <3>1. w[i + 1] = d
      BY <1>1, <2>1
    <3>2. d # w[1]
      BY <1>2, <1>3, <1>5, <3>1
    <3>3. QED
      BY <1>1, <1>3, <3>1, <3>2
  <2>2. ASSUME NEW j \in DOMAIN w, w[j] = d, d # Head(w)
        PROVE  \E i \in DOMAIN Tail(w) : Tail(w)[i] = d
    <3>1. j # 1
      BY <1>1, <2>2
    <3>2. j - 1 \in DOMAIN Tail(w) /\ (j - 1) + 1 = j
      BY <1>4, <3>1
    <3>3. Tail(w)[j - 1] = w[(j - 1) + 1]
      BY <1>1, <3>2
    <3>4. QED
      BY <2>2, <3>2, <3>3
  <2>3. QED
    BY <2>1, <2>2
<1>8. QED
  BY <1>1, <1>6, <1>7

(* A call that holds a lock is in its queue, and is the only one to.       *)
LEMMA HoldersAreIn ==
  ASSUME QueuesTyped, NEW l \in Names
  PROVE  /\ \A c : Holds(c, l) => In(c, l)
         /\ locks[l] # <<>> => Head(locks[l]) \in Calls /\ Holds(Head(locks[l]), l)
         /\ \A c : In(c, l) => locks[l] # <<>> /\ c \in Calls
         /\ \A c : Contains(locks[l], c) <=> In(c, l)
<1>1. /\ locks[l] \in Seq(Calls) /\ DOMAIN locks[l] = 1..Len(locks[l]) /\ Len(locks[l]) \in Nat
      /\ \A i \in DOMAIN locks[l] : locks[l][i] \in Calls
  BY DEF QueuesTyped
<1>2. locks[l] # <<>> => 1 \in DOMAIN locks[l] /\ Head(locks[l]) = locks[l][1]
  BY <1>1
<1>3. \A c : In(c, l) => locks[l] # <<>> /\ c \in Calls
  BY <1>1 DEF In
<1>4. QED
  BY <1>1, <1>2, <1>3 DEF Holds, In, Contains

(* What a step of one call leaves to the others.                           *)
LEMMA OthersStayQueued ==
  ASSUME NEW c \in Calls, NEW d \in Calls, d # c, Queued(d), call'[d] = call[d],
         \A l \in Names : In(d, l)' <=> In(d, l),
         \A l \in Names : Holds(d, l) => Holds(d, l)',
         InFlight(d) => LocksOf(call[d]) \subseteq Names
  PROVE  Queued(d)'
BY DEF Queued, InFlight, Works

(* A call goes on under the locks it has.                                  *)
LEMMA LocksStay ==
  ASSUME QueuesSound, CallsSound, LifecycleTyped, NEW c \in Calls, NEW q,
         locks' = locks, call' = [call EXCEPT ![c] = q],
         InFlight(c), q.pc \notin {"new", "done"}, LocksOf(q) = LocksOf(call[c]),
         q.pc \in Works => \A l \in LocksOf(q) : Holds(c, l)
  PROVE  QueuesSound'
<1>1. call'[c] = q /\ \A d \in Calls : d # c => call'[d] = call[d]
  BY DEF LifecycleTyped
<1>2. QueuesTyped'
  BY DEF QueuesSound, QueuesTyped
<1>3. \A d, l : (In(d, l)' <=> In(d, l)) /\ (Holds(d, l)' <=> Holds(d, l))
  BY DEF In, Holds
<1>4. ASSUME NEW d \in Calls PROVE Queued(d)'
  <2>1. CASE d = c
    <3>1. Queued(c) /\ LocksOf(call'[c]) = LocksOf(call[c]) /\ InFlight(c)'
      BY <1>1 DEF QueuesSound, InFlight
    <3>2. QED
      BY <1>1, <1>3, <2>1, <3>1 DEF Queued
  <2>2. CASE d # c
    <3>1. Queued(d) /\ call'[d] = call[d] /\ (InFlight(d)' <=> InFlight(d))
      BY <1>1, <2>2 DEF QueuesSound, InFlight
    <3>2. QED
      BY <1>3, <3>1 DEF Queued
  <2>3. QED
    BY <2>1, <2>2
<1>5. QED
  BY <1>2, <1>4 DEF QueuesSound

(* A call in flight needs locks that there are.                            *)
LEMMA InFlightNamed ==
  ASSUME LifecycleTyped, CallsSound, NEW c \in Calls, InFlight(c)
  PROVE  LocksOf(call[c]) \subseteq Names
<1>1. call[c] \in CallState /\ Carries(call[c])
  BY DEF LifecycleTyped, CallsSound
<1>2. call[c].command \in Command /\ (call[c].command.op # "create" => call[c].session = call[c].command.session)
  BY <1>1 DEF Carries, InFlight
<1>3. call[c].command.op # "create" => call[c].session \in Sessions
  BY <1>2 DEF Command
<1>4. QED
  BY <1>1, <1>3, LocksNamed

(* A call that holds its last lock holds them all.                         *)
LEMMA LastHoldsAll ==
  ASSUME LifecycleTyped, CallsSound, QueuesSound, NEW c \in Calls, InFlight(c),
         Holds(c, LastLock(call[c]))
  PROVE  \A l \in LocksOf(call[c]) : Holds(c, l)
<1>1. LocksOf(call[c]) \subseteq Names
  BY InFlightNamed
<1>2. /\ FirstLock(call[c]) \in LocksOf(call[c]) /\ LastLock(call[c]) \in LocksOf(call[c])
      /\ LocksOf(call[c]) = {FirstLock(call[c]), LastLock(call[c])}
      /\ FirstLock(call[c]) # LastLock(call[c]) => Before(FirstLock(call[c]), LastLock(call[c]))
  BY <1>1, LocksInOrder
<1>3. In(c, LastLock(call[c]))
  BY <1>1, <1>2, HoldersAreIn DEF QueuesSound
<1>4. FirstLock(call[c]) # LastLock(call[c]) => Holds(c, FirstLock(call[c]))
  BY <1>2, <1>3 DEF QueuesSound, Queued
<1>5. QED
  BY <1>2, <1>4

(* A call that ends leaves its locks to those who wait for them.           *)
LEMMA LocksLeft ==
  ASSUME QueuesSound, CallsSound, LifecycleTyped, NEW c \in Calls,
         locks' = Released(c), call'[c].pc = "done",
         \A d \in Calls : d # c => call'[d] = call[d],
         \A l \in Names : In(c, l) => Holds(c, l)
  PROVE  QueuesSound'
<1>1. DOMAIN locks = Names /\ locks' \in [Names -> {locks'[l] : l \in Names}]
  BY DEF QueuesSound, QueuesTyped, Released
<1>2. ASSUME NEW l \in Names
      PROVE  /\ locks'[l] \in Seq(Calls) /\ IsInjective(locks'[l])
             /\ \A d : In(d, l)' <=> In(d, l) /\ d # c
             /\ \A d : d # c /\ Holds(d, l) => Holds(d, l)'
  <2>1. /\ locks[l] \in Seq(Calls) /\ IsInjective(locks[l])
        /\ locks'[l] = IF Holds(c, l) THEN Tail(locks[l]) ELSE locks[l]
    BY <1>1 DEF QueuesSound, QueuesTyped, Released
  <2>2. CASE Holds(c, l)
    <3>1. locks[l] # <<>> /\ Head(locks[l]) = c /\ locks'[l] = Tail(locks[l])
      BY <2>1, <2>2 DEF Holds
    <3>2. /\ Tail(locks[l]) \in Seq(Calls) /\ IsInjective(Tail(locks[l]))
          /\ \A d : (\E i \in DOMAIN Tail(locks[l]) : Tail(locks[l])[i] = d) <=>
                     (\E i \in DOMAIN locks[l] : locks[l][i] = d) /\ d # Head(locks[l])
      BY <2>1, <3>1, QueueShrinks
    <3>3. ASSUME NEW d PROVE In(d, l)' <=> In(d, l) /\ d # c
      <4>1. In(d, l)' <=> (\E i \in DOMAIN Tail(locks[l]) : Tail(locks[l])[i] = d)
        BY <3>1 DEF In
      <4>2. In(d, l) <=> (\E i \in DOMAIN locks[l] : locks[l][i] = d)
        BY DEF In
      <4>3. QED
        BY <3>1, <3>2, <4>1, <4>2
    <3>4. \A d : d # c => ~Holds(d, l)
      BY <3>1 DEF Holds
    <3>5. QED
      BY <3>1, <3>2, <3>3, <3>4
  <2>3. CASE ~Holds(c, l)
    <3>1. locks'[l] = locks[l] /\ ~In(c, l)
      BY <2>1, <2>3
    <3>2. QED
      BY <2>1, <3>1 DEF In, Holds
  <2>4. QED
    BY <2>2, <2>3
<1>3. QueuesTyped'
  BY <1>1, <1>2 DEF QueuesTyped
<1>4. ASSUME NEW d \in Calls PROVE Queued(d)'
  <2>1. CASE d = c
    BY <1>2, <2>1 DEF Queued, InFlight, Works
  <2>2. CASE d # c
    <3>1. Queued(d) /\ (InFlight(d) => LocksOf(call[d]) \subseteq Names)
      BY InFlightNamed DEF QueuesSound
    <3>2. QED
      BY <1>2, <2>2, <3>1, OthersStayQueued
  <2>3. QED
    BY <2>1, <2>2
<1>5. QED
  BY <1>3, <1>4 DEF QueuesSound

(* A call queues for its first lock, and for its last one holding the first. *)
LEMMA LocksJoined ==
  ASSUME QueuesSound, CallsSound, LifecycleTyped, NEW c \in Calls, NEW q, NEW l,
         LocksOf(q) \subseteq Names, l \in LocksOf(q), ~In(c, l), q.pc = "locking",
         locks' = [locks EXCEPT ![l] = Append(@, c)],
         call' = [call EXCEPT ![c] = q],
         \/ l = FirstLock(q) /\ \A m \in Names : ~In(c, m)
         \/ /\ l = LastLock(q) /\ LocksOf(q) = LocksOf(call[c])
            /\ InFlight(c) /\ Holds(c, FirstLock(q))
  PROVE  QueuesSound'
<1>0. l \in Names /\ DOMAIN locks = Names
  BY DEF QueuesSound, QueuesTyped
<1>1. call'[c] = q /\ \A d \in Calls : d # c => call'[d] = call[d]
  BY DEF LifecycleTyped
<1>2. /\ locks[l] \in Seq(Calls) /\ IsInjective(locks[l]) /\ locks'[l] = Append(locks[l], c)
      /\ \A m \in Names : m # l => locks'[m] = locks[m]
      /\ DOMAIN locks' = Names
      /\ \A m \in Names : locks[m] \in Seq(Calls) /\ IsInjective(locks[m])
      /\ locks' = [m \in Names |-> locks'[m]]
  BY <1>0 DEF QueuesSound, QueuesTyped
<1>3. /\ Append(locks[l], c) \in Seq(Calls) /\ IsInjective(Append(locks[l], c)) /\ Append(locks[l], c) # <<>>
      /\ \A d : (\E i \in DOMAIN Append(locks[l], c) : Append(locks[l], c)[i] = d) <=>
                  (\E i \in DOMAIN locks[l] : locks[l][i] = d) \/ d = c
      /\ Head(Append(locks[l], c)) = IF locks[l] = <<>> THEN c ELSE Head(locks[l])
  <2>1. ~\E i \in DOMAIN locks[l] : locks[l][i] = c
    BY DEF In
  <2>2. locks[l] \in Seq(Calls) /\ IsInjective(locks[l])
    BY <1>2
  <2>3. SUFFICES ASSUME NEW w \in Seq(Calls), IsInjective(w), ~\E i \in DOMAIN w : w[i] = c
        PROVE  /\ Append(w, c) \in Seq(Calls) /\ IsInjective(Append(w, c)) /\ Append(w, c) # <<>>
               /\ \A d : (\E i \in DOMAIN Append(w, c) : Append(w, c)[i] = d) <=>
                           (\E i \in DOMAIN w : w[i] = d) \/ d = c
               /\ Head(Append(w, c)) = IF w = <<>> THEN c ELSE Head(w)
    BY <2>1, <2>2
  <2>4. QED
    BY ZenonT(60), <2>3, QueueGrows
<1>4. QueuesTyped'
  <2>1. \A m \in Names : locks'[m] \in Seq(Calls) /\ IsInjective(locks'[m])
    BY <1>2, <1>3
  <2>2. QED
    BY <1>2, <2>1 DEF QueuesTyped
<1>5. \A m \in Names : \A d :
        /\ In(d, m)' <=> In(d, m) \/ (d = c /\ m = l)
        /\ Holds(d, m) => Holds(d, m)'
  <2>1. ASSUME NEW m \in Names, NEW d
        PROVE  /\ In(d, m)' <=> In(d, m) \/ (d = c /\ m = l)
               /\ Holds(d, m) => Holds(d, m)'
    <3>1. CASE m = l
      <4>1. In(d, l)' <=> In(d, l) \/ d = c
        BY <1>2, <1>3 DEF In
      <4>2. Holds(d, l) => Holds(d, l)'
        BY <1>2, <1>3 DEF Holds
      <4>3. QED
        BY <3>1, <4>1, <4>2
    <3>2. CASE m # l
      BY <1>2, <3>2 DEF In, Holds
    <3>3. QED
      BY <3>1, <3>2
  <2>2. QED
    BY <2>1
<1>6. Queued(c)'
  <2>1. /\ FirstLock(q) \in LocksOf(q) /\ LastLock(q) \in LocksOf(q)
        /\ LocksOf(q) = {FirstLock(q), LastLock(q)}
        /\ FirstLock(q) # LastLock(q) => Before(FirstLock(q), LastLock(q))
        /\ \A m \in LocksOf(q) : ~Before(m, FirstLock(q))
    BY LocksInOrder
  <2>2. \A m \in Names : In(c, m) => m \in LocksOf(q)
    BY DEF QueuesSound, Queued
  <2>3. In(c, FirstLock(q))'
    BY <1>5, <2>1, HoldersAreIn DEF QueuesSound
  <2>4. ASSUME NEW m \in LocksOf(q), \A n \in LocksOf(q) : ~Before(n, m)
        PROVE  m = FirstLock(q)
    BY <2>1, <2>4
  <2>5. ASSUME NEW m \in LocksOf(q), NEW n \in LocksOf(q), Before(m, n), In(c, n)'
        PROVE  Holds(c, m)'
    <3>1. m = FirstLock(q) /\ n = LastLock(q) /\ m # n
      BY <2>1, <2>5, NamesSorted
    <3>2. l = LastLock(q) => Holds(c, FirstLock(q)) \/ l = FirstLock(q)
      OBVIOUS
    <3>3. In(c, n) \/ n = l
      BY <1>5, <2>5
    <3>4. Holds(c, m)
      BY <1>5, <3>1, <3>3
    <3>5. QED
      BY <1>5, <3>4
  <2>6. QED
    BY <1>1, <1>5, <2>2, <2>3, <2>4, <2>5 DEF Queued, InFlight, Works
<1>7. ASSUME NEW d \in Calls, d # c PROVE Queued(d)'
  <2>1. Queued(d) /\ (InFlight(d) => LocksOf(call[d]) \subseteq Names) /\ call'[d] = call[d]
    BY <1>1, <1>7, InFlightNamed DEF QueuesSound
  <2>2. (\A m \in Names : In(d, m)' <=> In(d, m)) /\ (\A m \in Names : Holds(d, m) => Holds(d, m)')
    BY <1>5, <1>7
  <2>3. QED
    BY <1>7, <2>1, <2>2, OthersStayQueued
<1>8. QED
  BY <1>4, <1>6, <1>7 DEF QueuesSound

-------------------------------------------------------------------------------
(* What the events of the commands make of an aggregate.                   *)

(* An event of the commands, at the version that follows.                  *)
LEMMA EventsApplied ==
  ASSUME NEW st, NEW x
  PROVE  /\ Apply(st, [type |-> "session.created"]) =
                [[AbsentAggregate EXCEPT !.status = "preparing"] EXCEPT !.version = st.version + 1]
         /\ Apply(st, [type |-> "session.prepared"]) =
                [[st EXCEPT !.status = "ready"] EXCEPT !.version = st.version + 1]
         /\ Apply(st, [type |-> "disclosure.delivered", status |-> x]) =
                [[st EXCEPT !.disclosure = x] EXCEPT !.version = st.version + 1]
         /\ Apply(st, [type |-> "consent.recorded", status |-> x]) =
                [[st EXCEPT !.consent = x] EXCEPT !.version = st.version + 1]
         /\ Apply(st, [type |-> "session.activated", presenter |-> x]) =
                [[st EXCEPT !.status = "active", !.presenter = x, !.started = TRUE] EXCEPT !.version = st.version + 1]
         /\ Apply(st, [type |-> "session.completed"]) =
                [Closed(st, "completed", st.degradation) EXCEPT !.version = st.version + 1]
         /\ Apply(st, [type |-> "turn.interrupted"]) =
                [st EXCEPT !.version = st.version + 1]
<1>1. Apply(st, [type |-> "session.created"]) =
        [[AbsentAggregate EXCEPT !.status = "preparing"] EXCEPT !.version = st.version + 1]
  <2>1. SUFFICES ASSUME NEW ev, ev = [type |-> "session.created"]
        PROVE  Apply(st, ev) = [[AbsentAggregate EXCEPT !.status = "preparing"] EXCEPT !.version = st.version + 1]
    OBVIOUS
  <2>2. ev.type = "session.created"
    BY <2>1
  <2>3. Changed(st, ev) = [AbsentAggregate EXCEPT !.status = "preparing"]
    BY <2>2 DEF Changed
  <2>4. QED
    BY <2>3 DEF Apply, Reduce
<1>2. Apply(st, [type |-> "session.prepared"]) =
        [[st EXCEPT !.status = "ready"] EXCEPT !.version = st.version + 1]
  <2>1. SUFFICES ASSUME NEW ev, ev = [type |-> "session.prepared"]
        PROVE  Apply(st, ev) = [[st EXCEPT !.status = "ready"] EXCEPT !.version = st.version + 1]
    OBVIOUS
  <2>2. ev.type = "session.prepared"
    BY <2>1
  <2>3. Changed(st, ev) = [st EXCEPT !.status = "ready"]
    BY <2>2 DEF Changed
  <2>4. QED
    BY <2>3 DEF Apply, Reduce
<1>3. Apply(st, [type |-> "disclosure.delivered", status |-> x]) =
        [[st EXCEPT !.disclosure = x] EXCEPT !.version = st.version + 1]
  <2>1. SUFFICES ASSUME NEW ev, ev = [type |-> "disclosure.delivered", status |-> x]
        PROVE  Apply(st, ev) = [[st EXCEPT !.disclosure = x] EXCEPT !.version = st.version + 1]
    OBVIOUS
  <2>2. ev.type = "disclosure.delivered" /\ ev.status = x
    BY <2>1
  <2>3. Changed(st, ev) = [st EXCEPT !.disclosure = x]
    BY <2>2 DEF Changed
  <2>4. QED
    BY <2>3 DEF Apply, Reduce
<1>4. Apply(st, [type |-> "consent.recorded", status |-> x]) =
        [[st EXCEPT !.consent = x] EXCEPT !.version = st.version + 1]
  <2>1. SUFFICES ASSUME NEW ev, ev = [type |-> "consent.recorded", status |-> x]
        PROVE  Apply(st, ev) = [[st EXCEPT !.consent = x] EXCEPT !.version = st.version + 1]
    OBVIOUS
  <2>2. ev.type = "consent.recorded" /\ ev.status = x
    BY <2>1
  <2>3. Changed(st, ev) = [st EXCEPT !.consent = x]
    BY <2>2 DEF Changed
  <2>4. QED
    BY <2>3 DEF Apply, Reduce
<1>5. Apply(st, [type |-> "session.activated", presenter |-> x]) =
        [[st EXCEPT !.status = "active", !.presenter = x, !.started = TRUE] EXCEPT !.version = st.version + 1]
  <2>1. SUFFICES ASSUME NEW ev, ev = [type |-> "session.activated", presenter |-> x]
        PROVE  Apply(st, ev) = [[st EXCEPT !.status = "active", !.presenter = x, !.started = TRUE] EXCEPT !.version = st.version + 1]
    OBVIOUS
  <2>2. ev.type = "session.activated" /\ ev.presenter = x
    BY <2>1
  <2>3. Changed(st, ev) = [st EXCEPT !.status = "active", !.presenter = x, !.started = TRUE]
    BY <2>2 DEF Changed
  <2>4. QED
    BY <2>3 DEF Apply, Reduce
<1>6. Apply(st, [type |-> "session.completed"]) =
        [Closed(st, "completed", st.degradation) EXCEPT !.version = st.version + 1]
  <2>1. SUFFICES ASSUME NEW ev, ev = [type |-> "session.completed"]
        PROVE  Apply(st, ev) = [Closed(st, "completed", st.degradation) EXCEPT !.version = st.version + 1]
    OBVIOUS
  <2>2. ev.type = "session.completed"
    BY <2>1
  <2>3. Changed(st, ev) = Closed(st, "completed", st.degradation)
    BY <2>2 DEF Changed
  <2>4. QED
    BY <2>3 DEF Apply, Reduce
<1>7. Apply(st, [type |-> "turn.interrupted"]) =
        [st EXCEPT !.version = st.version + 1]
  <2>1. SUFFICES ASSUME NEW ev, ev = [type |-> "turn.interrupted"]
        PROVE  Apply(st, ev) = [st EXCEPT !.version = st.version + 1]
    OBVIOUS
  <2>2. ev.type = "turn.interrupted"
    BY <2>1
  <2>3. Changed(st, ev) = st
    BY <2>2 DEF Changed
  <2>4. QED
    BY <2>3 DEF Apply, Reduce
<1>8. QED
  BY <1>1, <1>2, <1>3, <1>4, <1>5, <1>6, <1>7

LEMMA AbsentIsTyped == AbsentAggregate \in AggregateState /\ AbsentAggregate.status = "absent"
BY DEF AbsentAggregate, AggregateState, Statuses, Consents, Disclosures, Degradations

LEMMA CreationIsWhole ==
  ASSUME NEW consent \in ConsentPolicies
  PROVE  /\ Whole(Created(AbsentAggregate, consent))
         /\ Created(AbsentAggregate, consent).status = "ready"
<1> DEFINE Stage(st, status, disclosure, version) ==
             /\ st \in AggregateState /\ st.presenter = NoPresenter
             /\ st.status = status /\ st.disclosure = disclosure /\ st.version = version
<1>1. AbsentAggregate \in AggregateState /\ consent \in Consents /\ consent # "pending"
  BY LifecycleAssumption, AbsentIsTyped
<1>2. ASSUME NEW st, st = AbsentAggregate
      PROVE  LET after == Apply(st, [type |-> "session.created"])
             IN  Stage(after, "preparing", "pending", 1)
  <2>1. PICK after : after = Apply(st, [type |-> "session.created"])
    OBVIOUS
  <2>2. after = [[AbsentAggregate EXCEPT !.status = "preparing"] EXCEPT !.version = st.version + 1]
    BY <2>1, EventsApplied
  <2>3. [type |-> "session.created"] \in Event /\ st \in AggregateState /\ st.version + 1 \in Nat
    BY <1>1, <1>2 DEF Event, PlainTypes, AggregateState
  <2>4. after \in AggregateState
    BY <2>1, <2>3, ReduceType DEF Apply
  <2>5. Stage(after, "preparing", "pending", 1)
    BY <1>1, <1>2, <2>2, <2>3, <2>4 DEF AggregateState, AbsentAggregate
  <2>6. QED
    BY <2>1, <2>5
<1>3. ASSUME NEW st, Stage(st, "preparing", "pending", 1)
      PROVE  LET after == Apply(st, [type |-> "session.prepared"])
             IN  Stage(after, "ready", "pending", 2)
  <2>1. PICK after : after = Apply(st, [type |-> "session.prepared"])
    OBVIOUS
  <2>2. after = [[st EXCEPT !.status = "ready"] EXCEPT !.version = st.version + 1]
    BY <2>1, EventsApplied
  <2>3. [type |-> "session.prepared"] \in Event /\ st \in AggregateState /\ st.version + 1 \in Nat
    BY <1>1, <1>3 DEF Event, PlainTypes, AggregateState
  <2>4. after \in AggregateState
    BY <2>1, <2>3, ReduceType DEF Apply
  <2>5. Stage(after, "ready", "pending", 2)
    BY <1>1, <1>3, <2>2, <2>3, <2>4 DEF AggregateState, AbsentAggregate
  <2>6. QED
    BY <2>1, <2>5
<1>4. ASSUME NEW st, Stage(st, "ready", "pending", 2)
      PROVE  LET after == Apply(st, [type |-> "disclosure.delivered", status |-> "delivered"])
             IN  Stage(after, "ready", "delivered", 3)
  <2>1. PICK after : after = Apply(st, [type |-> "disclosure.delivered", status |-> "delivered"])
    OBVIOUS
  <2>2. after = [[st EXCEPT !.disclosure = "delivered"] EXCEPT !.version = st.version + 1]
    BY <2>1, EventsApplied
  <2>3. [type |-> "disclosure.delivered", status |-> "delivered"] \in Event /\ st \in AggregateState /\ st.version + 1 \in Nat
    BY <1>1, <1>4 DEF Event, PlainTypes, AggregateState
  <2>4. after \in AggregateState
    BY <2>1, <2>3, ReduceType DEF Apply
  <2>5. Stage(after, "ready", "delivered", 3)
    BY <1>1, <1>4, <2>2, <2>3, <2>4 DEF AggregateState, AbsentAggregate
  <2>6. QED
    BY <2>1, <2>5
<1>5. ASSUME NEW st, Stage(st, "ready", "delivered", 3)
      PROVE  LET after == Apply(st, [type |-> "consent.recorded", status |-> consent])
             IN  Stage(after, "ready", "delivered", 4) /\ after.consent = consent
  <2>1. PICK after : after = Apply(st, [type |-> "consent.recorded", status |-> consent])
    OBVIOUS
  <2>2. after = [[st EXCEPT !.consent = consent] EXCEPT !.version = st.version + 1]
    BY <2>1, EventsApplied
  <2>3. [type |-> "consent.recorded", status |-> consent] \in Event /\ st \in AggregateState /\ st.version + 1 \in Nat
    BY <1>1, <1>5 DEF Event, PlainTypes, AggregateState
  <2>4. after \in AggregateState
    BY <2>1, <2>3, ReduceType DEF Apply
  <2>5. Stage(after, "ready", "delivered", 4) /\ after.consent = consent
    BY <1>1, <1>5, <2>2, <2>3, <2>4 DEF AggregateState, AbsentAggregate
  <2>6. QED
    BY <2>1, <2>5
<1>6. /\ Stage(Created(AbsentAggregate, consent), "ready", "delivered", 4)
      /\ Created(AbsentAggregate, consent).consent = consent
  BY <1>2, <1>3, <1>4, <1>5 DEF Created
<1>7. QED
  BY <1>1, <1>6 DEF Whole, Consistent, Disclosed, OnStage

LEMMA ActivationIsWhole ==
  ASSUME NEW st, Whole(st), st.status = "ready", ConsentAllowed(st), NEW presenter \in Presenters
  PROVE  LET after == Apply(st, [type |-> "session.activated", presenter |-> presenter])
         IN  Whole(after) /\ after.version \in Nat /\ after \in AggregateState
<1>1. /\ st \in AggregateState /\ Disclosed(st) /\ st.version \in Nat /\ st.version + 1 \in Nat
      /\ st.consent # "pending"
  BY DEF Whole, Consistent, AggregateState
<1>2. PICK after : after = Apply(st, [type |-> "session.activated", presenter |-> presenter])
  OBVIOUS
<1>3. after = [[st EXCEPT !.status = "active", !.presenter = presenter, !.started = TRUE]
                 EXCEPT !.version = st.version + 1]
  BY <1>2, EventsApplied
<1>4. presenter # NoPresenter
  BY PresentersAssumption
<1>5. [type |-> "session.activated", presenter |-> presenter] \in Event
  BY DEF Event
<1>6. after \in AggregateState
  BY <1>1, <1>2, <1>5, ReduceType DEF Apply
<1>7. /\ after.status = "active" /\ after.presenter = presenter /\ after.started = TRUE
      /\ after.version = st.version + 1 /\ after.consent = st.consent
      /\ after.disclosure = st.disclosure
  BY <1>1, <1>3 DEF AggregateState
<1>8. QED
  BY <1>1, <1>2, <1>4, <1>6, <1>7 DEF Whole, Consistent, Disclosed, OnStage, ConsentAllowed

LEMMA CompletionIsWhole ==
  ASSUME NEW st, Whole(st)
  PROVE  LET after == Apply(st, [type |-> "session.completed"])
         IN  Whole(after) /\ after.version \in Nat /\ after \in AggregateState
             /\ after.status = "completed"
<1>1. /\ st \in AggregateState /\ Disclosed(st) /\ st.version \in Nat /\ st.version + 1 \in Nat
      /\ st.consent # "pending"
  BY DEF Whole, Consistent, AggregateState
<1>2. PICK after : after = Apply(st, [type |-> "session.completed"])
  OBVIOUS
<1>3. after = [Closed(st, "completed", st.degradation) EXCEPT !.version = st.version + 1]
  BY <1>2, EventsApplied
<1>4. [type |-> "session.completed"] \in Event
  BY DEF Event, PlainTypes
<1>5. after \in AggregateState
  BY <1>1, <1>2, <1>4, ReduceType DEF Apply
<1>6. /\ after.status = "completed" /\ after.presenter = NoPresenter
      /\ after.version = st.version + 1 /\ after.consent = st.consent
      /\ after.disclosure = st.disclosure
  BY <1>1, <1>3 DEF AggregateState, Closed
<1>7. QED
  BY <1>1, <1>2, <1>5, <1>6 DEF Whole, Consistent, Disclosed, OnStage

LEMMA InterruptionIsWhole ==
  ASSUME NEW st, Whole(st)
  PROVE  LET after == Apply(st, [type |-> "turn.interrupted"])
         IN  Whole(after) /\ after \in AggregateState /\ after.status = st.status
<1>1. st \in AggregateState /\ Disclosed(st)
  BY DEF Whole, Consistent
<1>2. Apply(st, [type |-> "turn.interrupted"]) = [st EXCEPT !.version = st.version + 1]
  BY EventsApplied
<1>3. QED
  BY <1>1, <1>2 DEF Whole, Consistent, Disclosed, OnStage, ConsentAllowed, AggregateState

-------------------------------------------------------------------------------
(* What a step of one call leaves as it was.                               *)

LEMMA TypesStay ==
  ASSUME LifecycleTyped, NEW c \in Calls, NEW q \in CallState,
         call' = [call EXCEPT ![c] = q], ledger' \in [Keys -> Result],
         evidence' \subseteq Sessions, counted' \in [Calls -> SUBSET Keys],
         counter' \in Calls \cup {NoCall}, aggregate' \in [Sessions -> AggregateState]
  PROVE  LifecycleTyped'
BY DEF LifecycleTyped

LEMMA CallsStay ==
  ASSUME CallsSound, LifecycleTyped, NEW c \in Calls, NEW q,
         call' = [call EXCEPT ![c] = q], ledger' = ledger, Carries(q), AnswerKept(q)
  PROVE  CallsSound'
<1>1. call'[c] = q /\ \A d \in Calls : d # c => call'[d] = call[d]
  BY DEF LifecycleTyped
<1>2. \A d \in Calls : Carries(call'[d])
  BY <1>1 DEF CallsSound
<1>3. \A d \in Calls : AnswerKept(call'[d])
  BY <1>1 DEF CallsSound
<1>4. QED
  BY <1>2, <1>3 DEF CallsSound, AnswerKept, Carries

LEMMA MintedStay ==
  ASSUME LifecycleTyped, NEW c \in Calls, NEW q, call' = [call EXCEPT ![c] = q],
         call[c].command.op = "create" /\ call[c].session \in Sessions =>
           q.command.op = "create" /\ q.session = call[c].session
  PROVE  \A s \in Sessions : IsMinted(s) => IsMinted(s)'
<1>1. call'[c] = q /\ \A d \in Calls : d # c => call'[d] = call[d]
  BY DEF LifecycleTyped
<1>2. QED
  BY <1>1 DEF IsMinted

(* What becomes of a call takes no session from it, and none from another. *)
TakesNoSession(c, q) ==
  /\ call[c].command.op = "create" /\ call[c].session \in Sessions =>
       q.command.op = "create" /\ q.session = call[c].session
  /\ q.pc = "delivering" => call[c].pc = "delivering" /\ q.session = call[c].session
  /\ \A d \in Calls : d # c /\ call[d].pc = "delivering" /\ q.command.op = "create" =>
       q.session # call[d].session

LEMMA SessionsStay ==
  ASSUME SessionsSound, CallsSound, LifecycleTyped, NEW c \in Calls, NEW q,
         call' = [call EXCEPT ![c] = q], aggregate' = aggregate, ledger' = ledger,
         TakesNoSession(c, q)
  PROVE  SessionsSound'
<1>1. call'[c] = q /\ \A d \in Calls : d # c => call'[d] = call[d]
  BY DEF LifecycleTyped
<1>2. \A s \in Sessions : IsMinted(s) => IsMinted(s)'
  BY MintedStay DEF TakesNoSession
<1>3. \A s \in Sessions : aggregate'[s] = AbsentAggregate \/ (Whole(aggregate'[s]) /\ IsMinted(s)')
  BY <1>2 DEF SessionsSound
<1>4. ASSUME NEW k \in Keys, ledger[k] # NoResult
      PROVE  /\ ledger[k].command \in Command
             /\ ledger[k].command.op = "create" =>
                  ledger[k].session \in Sessions /\ IsMinted(ledger[k].session)'
  BY <1>2, <1>4 DEF SessionsSound
<1>5. ASSUME NEW d \in Calls, call'[d].pc = "delivering" PROVE Fresh(d)'
  <2>1. call[d].pc = "delivering" /\ call'[d].session = call[d].session /\ Fresh(d)
    BY <1>1, <1>5 DEF SessionsSound, TakesNoSession
  <2>2. ASSUME NEW e \in Calls, e # d, call'[e].command.op = "create"
        PROVE  call'[e].session # call[d].session
    BY <1>1, <2>1, <2>2 DEF Fresh, TakesNoSession
  <2>3. QED
    BY <2>1, <2>2 DEF Fresh
<1>6. QED
  BY <1>3, <1>4, <1>5 DEF SessionsSound

-------------------------------------------------------------------------------
(* Each step keeps the invariant.                                          *)

LEMMA ReceiveKeeps ==
  ASSUME LifecycleInv, NEW c \in Calls, NEW cmd \in Command, Receive(c, cmd)
  PROVE  LifecycleInv'
<1>1. /\ call[c] \in CallState /\ call[c].pc = "new" /\ call[c].command.op = "none"
      /\ call[c].version = 0 /\ Carries(call[c])
  BY DEF LifecycleInv, LifecycleTyped, CallsSound, Carries, Receive
<1>2. PICK request : request = [call[c] EXCEPT !.command = cmd,
                        !.session = IF cmd.op = "create" THEN NoSession ELSE cmd.session]
  OBVIOUS
<1>3. /\ request \in CallState /\ request.command = cmd /\ request.version = 0
      /\ request.key = call[c].key
      /\ cmd.op = "create" => request.session = NoSession
      /\ cmd.op # "create" => request.session = cmd.session /\ cmd.session \in Sessions
  BY ZenonT(60), <1>1, <1>2 DEF CallState, Command, Commands
<1>4. PICK l : l = FirstLock(request)
  OBVIOUS
<1>5. LocksOf(request) \subseteq Names /\ l \in LocksOf(request)
  BY <1>3, <1>4, LocksNamed, LocksInOrder
<1>6. PICK q : q = [request EXCEPT !.pc = IF LockRefused(l) THEN "done" ELSE "locking"]
  OBVIOUS
<1>7. /\ call' = [call EXCEPT ![c] = q]
      /\ locks' = IF LockRefused(l) THEN Released(c) ELSE [locks EXCEPT ![l] = Append(@, c)]
      /\ UNCHANGED <<aggregate, store>>
  BY <1>2, <1>4, <1>6 DEF Receive, AcquireLock
<1>8. /\ q \in CallState /\ q.command = cmd /\ q.version = 0 /\ q.key = request.key
      /\ q.session = request.session
      /\ q.pc = IF LockRefused(l) THEN "done" ELSE "locking"
  BY <1>3, <1>6 DEF CallState
<1>9. LifecycleTyped'
  BY <1>7, <1>8, TypesStay DEF LifecycleInv, LifecycleTyped, store
<1>10. CallsSound'
  <2>1. Carries(q) /\ AnswerKept(q)
    BY <1>3, <1>8 DEF Carries, AnswerKept, Works
  <2>2. QED
    BY <1>7, <2>1, CallsStay DEF LifecycleInv, store
<1>11. SessionsSound'
  <2>1. \A d \in Calls : call[d].pc = "delivering" => call[d].session \in Sessions
    BY DEF LifecycleInv, CallsSound, Carries
  <2>2. \A d \in Calls : d # c /\ call[d].pc = "delivering" /\ q.command.op = "create" =>
          q.session # call[d].session
    BY <1>3, <1>8, <2>1, LifecycleAssumption
  <2>3. q.pc # "delivering"
    BY <1>8
  <2>4. QED
    <3>1. aggregate' = aggregate /\ ledger' = ledger /\ call' = [call EXCEPT ![c] = q]
      BY <1>7 DEF store
    <3>2. SessionsSound /\ CallsSound /\ LifecycleTyped /\ call[c].command.op # "create"
      BY <1>1 DEF LifecycleInv
    <3>3. TakesNoSession(c, q)
      BY <2>2, <2>3, <3>2 DEF TakesNoSession
    <3>4. QED
      BY <3>1, <3>2, <3>3, SessionsStay
<1>12. QueuesSound'
  <2>1. \A m \in Names : ~In(c, m)
    BY <1>1 DEF LifecycleInv, QueuesSound, Queued, InFlight
  <2>2. call'[c] = q /\ \A d \in Calls : d # c => call'[d] = call[d]
    BY <1>7 DEF LifecycleInv, LifecycleTyped
  <2>3. CASE LockRefused(l)
    BY <1>7, <1>8, <2>1, <2>2, <2>3, LocksLeft DEF LifecycleInv
  <2>4. CASE ~LockRefused(l)
    <3>1. LocksOf(q) = LocksOf(request)
      BY <1>3, <1>8 DEF LocksOf
    <3>2. l = FirstLock(q)
      BY <1>4, <3>1 DEF FirstLock
    <3>3. q.pc = "locking" /\ locks' = [locks EXCEPT ![l] = Append(@, c)]
      BY <1>7, <1>8, <2>4
    <3>4. ~In(c, l)
      BY <1>5, <2>1
    <3>5. QED
      BY <1>5, <1>7, <2>1, <3>1, <3>2, <3>3, <3>4, LocksJoined DEF LifecycleInv
  <2>5. QED
    BY <2>3, <2>4
<1>13. QED
  BY <1>9, <1>10, <1>11, <1>12 DEF LifecycleInv

LEMMA TakeLastLockKeeps ==
  ASSUME LifecycleInv, NEW c \in Calls, TakeLastLock(c)
  PROVE  LifecycleInv'
<1>1. /\ call[c] \in CallState /\ call[c].pc = "locking" /\ InFlight(c)
      /\ call[c].version = 0 /\ Carries(call[c])
  BY DEF LifecycleInv, LifecycleTyped, CallsSound, Carries, TakeLastLock, InFlight
<1>2. PICK l : l = LastLock(call[c])
  OBVIOUS
<1>3. /\ LocksOf(call[c]) \subseteq Names /\ l \in LocksOf(call[c])
      /\ LocksOf(call[c]) = {FirstLock(call[c]), l}
  BY <1>1, <1>2, InFlightNamed, LocksInOrder DEF LifecycleInv
<1>4. PICK q : q = [call[c] EXCEPT !.pc = IF LockRefused(l) THEN "done" ELSE "locking"]
  OBVIOUS
<1>5. /\ call' = [call EXCEPT ![c] = q]
      /\ locks' = IF LockRefused(l) THEN Released(c) ELSE [locks EXCEPT ![l] = Append(@, c)]
      /\ UNCHANGED <<aggregate, store>>
      /\ Holds(c, FirstLock(call[c])) /\ ~Contains(locks[l], c)
  BY <1>2, <1>4 DEF TakeLastLock, AcquireLock
<1>6. ~In(c, l)
  BY <1>3, <1>5, HoldersAreIn DEF LifecycleInv, QueuesSound
<1>7. /\ q \in CallState /\ q.command = call[c].command /\ q.version = 0 /\ q.key = call[c].key
      /\ q.session = call[c].session
      /\ q.pc = IF LockRefused(l) THEN "done" ELSE "locking"
  BY <1>1, <1>4 DEF CallState
<1>8. LifecycleTyped'
  BY <1>5, <1>7, TypesStay DEF LifecycleInv, LifecycleTyped, store
<1>9. CallsSound'
  <2>1. Carries(q) /\ AnswerKept(q)
    BY <1>1, <1>7 DEF Carries, AnswerKept, Works
  <2>2. QED
    BY <1>5, <2>1, CallsStay DEF LifecycleInv, store
<1>10. SessionsSound'
  <2>1. \A d \in Calls : call[d].pc = "delivering" => call[d].session \in Sessions
    BY DEF LifecycleInv, CallsSound, Carries
  <2>2. \A d \in Calls : d # c /\ call[d].pc = "delivering" /\ q.command.op = "create" =>
          q.session # call[d].session
    BY <1>1, <1>7, <2>1, LifecycleAssumption DEF Carries
  <2>3. q.pc # "delivering"
    BY <1>7
  <2>4. QED
    <3>1. aggregate' = aggregate /\ ledger' = ledger /\ call' = [call EXCEPT ![c] = q]
      BY <1>5 DEF store
    <3>2. SessionsSound /\ CallsSound /\ LifecycleTyped
      BY DEF LifecycleInv
    <3>3. q.command = call[c].command /\ q.session = call[c].session
      BY <1>7
    <3>4. TakesNoSession(c, q)
      BY <2>2, <2>3, <3>3 DEF TakesNoSession
    <3>5. QED
      BY <3>1, <3>2, <3>4, SessionsStay
<1>11. QueuesSound'
  <2>1. call'[c] = q /\ \A d \in Calls : d # c => call'[d] = call[d]
    BY <1>5 DEF LifecycleInv, LifecycleTyped
  <2>2. CASE LockRefused(l)
    <3>1. \A m \in Names : In(c, m) => Holds(c, m)
      BY <1>3, <1>5, <1>6 DEF LifecycleInv, QueuesSound, Queued
    <3>2. QED
      BY <1>5, <1>7, <2>1, <2>2, <3>1, LocksLeft DEF LifecycleInv
  <2>3. CASE ~LockRefused(l)
    <3>1. LocksOf(q) = LocksOf(call[c])
      BY <1>7 DEF LocksOf
    <3>2. l = LastLock(q) /\ FirstLock(q) = FirstLock(call[c])
      BY <1>2, <3>1 DEF FirstLock, LastLock
    <3>3. q.pc = "locking" /\ locks' = [locks EXCEPT ![l] = Append(@, c)]
      BY <1>5, <1>7, <2>3
    <3>4. QED
      BY <1>1, <1>3, <1>5, <1>6, <3>1, <3>2, <3>3, LocksJoined DEF LifecycleInv
  <2>4. QED
    BY <2>2, <2>3
<1>12. QED
  BY <1>8, <1>9, <1>10, <1>11 DEF LifecycleInv

(* A call that holds all its locks may end.                                *)
LEMMA AllHeldLeft ==
  ASSUME LifecycleInv, NEW c \in Calls, NEW q, InFlight(c),
         \A l \in LocksOf(call[c]) : Holds(c, l),
         call' = [call EXCEPT ![c] = q], q.pc = "done", locks' = Released(c)
  PROVE  QueuesSound'
<1>1. \A l \in Names : In(c, l) => Holds(c, l)
  BY DEF LifecycleInv, QueuesSound, Queued
<1>2. call'[c] = q /\ \A d \in Calls : d # c => call'[d] = call[d]
  BY DEF LifecycleInv, LifecycleTyped
<1>3. QED
  BY <1>1, <1>2, LocksLeft DEF LifecycleInv

LEMMA HolderFacts ==
  ASSUME LifecycleInv, NEW c \in Calls, HoldsItsLocks(c)
  PROVE  /\ InFlight(c) /\ call[c].pc = "locking" /\ call[c] \in CallState
         /\ call[c].version = 0 /\ Carries(call[c]) /\ call[c].command \in Command
         /\ \A l \in LocksOf(call[c]) : Holds(c, l)
<1>1. InFlight(c) /\ call[c].pc = "locking" /\ Holds(c, LastLock(call[c]))
  BY DEF HoldsItsLocks, InFlight
<1>2. call[c] \in CallState /\ Carries(call[c])
  BY DEF LifecycleInv, LifecycleTyped, CallsSound
<1>3. call[c].version = 0 /\ call[c].command \in Command
  BY <1>1, <1>2 DEF Carries
<1>4. QED
  BY <1>1, <1>2, <1>3, LastHoldsAll DEF LifecycleInv

LEMMA WorkerFacts ==
  ASSUME LifecycleInv, NEW c \in Calls, call[c].pc \in Works
  PROVE  /\ InFlight(c) /\ call[c] \in CallState /\ Carries(call[c])
         /\ call[c].command \in Command /\ call[c].counter # NoCall
         /\ ledger[call[c].key] = NoResult
         /\ \A l \in LocksOf(call[c]) : Holds(c, l)
BY DEF LifecycleInv, LifecycleTyped, CallsSound, QueuesSound, Queued, Carries, AnswerKept,
   Works, InFlight

LEMMA EndKeeps ==
  ASSUME LifecycleInv, NEW c \in Calls, NEW q \in CallState, InFlight(c),
         \A l \in LocksOf(call[c]) : Holds(c, l), call' = [call EXCEPT ![c] = q],
         q.pc = "done", q.command \in Command, locks' = Released(c), aggregate' = aggregate,
         ledger' = ledger, evidence' \subseteq Sessions, counted' = counted,
         counter' = counter, AnswerKept(q), TakesNoSession(c, q)
  PROVE  LifecycleInv'
<1>1. LifecycleTyped'
  BY TypesStay DEF LifecycleInv, LifecycleTyped
<1>2. Carries(q)
  BY DEF Carries, Works
<1>3. CallsSound'
  BY <1>2, CallsStay DEF LifecycleInv
<1>4. SessionsSound'
  BY SessionsStay DEF LifecycleInv
<1>5. QueuesSound'
  BY AllHeldLeft
<1>6. QED
  BY <1>1, <1>3, <1>4, <1>5 DEF LifecycleInv

(* A call that keeps its command and its session takes no session.         *)
LEMMA SameTakesNone ==
  ASSUME LifecycleInv, NEW c \in Calls, NEW q, q.command = call[c].command,
         q.session = call[c].session, q.pc = "delivering" => call[c].pc = "delivering"
  PROVE  TakesNoSession(c, q)
<1>1. ASSUME NEW d \in Calls, d # c, call[d].pc = "delivering", q.command.op = "create"
      PROVE  q.session # call[d].session
  <2>1. Fresh(d)
    BY <1>1 DEF LifecycleInv, SessionsSound
  <2>2. QED
    BY <1>1, <2>1 DEF Fresh
<1>2. QED
  BY <1>1 DEF TakesNoSession

LEMMA DeclineKeeps ==
  ASSUME LifecycleInv, NEW c \in Calls, Decline(c)
  PROVE  LifecycleInv'
<1>1. /\ InFlight(c) /\ call[c] \in CallState /\ call[c].version = 0
      /\ call[c].command \in Command /\ \A l \in LocksOf(call[c]) : Holds(c, l)
  BY HolderFacts DEF Decline
<1>2. PICK q : q = [call[c] EXCEPT !.pc = "done"]
  OBVIOUS
<1>3. /\ q \in CallState /\ q.pc = "done" /\ q.command = call[c].command
      /\ q.session = call[c].session /\ q.version = 0
  BY <1>1, <1>2 DEF CallState
<1>4. /\ call' = [call EXCEPT ![c] = q] /\ locks' = Released(c) /\ aggregate' = aggregate
      /\ ledger' = ledger /\ evidence' = evidence /\ counted' = counted /\ counter' = counter
  BY <1>2 DEF Decline, Return, store
<1>5. evidence' \subseteq Sessions /\ AnswerKept(q) /\ TakesNoSession(c, q)
  BY <1>3, <1>4, SameTakesNone DEF LifecycleInv, LifecycleTyped, AnswerKept, Works
<1>6. QED
  BY <1>1, <1>3, <1>4, <1>5, EndKeeps

LEMMA RollbackKeeps ==
  ASSUME LifecycleInv, NEW c \in Calls, Rollback(c)
  PROVE  LifecycleInv'
<1>1. call[c].pc \in Works /\ call[c].pc = "failing"
  BY DEF Rollback, Works
<1>2. /\ InFlight(c) /\ call[c] \in CallState /\ call[c].version = 0
      /\ call[c].command \in Command /\ \A l \in LocksOf(call[c]) : Holds(c, l)
  BY <1>1, WorkerFacts DEF Carries
<1>3. PICK q : q = [call[c] EXCEPT !.pc = "done"]
  OBVIOUS
<1>4. /\ q \in CallState /\ q.pc = "done" /\ q.command = call[c].command
      /\ q.session = call[c].session /\ q.version = 0
  BY <1>2, <1>3 DEF CallState
<1>5. /\ call' = [call EXCEPT ![c] = q] /\ locks' = Released(c) /\ aggregate' = aggregate
      /\ ledger' = ledger /\ evidence' = call[c].snapshot /\ counted' = counted /\ counter' = counter
  BY <1>3 DEF Rollback, Return
<1>6. evidence' \subseteq Sessions /\ AnswerKept(q) /\ TakesNoSession(c, q)
  BY <1>2, <1>4, <1>5, SameTakesNone DEF CallState, AnswerKept, Works
<1>7. QED
  BY <1>2, <1>4, <1>5, <1>6, EndKeeps

LEMMA ReplayKeeps ==
  ASSUME LifecycleInv, NEW c \in Calls, Replay(c)
  PROVE  LifecycleInv'
<1>1. /\ InFlight(c) /\ call[c] \in CallState /\ call[c].pc = "locking" /\ Carries(call[c])
      /\ call[c].command \in Command /\ \A l \in LocksOf(call[c]) : Holds(c, l)
  BY HolderFacts DEF Replay
<1>2. PICK first : first = ledger[call[c].key]
  OBVIOUS
<1>3. first \in Result /\ first # NoResult /\ first.command = call[c].command
  BY <1>1, <1>2 DEF LifecycleInv, LifecycleTyped, Replay, Answered, CallState
<1>4. PICK q : q = [call[c] EXCEPT !.pc = "done", !.session = first.session,
                                   !.version = first.version]
  OBVIOUS
<1>5. /\ q \in CallState /\ q.pc = "done" /\ q.command = call[c].command /\ q.key = call[c].key
      /\ q.session = first.session /\ q.version = first.version
  BY <1>1, <1>3, <1>4 DEF CallState, Result
<1>6. /\ call' = [call EXCEPT ![c] = q] /\ locks' = Released(c) /\ aggregate' = aggregate
      /\ ledger' = ledger /\ evidence' = evidence /\ counted' = counted /\ counter' = counter
  BY <1>2, <1>4 DEF Replay, store
<1>7. AnswerKept(q)
  <2>1. first = [command |-> first.command, session |-> first.session, version |-> first.version]
    BY <1>3 DEF Result
  <2>2. QED
    BY <1>2, <1>3, <1>5, <2>1 DEF AnswerKept, Works
<1>8. TakesNoSession(c, q)
  <2>1. ASSUME NEW d \in Calls, d # c, call[d].pc = "delivering", q.command.op = "create"
        PROVE  q.session # call[d].session
    <3>1. Fresh(d) /\ call[c].key \in Keys
      BY <1>1, <2>1 DEF LifecycleInv, SessionsSound, CallState
    <3>2. QED
      BY <1>2, <1>3, <1>5, <2>1, <3>1 DEF Fresh
  <2>2. ~(call[c].command.op = "create" /\ call[c].session \in Sessions)
    BY <1>1, LifecycleAssumption DEF Carries
  <2>3. QED
    BY <1>5, <2>1, <2>2 DEF TakesNoSession
<1>9. evidence' \subseteq Sessions
  BY <1>6 DEF LifecycleInv, LifecycleTyped
<1>10. QED
  BY <1>1, <1>5, <1>6, <1>7, <1>8, <1>9, EndKeeps

LEMMA FinishKeeps ==
  ASSUME LifecycleInv, NEW c \in Calls, Finish(c)
  PROVE  LifecycleInv'
<1>1. call[c].pc \in Works /\ call[c].pc = "committed"
  BY DEF Finish, Works
<1>2. /\ InFlight(c) /\ call[c] \in CallState /\ call[c].command \in Command
      /\ call[c].counter \in Calls /\ call[c].session \in Sessions
      /\ ledger[call[c].key] = NoResult /\ \A l \in LocksOf(call[c]) : Holds(c, l)
  BY <1>1, WorkerFacts DEF Carries, CallState
<1>3. PICK q : q = [call[c] EXCEPT !.pc = "done"]
  OBVIOUS
<1>4. PICK k : k = call[c].key
  OBVIOUS
<1>5. PICK answer : answer = [command |-> call[c].command, session |-> call[c].session,
                              version |-> call[c].version]
  OBVIOUS
<1>6. /\ q \in CallState /\ q.pc = "done" /\ q.command = call[c].command /\ q.key = k
      /\ q.session = call[c].session /\ q.version = call[c].version
      /\ k \in Keys /\ answer \in Result
  BY <1>2, <1>3, <1>4, <1>5 DEF CallState, Result
<1>7. /\ call' = [call EXCEPT ![c] = q] /\ locks' = Released(c) /\ aggregate' = aggregate
      /\ ledger' = [ledger EXCEPT ![k] = answer] /\ evidence' = evidence
      /\ counted' = [counted EXCEPT ![call[c].counter] = @ \cup {k}]
      /\ counter' = call[c].counter
  BY <1>3, <1>4, <1>5 DEF Finish, Return
<1>8. /\ call'[c] = q /\ \A d \in Calls : d # c => call'[d] = call[d]
      /\ ledger'[k] = answer /\ \A m \in Keys : m # k => ledger'[m] = ledger[m]
  BY <1>6, <1>7 DEF LifecycleInv, LifecycleTyped
<1>9. LifecycleTyped'
  <2>1. ledger' \in [Keys -> Result] /\ counted' \in [Calls -> SUBSET Keys]
    BY <1>6, <1>7 DEF LifecycleInv, LifecycleTyped
  <2>2. /\ evidence' \subseteq Sessions /\ counter' \in Calls \cup {NoCall}
        /\ aggregate' \in [Sessions -> AggregateState] /\ LifecycleTyped
    BY <1>2, <1>7 DEF LifecycleInv, LifecycleTyped
  <2>3. QED
    BY <1>6, <1>7, <2>1, <2>2, TypesStay
<1>10. CallsSound'
  <2>1. Carries(q)
    BY <1>2, <1>6 DEF Carries, Works
  <2>2. AnswerKept(q)'
    BY <1>5, <1>6, <1>8 DEF AnswerKept, Works
  <2>3. ASSUME NEW d \in Calls, d # c PROVE AnswerKept(call[d])'
    <3>1. call'[d] = call[d] /\ AnswerKept(call[d]) /\ call[d].key \in Keys
      BY <1>8, <2>3 DEF LifecycleInv, CallsSound, LifecycleTyped, CallState
    <3>2. CASE call[d].key # k
      BY <1>8, <3>1, <3>2 DEF AnswerKept
    <3>3. CASE call[d].key = k
      <4>1. ~(call[d].pc \in Works)
        <5>1. SUFFICES ASSUME call[d].pc \in Works PROVE FALSE
          OBVIOUS
        <5>2. Holds(d, k)
          BY <3>3, <5>1, WorkerFacts DEF LocksOf
        <5>3. Holds(c, k)
          BY <1>2, <1>4 DEF LocksOf
        <5>4. QED
          BY <2>3, <5>2, <5>3 DEF Holds
      <4>2. ~(call[d].pc = "done" /\ call[d].version # 0)
        BY <1>2, <1>4, <3>1, <3>3 DEF AnswerKept, NoResult
      <4>3. QED
        BY <3>1, <4>1, <4>2 DEF AnswerKept
    <3>4. QED
      BY <3>2, <3>3
  <2>4. \A d \in Calls : Carries(call'[d])
    BY <1>8, <2>1 DEF LifecycleInv, CallsSound
  <2>5. ASSUME NEW d \in Calls PROVE (Carries(call[d]) /\ AnswerKept(call[d]))'
    <3>1. CASE d = c
      BY <1>8, <2>2, <2>4, <3>1 DEF AnswerKept, Carries
    <3>2. CASE d # c
      BY <1>8, <2>3, <2>4, <3>2 DEF AnswerKept, Carries
    <3>3. QED
      BY <3>1, <3>2
  <2>6. QED
    BY <2>5 DEF CallsSound
<1>11. SessionsSound'
  <2>1. \A s \in Sessions : IsMinted(s) => IsMinted(s)'
    BY <1>6, <1>7, MintedStay DEF LifecycleInv
  <2>2. \A s \in Sessions : aggregate'[s] = AbsentAggregate \/ (Whole(aggregate'[s]) /\ IsMinted(s)')
    BY <1>7, <2>1 DEF LifecycleInv, SessionsSound
  <2>3. call[c].command.op = "create" =>
          \E d \in Calls : call'[d].command.op = "create" /\ call'[d].session = call[c].session
    BY <1>6, <1>8
  <2>4. ASSUME NEW m \in Keys
        PROVE  (ledger[m] # NoResult =>
                 /\ ledger[m].command \in Command
                 /\ ledger[m].command.op = "create" =>
                      ledger[m].session \in Sessions /\ IsMinted(ledger[m].session))'
    <3>1. CASE m = k
      <4>1. answer.command = call[c].command /\ answer.session = call[c].session
        BY <1>5
      <4>2. PICK r : r = ledger'[m]
        OBVIOUS
      <4>3. r = answer
        BY <1>8, <3>1, <4>2
      <4>4. r.command.op = "create" =>
              \E d \in Calls : call'[d].command.op = "create" /\ call'[d].session = r.session
        BY <2>3, <4>1, <4>3
      <4>5. r.command \in Command /\ r.session \in Sessions
        BY <1>2, <4>1, <4>3
      <4>6. QED
        BY <4>2, <4>4, <4>5 DEF IsMinted
    <3>2. CASE m # k
      <4>1. ledger'[m] = ledger[m]
        BY <1>8, <3>2
      <4>2. ledger[m] # NoResult =>
              /\ ledger[m].command \in Command
              /\ ledger[m].command.op = "create" =>
                   ledger[m].session \in Sessions /\ IsMinted(ledger[m].session)
        BY DEF LifecycleInv, SessionsSound
      <4>3. PICK r : r = ledger[m]
        OBVIOUS
      <4>4. r.session \in Sessions /\ IsMinted(r.session) =>
              \E d \in Calls : call'[d].command.op = "create" /\ call'[d].session = r.session
        BY <2>1 DEF IsMinted
      <4>5. QED
        BY <4>1, <4>2, <4>3, <4>4 DEF IsMinted, NoResult
    <3>3. QED
      BY <3>1, <3>2
  <2>5. ASSUME NEW d \in Calls, call'[d].pc = "delivering" PROVE Fresh(d)'
    <3>1. /\ d # c /\ call'[d] = call[d] /\ call[d].pc = "delivering" /\ Fresh(d)
          /\ call[d].command.op = "create"
      BY <1>6, <1>8, <2>5 DEF LifecycleInv, SessionsSound, CallsSound, Carries
    <3>2. ASSUME NEW e \in Calls, e # d, call'[e].command.op = "create"
          PROVE  call'[e].session # call[d].session
      BY <1>6, <1>8, <3>1, <3>2 DEF Fresh
    <3>3. ASSUME NEW m \in Keys, ledger'[m].command.op = "create"
          PROVE  ledger'[m].session # call[d].session
      <4>1. answer.command = call[c].command /\ answer.session = call[c].session
        BY <1>5
      <4>2. QED
        BY <1>8, <3>1, <3>3, <4>1 DEF Fresh
    <3>4. QED
      BY <1>7, <3>1, <3>2, <3>3 DEF Fresh
  <2>6. QED
    BY <2>2, <2>4, <2>5 DEF SessionsSound
<1>12. QueuesSound'
  BY <1>2, <1>6, <1>7, AllHeldLeft
<1>13. QED
  BY <1>9, <1>10, <1>11, <1>12 DEF LifecycleInv

LEMMA AdmittedFacts ==
  ASSUME LifecycleInv, NEW c \in Calls, Admitted(c)
  PROVE  /\ InFlight(c) /\ call[c].pc = "locking" /\ Carries(call[c])
         /\ call[c].command \in Command /\ \A l \in LocksOf(call[c]) : Holds(c, l)
         /\ Started(c) \in CallState /\ Started(c).counter # NoCall /\ Started(c).version = 0
         /\ Started(c).command = call[c].command /\ Started(c).key = call[c].key
         /\ Started(c).session = call[c].session /\ ledger[Started(c).key] = NoResult
<1>1. /\ InFlight(c) /\ call[c].pc = "locking" /\ Carries(call[c]) /\ call[c].version = 0
      /\ call[c] \in CallState /\ call[c].command \in Command
      /\ \A l \in LocksOf(call[c]) : Holds(c, l)
  BY HolderFacts DEF Admitted
<1>2. ledger[call[c].key] = NoResult
  BY DEF Admitted, Answered
<1>3. evidence \subseteq Sessions /\ counter \in Calls \cup {NoCall}
  BY DEF LifecycleInv, LifecycleTyped
<1>4. c # NoCall
  BY LifecycleAssumption
<1>5. PICK q : q = Started(c)
  OBVIOUS
<1>6. /\ q \in CallState /\ q.counter # NoCall /\ q.version = 0 /\ q.command = call[c].command
      /\ q.key = call[c].key /\ q.session = call[c].session
  BY <1>1, <1>3, <1>4, <1>5 DEF Started, CallState
<1>7. QED
  BY <1>1, <1>2, <1>5, <1>6

(* A call at work goes on with its command, under its locks.               *)
LEMMA WorkKeeps ==
  ASSUME LifecycleInv, NEW c \in Calls, NEW q \in CallState, InFlight(c),
         \A l \in LocksOf(call[c]) : Holds(c, l), call' = [call EXCEPT ![c] = q],
         q.pc \in {"committed", "failing"}, q.command = call[c].command,
         q.command \in Command, q.key = call[c].key, q.session = call[c].session,
         q.pc = "committed" => q.session \in Sessions, q.pc = "failing" => q.version = 0,
         q.counter # NoCall, ledger[q.key] = NoResult,
         locks' = locks, ledger' = ledger, evidence' \subseteq Sessions, counted' = counted,
         counter' = counter, aggregate' \in [Sessions -> AggregateState], SessionsSound'
  PROVE  LifecycleInv'
<1>1. LifecycleTyped'
  BY TypesStay DEF LifecycleInv, LifecycleTyped
<1>2. Carries(q)
  <2>1. Carries(call[c])
    BY DEF LifecycleInv, CallsSound
  <2>2. q.command.op # "create" => q.session = q.command.session
    BY <2>1 DEF Carries, InFlight
  <2>3. QED
    BY <2>2 DEF Carries, Works
<1>3. AnswerKept(q)
  BY DEF AnswerKept
<1>4. CallsSound'
  BY <1>2, <1>3, CallsStay DEF LifecycleInv
<1>5. QueuesSound'
  <2>1. LocksOf(q) = LocksOf(call[c])
    BY DEF LocksOf
  <2>2. QED
    BY <2>1, LocksStay DEF LifecycleInv
<1>6. QED
  BY <1>1, <1>4, <1>5 DEF LifecycleInv

(* A session that was delivered or exists belongs to no delivery.          *)
LEMMA AggregateMoves ==
  ASSUME LifecycleInv, NEW c \in Calls, NEW q, NEW s \in Sessions, NEW after,
         call' = [call EXCEPT ![c] = q], aggregate' = [aggregate EXCEPT ![s] = after],
         ledger' = ledger, Whole(after), IsMinted(s), TakesNoSession(c, q),
         q.pc # "delivering",
         \A d \in Calls : d # c /\ call[d].pc = "delivering" => call[d].session # s
  PROVE  SessionsSound'
<1>1. call'[c] = q /\ \A d \in Calls : d # c => call'[d] = call[d]
  BY DEF LifecycleInv, LifecycleTyped
<1>2. \A t \in Sessions : IsMinted(t) => IsMinted(t)'
  BY MintedStay DEF TakesNoSession, LifecycleInv
<1>3. aggregate'[s] = after /\ \A t \in Sessions : t # s => aggregate'[t] = aggregate[t]
  BY DEF LifecycleInv, LifecycleTyped
<1>4. \A t \in Sessions : aggregate'[t] = AbsentAggregate \/ (Whole(aggregate'[t]) /\ IsMinted(t)')
  <2>1. ASSUME NEW t \in Sessions, t # s
        PROVE  aggregate'[t] = AbsentAggregate \/ (Whole(aggregate'[t]) /\ IsMinted(t)')
    <3>1. aggregate'[t] = aggregate[t] /\ (IsMinted(t) => IsMinted(t)')
      BY <1>2, <1>3, <2>1
    <3>2. aggregate[t] = AbsentAggregate \/ (Whole(aggregate[t]) /\ IsMinted(t))
      BY DEF LifecycleInv, SessionsSound
    <3>3. QED
      BY <3>1, <3>2
  <2>2. Whole(aggregate'[s]) /\ IsMinted(s)'
    BY <1>2, <1>3
  <2>3. QED
    BY <2>1, <2>2
<1>5. ASSUME NEW k \in Keys, ledger[k] # NoResult
      PROVE  /\ ledger[k].command \in Command
             /\ ledger[k].command.op = "create" =>
                  ledger[k].session \in Sessions /\ IsMinted(ledger[k].session)'
  BY <1>2, <1>5 DEF LifecycleInv, SessionsSound
<1>6. ASSUME NEW d \in Calls, call'[d].pc = "delivering" PROVE Fresh(d)'
  <2>1. /\ d # c /\ call'[d] = call[d] /\ call[d].pc = "delivering" /\ Fresh(d)
        /\ call[d].session \in Sessions /\ call[d].session # s
    BY <1>1, <1>6 DEF LifecycleInv, SessionsSound, CallsSound, Carries
  <2>2. ASSUME NEW e \in Calls, e # d, call'[e].command.op = "create"
        PROVE  call'[e].session # call[d].session
    BY <1>1, <2>1, <2>2 DEF Fresh, TakesNoSession
  <2>3. QED
    BY <1>3, <2>1, <2>2 DEF Fresh
<1>7. QED
  BY <1>4, <1>5, <1>6 DEF SessionsSound

LEMMA FailingKeeps ==
  ASSUME LifecycleInv, NEW c \in Calls, NEW started \in CallState, Failing(c, started),
         InFlight(c), \A l \in LocksOf(call[c]) : Holds(c, l),
         started.command = call[c].command, started.command \in Command,
         started.key = call[c].key, started.session = call[c].session,
         started.version = 0, started.counter # NoCall, ledger[started.key] = NoResult,
         aggregate' = aggregate, locks' = locks, ledger' = ledger,
         evidence' \subseteq Sessions, counted' = counted, counter' = counter
  PROVE  LifecycleInv'
<1>1. PICK q : q = [started EXCEPT !.pc = "failing"]
  OBVIOUS
<1>2. /\ q \in CallState /\ q.pc = "failing" /\ q.command = started.command /\ q.key = started.key
      /\ q.session = started.session /\ q.version = 0 /\ q.counter # NoCall
  BY <1>1 DEF CallState
<1>3. call' = [call EXCEPT ![c] = q]
  BY <1>1 DEF Failing
<1>4. TakesNoSession(c, q)
  BY <1>2, SameTakesNone
<1>5. SessionsSound'
  BY <1>3, <1>4, SessionsStay DEF LifecycleInv
<1>6. aggregate' \in [Sessions -> AggregateState]
  BY DEF LifecycleInv, LifecycleTyped
<1>7. QED
  BY <1>2, <1>3, <1>5, <1>6, WorkKeeps

LEMMA CommitKeeps ==
  ASSUME LifecycleInv, NEW c \in Calls, NEW started \in CallState, NEW after \in AggregateState,
         CommitBatch(c, call[c].session, after, started), Whole(after), IsMinted(call[c].session),
         InFlight(c), \A l \in LocksOf(call[c]) : Holds(c, l), call[c].session \in Sessions,
         started.command = call[c].command, started.command \in Command,
         started.key = call[c].key, started.counter # NoCall, ledger[started.key] = NoResult,
         locks' = locks, ledger' = ledger, evidence' \subseteq Sessions, counted' = counted,
         counter' = counter,
         \A d \in Calls : d # c /\ call[d].pc = "delivering" => call[d].session # call[c].session
  PROVE  LifecycleInv'
<1>1. after.version \in Nat
  BY DEF AggregateState
<1>2. PICK q : q = [started EXCEPT !.pc = "committed", !.session = call[c].session,
                                   !.version = after.version]
  OBVIOUS
<1>3. /\ q \in CallState /\ q.pc = "committed" /\ q.command = started.command
      /\ q.key = started.key /\ q.session = call[c].session /\ q.counter # NoCall
  BY <1>1, <1>2 DEF CallState
<1>4. /\ call' = [call EXCEPT ![c] = q]
      /\ aggregate' = [aggregate EXCEPT ![call[c].session] = after]
  BY <1>2 DEF CommitBatch
<1>5. TakesNoSession(c, q)
  BY <1>3, SameTakesNone
<1>6. SessionsSound'
  BY <1>3, <1>4, <1>5, AggregateMoves
<1>7. aggregate' \in [Sessions -> AggregateState]
  BY <1>4 DEF LifecycleInv, LifecycleTyped
<1>8. QED
  BY <1>3, <1>4, <1>6, <1>7, WorkKeeps

LEMMA BeginCreateKeeps ==
  ASSUME LifecycleInv, NEW c \in Calls, NEW s \in Sessions, BeginCreate(c, s)
  PROVE  LifecycleInv'
<1>1. /\ InFlight(c) /\ call[c].pc = "locking" /\ Carries(call[c])
      /\ call[c].command \in Command /\ \A l \in LocksOf(call[c]) : Holds(c, l)
      /\ Started(c) \in CallState /\ Started(c).counter # NoCall /\ Started(c).version = 0
      /\ Started(c).command = call[c].command /\ Started(c).key = call[c].key
      /\ ledger[Started(c).key] = NoResult
  BY AdmittedFacts DEF BeginCreate
<1>2. /\ call[c].command.op = "create" /\ call[c].session \notin Sessions
      /\ ~IsMinted(s)
  BY <1>1, LifecycleAssumption DEF BeginCreate, Carries, Minted, IsMinted
<1>3. PICK q : q = [Started(c) EXCEPT !.pc = "delivering", !.session = s]
  OBVIOUS
<1>4. /\ q \in CallState /\ q.pc = "delivering" /\ q.session = s /\ q.command = call[c].command
      /\ q.key = call[c].key /\ q.version = 0 /\ q.counter # NoCall
  BY <1>1, <1>3 DEF CallState
<1>5. /\ call' = [call EXCEPT ![c] = q] /\ aggregate' = aggregate /\ evidence' = evidence
      /\ ledger' = ledger /\ counted' = counted /\ counter' = counter /\ locks' = locks
  BY <1>3 DEF BeginCreate, store
<1>6. call'[c] = q /\ \A d \in Calls : d # c => call'[d] = call[d]
  BY <1>5 DEF LifecycleInv, LifecycleTyped
<1>7. LifecycleTyped'
  BY <1>4, <1>5, TypesStay DEF LifecycleInv, LifecycleTyped
<1>8. CallsSound'
  <2>1. Carries(q)
    BY <1>1, <1>2, <1>4 DEF Carries
  <2>2. AnswerKept(q)
    BY <1>1, <1>4 DEF AnswerKept
  <2>3. QED
    BY <1>5, <2>1, <2>2, CallsStay DEF LifecycleInv
<1>9. QueuesSound'
  <2>1. LocksOf(q) = LocksOf(call[c])
    BY <1>2, <1>4 DEF LocksOf
  <2>2. q.pc \notin {"new", "done"} /\ \A l \in LocksOf(q) : Holds(c, l)
    BY <1>1, <1>4, <2>1
  <2>3. QED
    BY <1>1, <1>5, <2>1, <2>2, LocksStay DEF LifecycleInv
<1>10. SessionsSound'
  <2>1. \A t \in Sessions : IsMinted(t) => IsMinted(t)'
    BY <1>2, <1>5, MintedStay DEF LifecycleInv
  <2>2. \A t \in Sessions : aggregate'[t] = AbsentAggregate \/ (Whole(aggregate'[t]) /\ IsMinted(t)')
    BY <1>5, <2>1 DEF LifecycleInv, SessionsSound
  <2>3. ASSUME NEW k \in Keys, ledger[k] # NoResult
        PROVE  /\ ledger[k].command \in Command
               /\ ledger[k].command.op = "create" =>
                    ledger[k].session \in Sessions /\ IsMinted(ledger[k].session)'
    <3>1. PICK r : r = ledger[k]
      OBVIOUS
    <3>2. /\ r.command \in Command
          /\ r.command.op = "create" => r.session \in Sessions /\ IsMinted(r.session)
      BY <2>3, <3>1 DEF LifecycleInv, SessionsSound
    <3>3. r.command.op = "create" => r.session \in Sessions /\ IsMinted(r.session)'
      BY <2>1, <3>2
    <3>4. QED
      BY <1>5, <3>1, <3>2, <3>3 DEF IsMinted
  <2>4. \A e \in Calls : e # c /\ call'[e].command.op = "create" => call'[e].session # s
    BY <1>2, <1>6 DEF IsMinted
  <2>5. \A k \in Keys : ledger[k].command.op = "create" => ledger[k].session # s
    BY <1>2 DEF LifecycleInv, SessionsSound, NoResult
  <2>6. aggregate[s] = AbsentAggregate
    BY <1>2 DEF LifecycleInv, SessionsSound
  <2>7. Fresh(c)'
    BY <1>4, <1>5, <1>6, <2>4, <2>5, <2>6 DEF Fresh
  <2>8. ASSUME NEW d \in Calls, d # c, call'[d].pc = "delivering" PROVE Fresh(d)'
    <3>1. /\ call'[d] = call[d] /\ call[d].pc = "delivering" /\ Fresh(d)
          /\ call[d].command.op = "create"
      BY <1>6, <2>8 DEF LifecycleInv, SessionsSound, CallsSound, Carries
    <3>2. s # call[d].session
      BY <1>2, <3>1 DEF IsMinted
    <3>3. ASSUME NEW e \in Calls, e # d, call'[e].command.op = "create"
          PROVE  call'[e].session # call[d].session
      BY <1>4, <1>6, <3>1, <3>2, <3>3 DEF Fresh
    <3>4. QED
      BY <1>5, <3>1, <3>3 DEF Fresh
  <2>9. QED
    BY <1>5, <2>2, <2>3, <2>7, <2>8 DEF SessionsSound
<1>11. QED
  BY <1>7, <1>8, <1>9, <1>10 DEF LifecycleInv

LEMMA DeliverKeeps ==
  ASSUME LifecycleInv, NEW c \in Calls, Deliver(c)
  PROVE  LifecycleInv'
<1>1. call[c].pc \in Works /\ call[c].pc = "delivering"
  BY DEF Deliver, Works
<1>2. /\ InFlight(c) /\ call[c] \in CallState /\ Carries(call[c]) /\ call[c].command \in Command
      /\ call[c].counter # NoCall /\ ledger[call[c].key] = NoResult
      /\ \A l \in LocksOf(call[c]) : Holds(c, l)
  BY <1>1, WorkerFacts
<1>3. /\ call[c].session \in Sessions /\ call[c].version = 0
      /\ call[c].command.op = "create" /\ call[c].command.consent \in ConsentPolicies
  BY <1>1, <1>2 DEF Carries, Command
<1>4. Fresh(c)
  BY <1>1 DEF LifecycleInv, SessionsSound
<1>5. /\ locks' = locks /\ ledger' = ledger /\ counted' = counted /\ counter' = counter
      /\ evidence' \subseteq Sessions
  BY <1>3 DEF Deliver, LifecycleInv, LifecycleTyped
<1>6. PICK after : after = Created(aggregate[call[c].session], call[c].command.consent)
  OBVIOUS
<1>7. Whole(after) /\ after \in AggregateState
  BY <1>3, <1>4, <1>6, CreationIsWhole DEF Fresh, Whole, Consistent
<1>8. CASE CommitBatch(c, call[c].session, after, call[c])
  <2>1. IsMinted(call[c].session)
    BY <1>3 DEF IsMinted
  <2>2. \A d \in Calls : d # c /\ call[d].pc = "delivering" => call[d].session # call[c].session
    BY <1>4 DEF Fresh, LifecycleInv, CallsSound, Carries
  <2>3. QED
    BY <1>2, <1>3, <1>5, <1>7, <1>8, <2>1, <2>2, CommitKeeps
<1>9. CASE Failing(c, call[c]) /\ aggregate' = aggregate
  BY <1>2, <1>3, <1>5, <1>9, FailingKeeps
<1>10. QED
  BY <1>6, <1>8, <1>9 DEF Deliver

(* An activation or a completion is of a session that exists.              *)
LEMMA ExistingCommitKeeps ==
  ASSUME LifecycleInv, NEW c \in Calls, Admitted(c), call[c].command.op # "create",
         aggregate[call[c].session].status # "absent", NEW after \in AggregateState,
         Whole(after), CommitBatch(c, call[c].session, after, Started(c)),
         UNCHANGED <<store, locks>>
  PROVE  LifecycleInv'
<1>1. /\ InFlight(c) /\ call[c].pc = "locking" /\ Carries(call[c])
      /\ call[c].command \in Command /\ \A l \in LocksOf(call[c]) : Holds(c, l)
      /\ Started(c) \in CallState /\ Started(c).counter # NoCall
      /\ Started(c).command = call[c].command /\ Started(c).key = call[c].key
      /\ ledger[Started(c).key] = NoResult
  BY AdmittedFacts
<1>2. call[c].session \in Sessions
  BY <1>1 DEF Carries, Command
<1>3. aggregate[call[c].session] # AbsentAggregate
  BY AbsentIsTyped
<1>4. IsMinted(call[c].session)
  BY <1>2, <1>3 DEF LifecycleInv, SessionsSound
<1>5. \A d \in Calls : d # c /\ call[d].pc = "delivering" => call[d].session # call[c].session
  BY <1>3 DEF LifecycleInv, SessionsSound, Fresh
<1>6. /\ locks' = locks /\ ledger' = ledger /\ evidence' \subseteq Sessions
      /\ counted' = counted /\ counter' = counter
  BY DEF store, LifecycleInv, LifecycleTyped
<1>7. QED
  BY <1>1, <1>2, <1>4, <1>5, <1>6, CommitKeeps

LEMMA RefuseKeeps ==
  ASSUME LifecycleInv, NEW c \in Calls, Admitted(c), Refuse(c), UNCHANGED <<store, locks>>
  PROVE  LifecycleInv'
<1>1. /\ locks' = locks /\ ledger' = ledger /\ evidence' \subseteq Sessions
      /\ counted' = counted /\ counter' = counter /\ aggregate' = aggregate
      /\ Failing(c, Started(c))
  BY DEF store, LifecycleInv, LifecycleTyped, Refuse
<1>2. QED
  BY <1>1, AdmittedFacts, FailingKeeps

LEMMA ActivateKeeps ==
  ASSUME LifecycleInv, NEW c \in Calls, NEW presenter \in Presenters, Activate(c, presenter)
  PROVE  LifecycleInv'
<1>1. /\ Admitted(c) /\ call[c].command.op = "activate" /\ UNCHANGED <<store, locks>>
  BY DEF Activate
<1>2. PICK after : after = Apply(aggregate[call[c].session],
                                 [type |-> "session.activated", presenter |-> presenter])
  OBVIOUS
<1>3. CASE MayActivate(c) /\ CommitBatch(c, call[c].session, after, Started(c))
  <2>1. call[c].session \in Sessions
    BY <1>1, AdmittedFacts DEF Carries, Command
  <2>2. /\ aggregate[call[c].session].status = "ready"
        /\ ConsentAllowed(aggregate[call[c].session])
    BY <1>3 DEF MayActivate, ActivationEvidence
  <2>3. Whole(aggregate[call[c].session])
    BY <2>1, <2>2, AbsentIsTyped DEF LifecycleInv, SessionsSound
  <2>4. Whole(after) /\ after \in AggregateState
    BY <1>2, <2>2, <2>3, ActivationIsWhole
  <2>5. QED
    BY <1>1, <1>3, <2>2, <2>4, ExistingCommitKeeps
<1>4. CASE Refuse(c)
  BY <1>1, <1>4, RefuseKeeps
<1>5. QED
  BY <1>2, <1>3, <1>4 DEF Activate

LEMMA CompleteKeeps ==
  ASSUME LifecycleInv, NEW c \in Calls, Complete(c)
  PROVE  LifecycleInv'
<1>1. Admitted(c) /\ call[c].command.op = "complete" /\ UNCHANGED <<store, locks>>
  BY DEF Complete
<1>2. PICK after : after = Apply(aggregate[call[c].session], [type |-> "session.completed"])
  OBVIOUS
<1>3. CASE MayComplete(c) /\ CommitBatch(c, call[c].session, after, Started(c))
  <2>1. call[c].session \in Sessions
    BY <1>1, AdmittedFacts DEF Carries, Command
  <2>2. aggregate[call[c].session].status # "absent"
    BY <1>3 DEF MayComplete
  <2>3. Whole(aggregate[call[c].session])
    BY <2>1, <2>2, AbsentIsTyped DEF LifecycleInv, SessionsSound
  <2>4. Whole(after) /\ after \in AggregateState
    BY <1>2, <2>3, CompletionIsWhole
  <2>5. QED
    BY <1>1, <1>3, <2>2, <2>4, ExistingCommitKeeps
<1>4. CASE Refuse(c)
  BY <1>1, <1>4, RefuseKeeps
<1>5. QED
  BY <1>2, <1>3, <1>4 DEF Complete

LEMMA QueuesStay ==
  ASSUME QueuesSound, UNCHANGED <<locks, call>>
  PROVE  QueuesSound'
<1>1. QueuesTyped'
  BY DEF QueuesSound, QueuesTyped
<1>2. \A d, l : (In(d, l)' <=> In(d, l)) /\ (Holds(d, l)' <=> Holds(d, l))
  BY DEF In, Holds
<1>3. ASSUME NEW d \in Calls PROVE Queued(d)'
  <2>1. Queued(d) /\ call'[d] = call[d] /\ (InFlight(d)' <=> InFlight(d))
    BY DEF QueuesSound, InFlight
  <2>2. QED
    BY <1>2, <2>1 DEF Queued
<1>4. QED
  BY <1>1, <1>3 DEF QueuesSound

LEMMA OtherWriterKeeps ==
  ASSUME LifecycleInv, NEW s \in Sessions, OtherWriter(s)
  PROVE  LifecycleInv'
<1>1. /\ aggregate[s].status = "active" /\ locks' = locks /\ call' = call /\ ledger' = ledger
      /\ evidence' = evidence /\ counted' = counted /\ counter' = counter
  BY DEF OtherWriter, store
<1>2. PICK after : after = Apply(aggregate[s], [type |-> "turn.interrupted"])
  OBVIOUS
<1>3. Whole(aggregate[s]) /\ IsMinted(s) /\ aggregate[s] # AbsentAggregate
  BY <1>1, AbsentIsTyped DEF LifecycleInv, SessionsSound
<1>4. Whole(after) /\ after \in AggregateState
  BY <1>2, <1>3, InterruptionIsWhole
<1>5. aggregate' = [aggregate EXCEPT ![s] = after]
  BY <1>2 DEF OtherWriter
<1>6. PICK c \in Calls : call[c].session = s /\ call[c].command.op = "create"
  BY <1>3 DEF IsMinted
<1>7. call' = [call EXCEPT ![c] = call[c]]
  BY <1>1 DEF LifecycleInv, LifecycleTyped
<1>8. \A d \in Calls : call[d].pc = "delivering" => call[d].session # s
  BY <1>3 DEF LifecycleInv, SessionsSound, Fresh
<1>9. SessionsSound'
  <2>1. call[c].pc # "delivering" /\ TakesNoSession(c, call[c])
    BY <1>6, <1>8, SameTakesNone
  <2>2. QED
    BY ZenonT(60), <1>1, <1>3, <1>4, <1>5, <1>7, <1>8, <2>1, AggregateMoves
<1>10. LifecycleTyped' /\ CallsSound' /\ QueuesSound'
  <2>1. LifecycleTyped'
    BY <1>1, <1>4, <1>5 DEF LifecycleInv, LifecycleTyped
  <2>2. CallsSound'
    BY <1>1 DEF LifecycleInv, CallsSound, AnswerKept, Carries
  <2>3. QueuesSound'
    BY <1>1, QueuesStay DEF LifecycleInv
  <2>4. QED
    BY <2>1, <2>2, <2>3
<1>11. QED
  BY <1>9, <1>10 DEF LifecycleInv

LEMMA LifecycleStarts == Init => LifecycleInv
<1> SUFFICES ASSUME Init PROVE LifecycleInv
  OBVIOUS
<1>1. \A c \in Calls : /\ call[c] \in CallState /\ call[c].pc = "new"
                       /\ call[c].command.op = "none" /\ call[c].version = 0
  BY DEF Init, CallState, Commands
<1>2. NoResult \in Result /\ AbsentAggregate \in AggregateState
  BY AbsentIsTyped DEF NoResult, Result, Commands
<1>3. LifecycleTyped
  BY <1>2 DEF LifecycleTyped, Init, CallState, Commands
<1>4. QueuesSound
  <2>1. \A l \in Names : locks[l] = <<>>
    BY DEF Init, Names
  <2>2. locks \in [Names -> Seq(Calls)] /\ \A l \in Names : IsInjective(locks[l])
    BY <2>1 DEF Init, Names, IsInjective
  <2>3. \A c \in Calls : \A l \in Names : ~In(c, l)
    BY <2>1 DEF In
  <2>4. QED
    BY <1>1, <2>2, <2>3 DEF QueuesSound, QueuesTyped, Queued, InFlight, Works
<1>5. CallsSound
  BY <1>1 DEF CallsSound, Carries, AnswerKept, Works
<1>6. SessionsSound
  BY <1>1 DEF SessionsSound, Init
<1>7. QED
  BY <1>3, <1>4, <1>5, <1>6 DEF LifecycleInv

LEMMA LifecycleStep == LifecycleInv /\ [Next]_vars => LifecycleInv'
<1> SUFFICES ASSUME LifecycleInv, [Next]_vars PROVE LifecycleInv'
  OBVIOUS
<1>1. ASSUME NEW c \in Calls, NEW cmd \in Command, Receive(c, cmd) PROVE LifecycleInv'
  BY <1>1, ReceiveKeeps
<1>2. ASSUME NEW c \in Calls, Progress(c) PROVE LifecycleInv'
  BY <1>2, TakeLastLockKeeps, ReplayKeeps, DeclineKeeps, BeginCreateKeeps, DeliverKeeps,
     ActivateKeeps, CompleteKeeps, FinishKeeps, RollbackKeeps DEF Progress
<1>3. ASSUME NEW s \in Sessions, OtherWriter(s) PROVE LifecycleInv'
  BY <1>3, OtherWriterKeeps
<1>4. CASE UNCHANGED vars
  <2>1. /\ locks' = locks /\ call' = call /\ ledger' = ledger /\ aggregate' = aggregate
        /\ evidence' = evidence /\ counted' = counted /\ counter' = counter
    BY <1>4 DEF vars
  <2>2. LifecycleTyped' /\ CallsSound'
    BY <2>1 DEF LifecycleInv, LifecycleTyped, CallsSound, AnswerKept, Carries
  <2>3. QueuesSound'
    BY <2>1, QueuesStay DEF LifecycleInv
  <2>4. SessionsSound'
    BY <2>1 DEF LifecycleInv, SessionsSound, IsMinted, Fresh, Whole
  <2>5. QED
    BY <2>2, <2>3, <2>4 DEF LifecycleInv
<1>5. QED
  BY <1>1, <1>2, <1>3, <1>4 DEF Next

(* The inductive invariant of the lifecycle commands: who waits for which  *)
(* lock, what a call carries at each await, whose answer the ledger keeps  *)
(* and which sessions exist (packages/session-application).                *)
THEOREM LifecycleInductive == Spec => []LifecycleInv
BY LifecycleStarts, LifecycleStep, PTL DEF Spec

-------------------------------------------------------------------------------
(* Retries of one command under one key are given one answer, whatever     *)
(* they interleave with (mutate, the idempotency ledger).                  *)
THEOREM RetriesAgree == Spec => []AnswersAgree
<1>1. LifecycleInv => AnswersAgree
  <2>1. SUFFICES ASSUME LifecycleInv, NEW c \in Calls, NEW d \in Calls,
          call[c].pc = "done", call[c].version # 0,
          call[d].pc = "done", call[d].version # 0, call[c].key = call[d].key
        PROVE  /\ call[c].command = call[d].command
               /\ call[c].session = call[d].session
               /\ call[c].version = call[d].version
    BY DEF AnswersAgree
  <2>2. AnswerKept(call[c]) /\ AnswerKept(call[d])
    BY <2>1 DEF LifecycleInv, CallsSound
  <2>3. [command |-> call[c].command, session |-> call[c].session, version |-> call[c].version]
      = [command |-> call[d].command, session |-> call[d].session, version |-> call[d].version]
    BY <2>1, <2>2 DEF AnswerKept
  <2>4. QED
    BY <2>3
<1>2. QED
  BY <1>1, LifecycleInductive, PTL

(* No session is ever seen half created: absent, or prepared, disclosed    *)
(* and its consent decided (createSession); and the state is well typed.   *)
THEOREM SessionsStayWhole == Spec => []SessionsAreWhole
<1>1. LifecycleInv => TypeOK
  BY DEF LifecycleInv, LifecycleTyped, QueuesSound, QueuesTyped, CallsSound, Carries, Works,
     Names, TypeOK
<1>2. LifecycleInv => CreatedWhole
  BY AbsentIsTyped DEF LifecycleInv, SessionsSound, CreatedWhole, Whole
<1>3. QED
  BY <1>1, <1>2, LifecycleInductive, PTL DEF SessionsAreWhole

(* The least of some numbers.                                              *)
LEMMA LeastNumber ==
  ASSUME NEW T \in SUBSET Nat, T # {}
  PROVE  \E x \in T : \A y \in T : x <= y
<1>0. PICK R : R = OpToRel(<, Nat)
  OBVIOUS
<1>1. IsWellFoundedOn(R, Nat)
  BY <1>0, NatLessThanWellFounded
<1>2. PICK x \in T : \A y \in T : ~(<<y, x>> \in R)
  BY <1>1, WFMin
<1>3. ASSUME NEW y \in T PROVE x <= y
  <2>1. x \in Nat /\ y \in Nat
    OBVIOUS
  <2>2. y < x => <<y, x>> \in R
    BY <1>0, <2>1 DEF OpToRel
  <2>3. ~(y < x)
    BY <1>2, <2>2
  <2>4. QED
    BY <2>1, <2>3
<1>4. QED
  BY <1>3

(* Of the locks that are held, one comes after all the others.             *)
LEMMA LastOfTheHeld ==
  ASSUME QueuesTyped, \E l \in Names : locks[l] # <<>>
  PROVE  \E l \in Names : /\ locks[l] # <<>>
                          /\ \A m \in Names : Before(l, m) => locks[m] = <<>>
<1>1. /\ DOMAIN Sorted = 1..Len(Sorted) /\ Len(Sorted) \in Nat
      /\ \A i, j \in DOMAIN Sorted : Sorted[i] = Sorted[j] => i = j
  BY LifecycleAssumption DEF IsInjective
<1>2. Names = {Sorted[i] : i \in DOMAIN Sorted}
  BY NamesSorted
<1>3. PICK T : T = {n \in Nat : \E i \in DOMAIN Sorted : n = Len(Sorted) - i /\ locks[Sorted[i]] # <<>>}
  OBVIOUS
<1>4. T \in SUBSET Nat /\ T # {}
  <2>1. PICK i \in DOMAIN Sorted : locks[Sorted[i]] # <<>>
    BY <1>2
  <2>2. Len(Sorted) - i \in Nat
    BY <1>1
  <2>3. QED
    BY <1>3, <2>1, <2>2
<1>5. PICK x \in T : \A y \in T : x <= y
  BY <1>4, LeastNumber
<1>6. PICK i \in DOMAIN Sorted : x = Len(Sorted) - i /\ locks[Sorted[i]] # <<>>
  BY <1>3, <1>5
<1>7. ASSUME NEW m \in Names, Before(Sorted[i], m) PROVE locks[m] = <<>>
  <2>1. PICK a \in DOMAIN Sorted, b \in DOMAIN Sorted : a < b /\ Sorted[a] = Sorted[i] /\ Sorted[b] = m
    BY <1>7 DEF Before
  <2>2. a = i /\ Len(Sorted) - b \in Nat /\ Len(Sorted) - b < x
    BY <1>1, <1>6, <2>1
  <2>3. Len(Sorted) - b \notin T
    BY <1>4, <1>5, <2>2
  <2>4. QED
    BY <1>3, <2>1, <2>2, <2>3
<1>8. QED
  BY <1>2, <1>6, <1>7

(* No call is stuck behind the locks: the order of their names makes no    *)
(* cycle of waiting calls (withLocks sorts them).                          *)
THEOREM LocksNeverDeadlock == Spec => []NoCallIsStuck
<1>1. ASSUME LifecycleInv, NEW l \in Names, locks[l] # <<>>
      PROVE  /\ Head(locks[l]) \in Calls /\ Holds(Head(locks[l]), l) /\ In(Head(locks[l]), l)
             /\ InFlight(Head(locks[l])) /\ l \in LocksOf(call[Head(locks[l])])
  <2>1. Head(locks[l]) \in Calls /\ Holds(Head(locks[l]), l) /\ In(Head(locks[l]), l)
    BY <1>1, HoldersAreIn DEF LifecycleInv, QueuesSound
  <2>2. QED
    BY <1>1, <2>1 DEF LifecycleInv, QueuesSound, Queued
<1>2. ASSUME LifecycleInv, NEW c \in Calls, InFlight(c)
      PROVE  \E d \in Calls : CanMove(d)
  <2>1. \E l \in Names : locks[l] # <<>>
    <3>1. /\ FirstLock(call[c]) \in LocksOf(call[c]) /\ FirstLock(call[c]) \in Names
          /\ \A l \in LocksOf(call[c]) : ~Before(l, FirstLock(call[c]))
      BY <1>2, InFlightNamed, LocksInOrder DEF LifecycleInv
    <3>2. In(c, FirstLock(call[c]))
      BY <1>2, <3>1 DEF LifecycleInv, QueuesSound, Queued
    <3>3. QED
      BY <1>2, <3>1, <3>2, HoldersAreIn DEF LifecycleInv, QueuesSound
  <2>2. PICK l \in Names : locks[l] # <<>> /\ \A m \in Names : Before(l, m) => locks[m] = <<>>
    BY <1>2, <2>1, LastOfTheHeld DEF LifecycleInv, QueuesSound
  <2>3. PICK d \in Calls : d = Head(locks[l])
    BY <1>1, <1>2, <2>2
  <2>4. Holds(d, l) /\ In(d, l) /\ InFlight(d) /\ l \in LocksOf(call[d])
    BY <1>1, <1>2, <2>2, <2>3
  <2>5. /\ LocksOf(call[d]) \subseteq Names
        /\ LocksOf(call[d]) = {FirstLock(call[d]), LastLock(call[d])}
        /\ FirstLock(call[d]) # LastLock(call[d]) => Before(FirstLock(call[d]), LastLock(call[d]))
    BY <1>2, <2>4, InFlightNamed, LocksInOrder DEF LifecycleInv
  <2>6. Holds(d, FirstLock(call[d]))
    BY <1>2, <2>4, <2>5 DEF LifecycleInv, QueuesSound, Queued
  <2>7. In(d, LastLock(call[d])) => Holds(d, LastLock(call[d]))
    <3>1. CASE l = LastLock(call[d])
      BY <2>4, <3>1
    <3>2. CASE l # LastLock(call[d])
      <4>1. locks[LastLock(call[d])] = <<>>
        BY <2>2, <2>4, <2>5, <3>2
      <4>2. QED
        BY <1>2, <2>5, <4>1, HoldersAreIn DEF LifecycleInv, QueuesSound
    <3>3. QED
      BY <3>1, <3>2
  <2>8. Contains(locks[LastLock(call[d])], d) <=> In(d, LastLock(call[d]))
    BY <1>2, <2>5, HoldersAreIn DEF LifecycleInv, QueuesSound
  <2>9. call[d].pc \in {"locking", "delivering", "committed", "failing"}
    BY <1>2, <2>4 DEF LifecycleInv, LifecycleTyped, CallState, InFlight
  <2>10. QED
    BY <2>6, <2>7, <2>8, <2>9 DEF CanMove
<1>3. LifecycleInv => NoCallIsStuck
  BY <1>1, <1>2 DEF NoCallIsStuck, Names
<1>4. QED
  BY <1>3, LifecycleInductive, PTL

(* A session takes the stage only while its evidence is kept               *)
(* (activateSession), whoever else writes to its aggregate.                *)
THEOREM StagedOnKeptEvidence == Spec => StagedOnEvidence
<1> DEFINE Staged == \A s \in Sessions :
             aggregate'[s].status = "active" /\ aggregate[s].status # "active" => s \in evidence
<1>1. LifecycleInv /\ [Next]_vars => Staged
  <2>1. SUFFICES ASSUME LifecycleInv, [Next]_vars, NEW s \in Sessions,
          aggregate'[s].status = "active", aggregate[s].status # "active"
        PROVE  s \in evidence
    OBVIOUS
  <2>2. aggregate' # aggregate
    BY <2>1
  <2>3. ASSUME NEW t \in Sessions, NEW after, aggregate' = [aggregate EXCEPT ![t] = after]
        PROVE  t = s /\ after.status = "active"
    <3>1. aggregate'[s] = IF t = s THEN after ELSE aggregate[s]
      BY <2>1, <2>3 DEF LifecycleInv, LifecycleTyped
    <3>2. QED
      BY <2>1, <3>1
  <2>4. ASSUME NEW c \in Calls, Deliver(c) PROVE FALSE
    <3>1. call[c].pc \in Works /\ call[c].pc = "delivering"
      BY <2>4 DEF Deliver, Works
    <3>2. /\ call[c].session \in Sessions /\ call[c].command.consent \in ConsentPolicies
          /\ aggregate[call[c].session] = AbsentAggregate
      BY <3>1, WorkerFacts, <2>1 DEF Carries, Command, LifecycleInv, SessionsSound, Fresh
    <3>3. aggregate' = [aggregate EXCEPT ![call[c].session] =
            Created(aggregate[call[c].session], call[c].command.consent)]
      BY <2>2, <2>4 DEF Deliver, CommitBatch
    <3>4. QED
      BY ZenonT(60), <2>3, <3>2, <3>3, CreationIsWhole
  <2>5. ASSUME NEW c \in Calls, NEW p \in Presenters, Activate(c, p) PROVE s \in evidence
    <3>1. call[c].session \in Sessions
      BY <2>1, <2>5, AdmittedFacts DEF Activate, Carries, Command
    <3>2. /\ MayActivate(c)
          /\ aggregate' = [aggregate EXCEPT ![call[c].session] =
               Apply(aggregate[call[c].session], [type |-> "session.activated", presenter |-> p])]
      BY <2>2, <2>5 DEF Activate, CommitBatch, Refuse
    <3>3. call[c].session = s
      BY <2>3, <3>1, <3>2
    <3>4. QED
      BY <3>2, <3>3 DEF MayActivate, ActivationEvidence
  <2>6. ASSUME NEW c \in Calls, Complete(c) PROVE FALSE
    <3>1. call[c].session \in Sessions
      BY <2>1, <2>6, AdmittedFacts DEF Complete, Carries, Command
    <3>2. /\ MayComplete(c)
          /\ aggregate' = [aggregate EXCEPT ![call[c].session] =
               Apply(aggregate[call[c].session], [type |-> "session.completed"])]
      BY <2>2, <2>6 DEF Complete, CommitBatch, Refuse
    <3>3. Whole(aggregate[call[c].session])
      BY <2>1, <3>1, <3>2, AbsentIsTyped DEF LifecycleInv, SessionsSound, MayComplete
    <3>4. QED
      BY <2>3, <3>1, <3>2, <3>3, CompletionIsWhole
  <2>7. ASSUME NEW t \in Sessions, OtherWriter(t) PROVE FALSE
    <3>1. /\ aggregate[t].status = "active"
          /\ aggregate' = [aggregate EXCEPT ![t] = Apply(aggregate[t], [type |-> "turn.interrupted"])]
      BY SMTT(60), <2>7 DEF OtherWriter
    <3>2. QED
      BY <2>1, <2>3, <3>1
  <2>8. ASSUME NEW c \in Calls, Progress(c) PROVE s \in evidence
    BY <2>2, <2>4, <2>5, <2>6, <2>8 DEF Progress, TakeLastLock, Replay, Decline,
       BeginCreate,
       Finish, Rollback
  <2>9. QED
    BY <2>1, <2>2, <2>7, <2>8 DEF Next, Receive, vars
<1>2. QED
  BY <1>1, LifecycleInductive, PTL DEF Spec, StagedOnEvidence

===============================================================================
