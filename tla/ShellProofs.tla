---------------------------- MODULE ShellProofs ----------------------------
(***************************************************************************)
(* Proofs about Shell, for every finite set of records, every number of    *)
(* flushes and every bound of what is asked and queued.                    *)
(***************************************************************************)
EXTENDS Shell, FiniteSetTheorems, TLAPS

-----------------------------------------------------------------------------
(* Types.                                                                  *)

Taps == {f \in Busy : flush[f].by = "tap"}

\* The tap under way is one, and the island knows of it.
OneTap == (\A f, g \in Taps : f = g) /\ (island.flushing <=> Taps # {})

TypeInv ==
  /\ queue \subseteq Records
  /\ online \in BOOLEAN /\ manual \in BOOLEAN
  /\ flush \in [Flushes -> {None} \cup Flush]
  /\ checks \in 0 .. MaxChecks
  /\ island \in Island
  /\ digest \in {None} \cup Digest
  /\ queued \in 0 .. MaxQueued
  /\ untold \in BOOLEAN
  /\ OneTap

LEMMA TypeInvTypes ==
  ASSUME TypeInv
  PROVE  TypeOK
  <1>1. island.flushing \in BOOLEAN
    BY DEF TypeInv, Island
  <1>2. island.flushing = (\E f \in Busy : flush[f].by = "tap")
    BY <1>1 DEF TypeInv, OneTap, Taps
  <1> QED BY <1>2 DEF TypeInv, TypeOK

LEMMA CountType ==
  ASSUME NEW rs \in SUBSET Records
  PROVE  IsFiniteSet(rs) /\ Cardinality(rs) \in Nat /\ (Cardinality(rs) = 0 <=> rs = {})
  <1>1. IsFiniteSet(rs)
    BY ShellAssumption, FS_Subset
  <1> QED BY <1>1, FS_CardinalityType, FS_EmptySet

LEMMA CalledType ==
  ASSUME NEW by \in Origins, NEW n \in Nat
  PROVE  /\ Called(by, n) \in Flush /\ Called(by, n) # None
         /\ Called(by, n).by = by /\ Called(by, n).step = "called"
  <1>1. Called(by, n) \in Flush
    BY DEF Called, Flush
  <1> QED BY <1>1, ShellAssumption DEF Called

\* What a flush may become when others queue or put back rs.
LEMMA LaterType ==
  ASSUME NEW fs \in [Flushes -> {None} \cup Flush], NEW rs \in SUBSET Records
  PROVE  /\ Later(rs, fs) \in [Flushes -> {None} \cup Flush]
         /\ \A f \in Flushes :
              /\ fs[f] = None => Later(rs, fs)[f] = None
              /\ fs[f] # None =>
                   /\ Later(rs, fs)[f] # None
                   /\ Later(rs, fs)[f].by = fs[f].by
                   /\ Later(rs, fs)[f].step = fs[f].step
                   /\ Later(rs, fs)[f].todo = fs[f].todo
                   /\ Later(rs, fs)[f].failed = fs[f].failed
                   /\ fs[f].step = "sending" /\ ~fs[f].failed =>
                        Later(rs, fs)[f].since = fs[f].since \cup rs
  <1> SUFFICES ASSUME NEW f \in Flushes
               PROVE  /\ Later(rs, fs)[f] \in {None} \cup Flush
                      /\ fs[f] = None => Later(rs, fs)[f] = None
                      /\ fs[f] # None =>
                           /\ Later(rs, fs)[f] # None
                           /\ Later(rs, fs)[f].by = fs[f].by
                           /\ Later(rs, fs)[f].step = fs[f].step
                           /\ Later(rs, fs)[f].todo = fs[f].todo
                           /\ Later(rs, fs)[f].failed = fs[f].failed
                           /\ fs[f].step = "sending" /\ ~fs[f].failed =>
                                Later(rs, fs)[f].since = fs[f].since \cup rs
    BY DEF Later
  <1> DEFINE idle == fs[f] = None \/ fs[f].step # "sending" \/ fs[f].failed
             new == [fs[f] EXCEPT !.since = @ \cup rs]
  <1>1. CASE idle
    <2>1. Later(rs, fs)[f] = fs[f]
      BY <1>1 DEF Later
    <2> QED BY <1>1, <2>1
  <1>2. CASE ~idle
    <2>1. Later(rs, fs)[f] = new /\ fs[f] \in Flush
      BY <1>2 DEF Later
    <2>2. /\ new \in Flush /\ new.by = fs[f].by /\ new.step = fs[f].step
          /\ new.todo = fs[f].todo /\ new.failed = fs[f].failed
          /\ new.since = fs[f].since \cup rs
      BY <2>1 DEF Flush
    <2> QED BY <1>2, <2>1, <2>2, ShellAssumption
  <1> QED BY <1>1, <1>2

LEMMA SettleType ==
  ASSUME NEW i \in Island, NEW count \in Nat, NEW off \in BOOLEAN
  PROVE  /\ Settle(i, count, off) \in Island
         /\ Settle(i, count, off).count = count
         /\ Settle(i, count, off).flushing = i.flushing
  <1>1. CASE i.prev > 0 /\ count = 0 /\ ~off
    <2>1. Settle(i, count, off) = [i EXCEPT !.count = count, !.complete = TRUE]
      BY <1>1 DEF Settle
    <2> QED BY <1>1, <2>1 DEF Island
  <1>2. CASE ~(i.prev > 0 /\ count = 0 /\ ~off)
    <2>1. Settle(i, count, off) = [i EXCEPT !.count = count, !.prev = count]
      BY <1>2 DEF Settle
    <2> QED BY <2>1 DEF Island
  <1> QED BY <1>1, <1>2

LEMMA AskType ==
  ASSUME TypeInv, Ask
  PROVE  checks' \in 1 .. MaxChecks
  BY ShellAssumption DEF TypeInv, Ask

LEMMA NotedType ==
  ASSUME TypeInv, NEW rs \in SUBSET Records, Noted(rs)
  PROVE  /\ digest' \in {None} \cup Digest
         /\ digest = None => digest' = None
         /\ digest # None /\ ~digest.failed =>
              ~digest'.failed /\ digest'.since = digest.since \cup rs
         /\ digest # None /\ digest.failed => digest' = digest
  <1>1. CASE digest = None \/ digest.failed
    BY <1>1 DEF Noted, TypeInv
  <1>2. CASE digest # None /\ ~digest.failed
    <2>1. digest' = [digest EXCEPT !.since = @ \cup rs] /\ digest \in Digest
      BY <1>2 DEF Noted, TypeInv
    <2> QED BY <1>2, <2>1 DEF Digest
  <1> QED BY <1>1, <1>2

-----------------------------------------------------------------------------
(* The invariant.                                                          *)

\* What is queued is still to be dealt with by each flush that sends and has not
\* failed, or came later.
Covers(q, fl) ==
  fl.step = "sending" /\ ~fl.failed => q \subseteq fl.todo \cup fl.since

FlushCovers == \A f \in Busy : Covers(queue, flush[f])

\* The count is right, or will be read again: some is asked for, or a flush is
\* under way that tells; or something is untold.
Counted ==
  checks = 0 /\ ~untold /\ (\A f \in Busy : flush[f].by = "event") =>
    island.count = Cardinality(queue)

ShellInv == TypeInv /\ FlushCovers /\ NoFakeAllSynced /\ Counted

LEMMA InitShell ==
  ASSUME Init
  PROVE  ShellInv
  <1>1. Busy = {} /\ checks = 1
    BY DEF Init, Busy
  <1>2. island \in Island /\ ~island.flushing
    BY DEF Init, Island
  <1>3. checks \in 0 .. MaxChecks /\ queued \in 0 .. MaxQueued
    BY ShellAssumption DEF Init
  <1>4. TypeInv
    BY <1>1, <1>2, <1>3 DEF Init, TypeInv, OneTap, Taps
  <1>5. FlushCovers /\ Counted
    BY <1>1 DEF FlushCovers, Counted
  <1>6. NoFakeAllSynced
    BY DEF Init, NoFakeAllSynced
  <1> QED BY <1>4, <1>5, <1>6 DEF ShellInv

\* What the steps find.
LEMMA Typed ==
  ASSUME ShellInv
  PROVE  /\ queue \in SUBSET Records /\ Cardinality(queue) \in Nat
         /\ online \in BOOLEAN /\ manual \in BOOLEAN /\ untold \in BOOLEAN
         /\ checks \in 0 .. MaxChecks /\ queued \in 0 .. MaxQueued
         /\ island \in Island /\ island.count \in Nat /\ island.flushing \in BOOLEAN
         /\ flush \in [Flushes -> {None} \cup Flush]
         /\ digest \in {None} \cup Digest
  BY CountType DEF ShellInv, TypeInv, Island

LEMMA CountsType ==
  ASSUME NEW n \in 0 .. Cardinality(Records)
  PROVE  n \in Nat
  BY ShellAssumption, FS_CardinalityType

-----------------------------------------------------------------------------
(* Steps that start no flush.                                              *)

\* Steps that touch no flush and no record.
LEMMA QuietStep ==
  ASSUME ShellInv, UNCHANGED <<queue, flush, manual, queued>>,
         digest' \in {digest, None}
  PROVE  /\ Busy' = Busy /\ FlushCovers' /\ NoFakeAllSynced'
         /\ island'.flushing = island.flushing => OneTap'
  <1>1. Busy' = Busy
    BY DEF Busy
  <1> QED BY <1>1 DEF ShellInv, TypeInv, OneTap, Taps, FlushCovers, Covers,
                      NoFakeAllSynced

LEMMA CheckQueueStep ==
  ASSUME ShellInv, NEW n \in 0 .. Cardinality(Records), CheckQueue(n)
  PROVE  ShellInv'
  <1>1. /\ UNCHANGED <<queue, online, manual, flush, digest, queued>>
        /\ checks > 0 /\ checks' = checks - 1
        /\ untold' = (n # Cardinality(queue))
        /\ island' = IF n = island.count THEN island ELSE Settle(island, n, ~online)
    BY DEF CheckQueue
  <1>2. Busy' = Busy /\ FlushCovers' /\ NoFakeAllSynced'
        /\ (island'.flushing = island.flushing => OneTap')
    BY <1>1, QuietStep
  <1>3. island' \in Island /\ island'.flushing = island.flushing /\ island'.count = n
    <2> DEFINE off == ~online
    <2>1. off \in BOOLEAN /\ island \in Island /\ n \in Nat
      BY Typed, CountsType
    <2>2. island' = IF n = island.count THEN island ELSE Settle(island, n, off)
      BY <1>1
    <2> HIDE DEF off
    <2> QED BY <2>1, <2>2, SettleType
  <1>4. checks' \in 0 .. MaxChecks /\ untold' \in BOOLEAN
    BY <1>1, Typed, ShellAssumption
  <1>5. TypeInv'
    BY <1>1, <1>2, <1>3, <1>4, Typed DEF TypeInv
  <1>6. Counted'
    BY <1>1, <1>3 DEF Counted
  <1> QED BY <1>2, <1>5, <1>6 DEF ShellInv

LEMMA OfflineStep ==
  ASSUME ShellInv, Offline
  PROVE  ShellInv'
  <1>1. /\ UNCHANGED <<queue, manual, flush, checks, digest, queued, untold>>
        /\ online' = FALSE /\ island' = Settle(island, island.count, TRUE)
    BY DEF Offline
  <1>2. Busy' = Busy /\ FlushCovers' /\ NoFakeAllSynced'
        /\ (island'.flushing = island.flushing => OneTap')
    BY <1>1, QuietStep
  <1>3. /\ island' \in Island /\ island'.flushing = island.flushing
        /\ island'.count = island.count
    BY <1>1, Typed, SettleType
  <1>4. TypeInv'
    BY <1>1, <1>2, <1>3, Typed DEF TypeInv
  <1>5. Counted'
    BY <1>1, <1>2, <1>3 DEF ShellInv, Counted
  <1> QED BY <1>2, <1>4, <1>5 DEF ShellInv

LEMMA EasyStep ==
  ASSUME ShellInv, Visible \/ TimerEnds \/ Dismiss \/ UNCHANGED vars
  PROVE  ShellInv'
  <1>1. /\ UNCHANGED <<queue, online, manual, flush, queued, untold>>
        /\ digest' \in {digest, None}
    BY DEF Visible, TimerEnds, Dismiss, vars
  <1>2. Busy' = Busy /\ FlushCovers' /\ NoFakeAllSynced'
        /\ (island'.flushing = island.flushing => OneTap')
    BY <1>1, QuietStep
  <1>3. island' = island \/ island' = [island EXCEPT !.complete = FALSE]
    BY DEF Visible, TimerEnds, Dismiss, vars
  <1>4. /\ island' \in Island /\ island'.flushing = island.flushing
        /\ island'.count = island.count
    BY <1>3, Typed DEF Island
  <1>5. checks' \in 0 .. MaxChecks /\ checks' >= checks
    BY Typed, ShellAssumption DEF Visible, Ask, TimerEnds, Dismiss, vars
  <1>6. TypeInv'
    BY <1>1, <1>2, <1>4, <1>5, Typed DEF TypeInv
  <1>7. Counted'
    BY <1>1, <1>2, <1>4, <1>5, Typed DEF ShellInv, Counted
  <1> QED BY <1>2, <1>6, <1>7 DEF ShellInv

-----------------------------------------------------------------------------
(* Flushes that are called.                                                *)

\* A flush is called.
LEMMA CalledStep ==
  ASSUME ShellInv, NEW f \in Flushes, flush[f] = None, NEW by \in Origins,
         NEW n \in Nat, flush' = [flush EXCEPT ![f] = Called(by, n)],
         UNCHANGED <<queue, digest>>,
         by = "tap" => ~island.flushing,
         island'.flushing <=> (island.flushing \/ by = "tap")
  PROVE  /\ flush' \in [Flushes -> {None} \cup Flush] /\ OneTap' /\ FlushCovers'
         /\ Busy \subseteq Busy' /\ \A g \in Busy : flush'[g] = flush[g]
         /\ NoFakeAllSynced'
  <1>1. OneTap /\ FlushCovers
    BY DEF ShellInv, TypeInv
  <1>2. NoFakeAllSynced'
    BY DEF ShellInv, NoFakeAllSynced
  <1> DEFINE new == Called(by, n)
  <1>3. new \in Flush /\ new # None /\ new.by = by /\ new.step = "called"
    BY CalledType
  <1>4. flush' = [flush EXCEPT ![f] = new]
    OBVIOUS
  <1> HIDE DEF new
  <1>5. Busy' = Busy \cup {f} /\ f \notin Busy
    BY <1>3, <1>4, Typed DEF Busy
  <1>6. (\A g \in Busy : flush'[g] = flush[g]) /\ flush'[f] = new
    BY <1>4, <1>5, Typed DEF Busy
  <1>7. flush' \in [Flushes -> {None} \cup Flush]
    BY <1>3, <1>4, Typed
  <1>8. OneTap'
    <2>1. Taps' = IF by = "tap" THEN Taps \cup {f} ELSE Taps
      BY <1>3, <1>5, <1>6 DEF Taps
    <2> QED BY <1>1, <2>1 DEF OneTap
  <1>9. FlushCovers'
    BY <1>1, <1>3, <1>5, <1>6 DEF FlushCovers, Covers
  <1> QED BY <1>2, <1>5, <1>6, <1>7, <1>8, <1>9

LEMMA BeginStep ==
  ASSUME ShellInv, NEW f \in Flushes, NEW n \in 0 .. Cardinality(Records),
         Call(f, n) \/ Tap(f, n) \/ Online(f) \/ Switch(f)
  PROVE  ShellInv'
  <1>1. /\ UNCHANGED <<queue, digest, queued, untold>> /\ flush[f] = None
        /\ n \in Nat /\ 0 \in Nat
    BY CountsType DEF Call, Tap, Online, Switch
  <1>2. /\ online' \in BOOLEAN /\ manual' \in BOOLEAN
        /\ checks' \in 0 .. MaxChecks /\ checks' >= checks
    <2>1. checks' = checks \/ Ask
      BY DEF Call, Tap, Online, Switch
    <2>2. checks' \in 0 .. MaxChecks /\ checks' >= checks
      BY <2>1, Typed, ShellAssumption DEF Ask
    <2>3. online' \in BOOLEAN /\ manual' \in BOOLEAN
      BY Typed DEF Call, Tap, Online, Switch
    <2> QED BY <2>2, <2>3
  <1>3. island' \in Island /\ island'.count = island.count
    <2>1. CASE Tap(f, n)
      <3>1. island' = [island EXCEPT !.flushing = (n # 0)]
        BY <2>1 DEF Tap
      <3> QED BY <3>1, Typed DEF Island
    <2>2. CASE Online(f)
      <3>1. island' = Settle(island, island.count, FALSE)
        BY <2>2 DEF Online
      <3> QED BY <3>1, Typed, SettleType
    <2>3. CASE Call(f, n) \/ Switch(f)
      <3>1. island' = island
        BY <2>3 DEF Call, Switch
      <3> QED BY <3>1, Typed
    <2> QED BY <2>1, <2>2, <2>3
  <1>4. /\ flush' \in [Flushes -> {None} \cup Flush] /\ OneTap' /\ FlushCovers'
        /\ Busy \subseteq Busy' /\ \A g \in Busy : flush'[g] = flush[g]
        /\ NoFakeAllSynced'
    <2>1. CASE flush' = flush /\ island'.flushing = island.flushing
      <3>1. Busy' = Busy
        BY <2>1 DEF Busy
      <3> QED BY <1>1, <2>1, <3>1, Typed
           DEF ShellInv, TypeInv, OneTap, Taps, FlushCovers, NoFakeAllSynced
    <2>2. CASE Tap(f, n)
      <3>1. /\ ~island.flushing /\ "tap" \in Origins
            /\ island' = [island EXCEPT !.flushing = (n # 0)]
            /\ flush' = IF n = 0 THEN flush ELSE [flush EXCEPT ![f] = Called("tap", n)]
        BY <2>2 DEF Tap, Flushed, Origins
      <3>2. island'.flushing <=> n # 0
        BY <3>1, Typed DEF Island
      <3>3. CASE n = 0
        BY <2>1, <3>1, <3>2, <3>3, Typed
      <3>4. CASE n # 0
        BY <1>1, <3>1, <3>2, <3>4, CalledStep
      <3> QED BY <3>3, <3>4
    <2>3. CASE Call(f, n)
      <3>1. /\ island' = island /\ "call" \in Origins
            /\ flush' = IF n = 0 THEN flush ELSE [flush EXCEPT ![f] = Called("call", n)]
        BY <2>3 DEF Call, Flushed, Origins
      <3>2. CASE n = 0
        BY <2>1, <3>1, <3>2
      <3>3. CASE n # 0
        BY <1>1, <3>1, <3>3, CalledStep
      <3> QED BY <3>2, <3>3
    <2>4. CASE Online(f)
      <3>1. island'.flushing = island.flushing
        BY <2>4, Typed, SettleType DEF Online
      <3>2. CASE ~manual
        <4>1. flush' = [flush EXCEPT ![f] = Called("event", 0)] /\ "event" \in Origins
          BY <2>4, <3>2 DEF Online, Origins
        <4> QED BY <1>1, <3>1, <4>1, CalledStep
      <3>3. CASE manual
        BY <2>1, <2>4, <3>1, <3>3 DEF Online
      <3> QED BY <3>2, <3>3
    <2>5. CASE Switch(f)
      <3>1. island' = island
        BY <2>5 DEF Switch
      <3>2. CASE manual /\ online
        <4>1. flush' = [flush EXCEPT ![f] = Called("event", 0)] /\ "event" \in Origins
          BY <2>5, <3>2 DEF Switch, Origins
        <4> QED BY <1>1, <3>1, <4>1, CalledStep
      <3>3. CASE ~(manual /\ online)
        BY <2>1, <2>5, <3>1, <3>3 DEF Switch
      <3> QED BY <3>2, <3>3
    <2> QED BY <2>2, <2>3, <2>4, <2>5
  <1>5. TypeInv'
    BY <1>1, <1>2, <1>3, <1>4, Typed DEF TypeInv
  <1>6. Counted'
    BY <1>1, <1>2, <1>3, <1>4, Typed DEF ShellInv, Counted
  <1> QED BY <1>4, <1>5, <1>6 DEF ShellInv

-----------------------------------------------------------------------------
(* What is queued meanwhile.                                               *)

\* A flush table that knows of what is queued goes on doing so when rs is queued.
LEMMA LaterCovers ==
  ASSUME NEW fs \in [Flushes -> {None} \cup Flush], NEW rs \in SUBSET Records,
         \A f \in Flushes : fs[f] # None => Covers(queue, fs[f])
  PROVE  \A f \in Flushes :
           Later(rs, fs)[f] # None => Covers(queue \cup rs, Later(rs, fs)[f])
  <1> TAKE f \in Flushes
  <1> DEFINE new == Later(rs, fs)[f]
  <1> HAVE new # None
  <1>1. /\ fs[f] # None /\ new.step = fs[f].step
        /\ new.todo = fs[f].todo /\ new.failed = fs[f].failed
        /\ fs[f].step = "sending" /\ ~fs[f].failed => new.since = fs[f].since \cup rs
    BY LaterType
  <1> HIDE DEF new
  <1>2. Covers(queue, fs[f])
    BY <1>1
  <1>3. Covers(queue \cup rs, new)
    BY <1>1, <1>2 DEF Covers
  <1> QED BY <1>3 DEF new

LEMMA NotedCovers ==
  ASSUME ShellInv, NEW rs \in SUBSET Records, Noted(rs), queue' \subseteq queue \cup rs
  PROVE  digest' \in {None} \cup Digest /\ NoFakeAllSynced'
  <1>1. TypeInv /\ NoFakeAllSynced
    BY DEF ShellInv
  <1> QED BY <1>1, NotedType DEF NoFakeAllSynced

\* Records are queued beside the flushes.
LEMMA LaterStep ==
  ASSUME ShellInv, NEW rs \in SUBSET Records, queue' = queue \cup rs, Noted(rs),
         flush' = Later(rs, flush), queued < MaxQueued, queued' = queued + 1,
         UNCHANGED <<online, manual, island>>,
         checks' \in 0 .. MaxChecks, untold' \in BOOLEAN, checks' > 0 \/ untold'
  PROVE  ShellInv'
  <1>1. flush \in [Flushes -> {None} \cup Flush]
    BY Typed
  <1>2. /\ flush' \in [Flushes -> {None} \cup Flush]
        /\ Busy' = Busy /\ \A f \in Busy : flush'[f].by = flush[f].by
    BY <1>1, LaterType DEF Busy
  <1>3. FlushCovers'
    <2>1. \A f \in Flushes : flush[f] # None => Covers(queue, flush[f])
      BY DEF ShellInv, FlushCovers, Busy
    <2> QED BY <1>1, <2>1, LaterCovers DEF FlushCovers, Busy
  <1>4. digest' \in {None} \cup Digest /\ NoFakeAllSynced'
    BY NotedCovers
  <1>5. queued' \in 0 .. MaxQueued
    BY Typed, ShellAssumption
  <1>6. OneTap'
    <2>1. Taps' = Taps
      BY <1>2 DEF Taps
    <2> QED BY <2>1 DEF ShellInv, TypeInv, OneTap
  <1>7. TypeInv'
    BY <1>2, <1>4, <1>5, <1>6, Typed DEF TypeInv
  <1>8. Counted'
    BY DEF Counted
  <1> QED BY <1>3, <1>4, <1>7, <1>8 DEF ShellInv

LEMMA EnqueueStep ==
  ASSUME ShellInv, NEW r \in Records, Enqueue(r)
  PROVE  ShellInv'
  <1>1. /\ queue' = queue \cup {r} /\ queued < MaxQueued /\ queued' = queued + 1
        /\ flush' = Later({r}, flush) /\ Noted({r}) /\ Ask
        /\ UNCHANGED <<online, manual, island, untold>>
    BY DEF Enqueue
  <1>2. checks' \in 1 .. MaxChecks /\ untold' \in BOOLEAN
    BY <1>1, AskType, Typed DEF ShellInv
  <1>3. checks' \in 0 .. MaxChecks /\ checks' > 0
    BY <1>2, ShellAssumption
  <1> QED BY <1>1, <1>2, <1>3, LaterStep

LEMMA ImportFailsStep ==
  ASSUME ShellInv, NEW rs \in SUBSET Records, ImportFails(rs)
  PROVE  ShellInv'
  <1>1. /\ queue' = queue \cup rs /\ queued < MaxQueued /\ queued' = queued + 1
        /\ flush' = Later(rs, flush) /\ Noted(rs) /\ untold' = TRUE
        /\ UNCHANGED <<online, manual, checks, island>>
    BY DEF ImportFails, Added
  <1>2. checks' \in 0 .. MaxChecks
    BY <1>1, Typed
  <1> QED BY <1>1, <1>2, LaterStep

LEMMA ImportStep ==
  ASSUME ShellInv, NEW f \in Flushes, NEW rs \in SUBSET Records,
         NEW n \in 0 .. Cardinality(Records), Import(f, rs, n)
  PROVE  ShellInv'
  <1> DEFINE all == queue \cup rs
             fs == Later(rs, flush)
             new == IF n = 0 THEN None ELSE Called("call", n)
  <1>1. /\ flush[f] = None /\ queued < MaxQueued /\ queued' = queued + 1
        /\ queue' = all /\ Noted(rs)
        /\ flush' = [fs EXCEPT ![f] = new]
        /\ untold' = (untold \/ n = 0)
        /\ UNCHANGED <<online, manual, checks, island>>
    BY DEF Import, Added
  <1>2. CASE n = 0
    <2>1. fs \in [Flushes -> {None} \cup Flush] /\ fs[f] = None
      BY <1>1, Typed, LaterType
    <2>2. flush' = fs
      <3> HIDE DEF fs
      <3> QED BY <1>1, <1>2, <2>1
    <2>3. untold' = TRUE /\ checks' \in 0 .. MaxChecks
      BY <1>1, <1>2, Typed
    <2> QED BY <1>1, <2>2, <2>3, LaterStep
  <1>3. CASE n # 0
    <2>1. new \in Flush /\ new # None /\ new.by = "call" /\ new.step = "called"
      BY <1>3, CountsType, CalledType DEF Origins
    <2>2. /\ fs \in [Flushes -> {None} \cup Flush]
          /\ \A g \in Flushes : flush[g] = None <=> fs[g] = None
          /\ \A g \in Busy : fs[g].by = flush[g].by
      BY Typed, LaterType DEF Busy
    <2>3. \A g \in Flushes : fs[g] # None => Covers(all, fs[g])
      <3>1. \A g \in Flushes : flush[g] # None => Covers(queue, flush[g])
        BY DEF ShellInv, FlushCovers, Busy
      <3> QED BY <3>1, Typed, LaterCovers
    <2> HIDE DEF new, fs
    <2>4. /\ flush' \in [Flushes -> {None} \cup Flush] /\ flush'[f] = new
          /\ \A g \in Flushes \ {f} : flush'[g] = fs[g]
      BY <1>1, <2>1, <2>2
    <2>5. /\ Busy' = Busy \cup {f} /\ f \notin Busy
          /\ \A g \in Busy : flush'[g].by = flush[g].by
      BY <1>1, <2>1, <2>2, <2>4 DEF Busy
    <2>6. FlushCovers'
      <3>1. Covers(all, new)
        BY <2>1 DEF Covers
      <3>2. \A g \in Busy : Covers(all, flush'[g])
        BY <2>2, <2>3, <2>4, <2>5 DEF Busy
      <3> QED BY <1>1, <2>4, <2>5, <3>1, <3>2 DEF FlushCovers
    <2>7. digest' \in {None} \cup Digest /\ NoFakeAllSynced'
      BY <1>1, NotedCovers
    <2>8. queued' \in 0 .. MaxQueued /\ untold' \in BOOLEAN /\ queue' \subseteq Records
      BY <1>1, Typed, ShellAssumption
    <2>9. OneTap'
      <3>1. Taps' = Taps
        BY <2>1, <2>4, <2>5 DEF Taps
      <3> QED BY <1>1, <3>1 DEF ShellInv, TypeInv, OneTap
    <2>10. TypeInv'
      BY <1>1, <2>4, <2>7, <2>8, <2>9, Typed DEF TypeInv
    <2>11. Counted'
      BY <2>1, <2>4, <2>5 DEF Counted
    <2> QED BY <2>6, <2>7, <2>10, <2>11 DEF ShellInv
  <1> QED BY <1>2, <1>3

-----------------------------------------------------------------------------
(* Flushes that go on.                                                     *)

\* What a flush is when syncQueue has returned to it.
Over(f) == [Called(flush[f].by, flush[f].before) EXCEPT !.step = "returned"]

\* A flush returns; the digest and the island's tap are dealt with elsewhere.
LEMMA ReturnStep ==
  ASSUME ShellInv, NEW f \in Flushes, f \in Busy, Return(f),
         UNCHANGED <<queue, online, manual, checks, island, queued, untold>>,
         digest' \in {None} \cup Digest
  PROVE  TypeInv' /\ FlushCovers' /\ Counted'
  <1>1. flush[f] \in Flush /\ flush[f] # None
    BY Typed DEF Busy
  <1>2. Over(f) \in Flush /\ Over(f) # None
        /\ Over(f).by = flush[f].by /\ Over(f).step = "returned"
    <2>1. Over(f) \in Flush
      BY <1>1 DEF Over, Called, Flush
    <2> QED BY <2>1, ShellAssumption DEF Over, Called
  <1> DEFINE new == IF flush[f].by = "event" THEN None ELSE Over(f)
  <1>3. flush' = [flush EXCEPT ![f] = new]
    BY Typed DEF Return, Over
  <1>4. new \in {None} \cup Flush /\ (new = None <=> flush[f].by = "event")
        /\ (new # None => new.by = flush[f].by /\ new.step = "returned")
    BY <1>2
  <1> HIDE DEF new
  <1>5. /\ flush' \in [Flushes -> {None} \cup Flush] /\ flush'[f] = new
        /\ \A g \in Flushes \ {f} : flush'[g] = flush[g]
    BY <1>3, <1>4, Typed
  <1>6. Busy' \cup {f} = Busy /\ (f \notin Busy' => flush[f].by = "event")
        /\ \A g \in Busy' : flush'[g].by = flush[g].by
    BY <1>4, <1>5 DEF Busy
  <1>7. TypeInv'
    <2>1. Taps' = Taps
      BY <1>6 DEF Taps
    <2>2. OneTap'
      BY <2>1 DEF ShellInv, TypeInv, OneTap
    <2> QED BY <1>5, <2>2, Typed DEF TypeInv
  <1>8. FlushCovers'
    <2>1. ASSUME NEW g \in Busy' PROVE Covers(queue, flush'[g])
      <3>1. CASE g = f
        BY <1>4, <1>5, <2>1, <3>1 DEF Covers, Busy
      <3>2. CASE g # f
        BY <1>5, <2>1, <3>2 DEF ShellInv, FlushCovers, Busy
      <3> QED BY <3>1, <3>2
    <2> QED BY <2>1 DEF FlushCovers
  <1>9. Counted'
    BY <1>6 DEF ShellInv, Counted
  <1> QED BY <1>7, <1>8, <1>9

LEMMA ReadStep ==
  ASSUME ShellInv, NEW f \in Flushes, NEW ok \in BOOLEAN, Begin(f, ok)
  PROVE  ShellInv'
  <1>1. /\ f \in Busy
        /\ UNCHANGED <<queue, online, manual, checks, island, digest, queued, untold>>
    BY DEF Begin, At
  <1>2. NoFakeAllSynced' /\ digest' \in {None} \cup Digest
    BY <1>1, Typed DEF ShellInv, NoFakeAllSynced
  <1>3. CASE Return(f)
    BY <1>1, <1>2, <1>3, ReturnStep DEF ShellInv
  <1>4. CASE ~Return(f)
    <2> DEFINE new == [flush[f] EXCEPT !.step = "sending", !.todo = queue]
    <2>1. flush' = [flush EXCEPT ![f] = new]
      BY <1>4, Typed DEF Begin
    <2>2. flush[f] \in Flush
      BY <1>1, Typed DEF Busy
    <2>3. new \in Flush /\ new # None /\ new.by = flush[f].by /\ new.todo = queue
      BY <2>2, Typed, ShellAssumption DEF Flush
    <2> HIDE DEF new
    <2>4. /\ flush' \in [Flushes -> {None} \cup Flush] /\ flush'[f] = new
          /\ Busy' = Busy /\ \A g \in Busy \ {f} : flush'[g] = flush[g]
      BY <1>1, <2>1, <2>3, Typed DEF Busy
    <2>5. \A g \in Busy : flush'[g].by = flush[g].by
      BY <2>3, <2>4
    <2>6. FlushCovers'
      <3>1. ASSUME NEW g \in Busy PROVE Covers(queue, flush'[g])
        <4>1. CASE g = f
          BY <2>3, <2>4, <4>1 DEF Covers
        <4>2. CASE g # f
          BY <2>4, <4>2 DEF ShellInv, FlushCovers
        <4> QED BY <4>1, <4>2
      <3> QED BY <1>1, <2>4, <3>1 DEF FlushCovers
    <2>7. TypeInv'
      <3>1. Taps' = Taps
        BY <2>4, <2>5 DEF Taps
      <3>2. OneTap'
        BY <1>1, <3>1 DEF ShellInv, TypeInv, OneTap
      <3> QED BY <1>1, <1>2, <2>4, <3>2, Typed DEF TypeInv
    <2>8. Counted'
      BY <1>1, <2>4, <2>5 DEF ShellInv, Counted
    <2> QED BY <1>2, <2>6, <2>7, <2>8 DEF ShellInv
  <1> QED BY <1>3, <1>4

\* What a flush is when it has dealt with r.
Dealt(f, r, ok) == [flush[f] EXCEPT !.todo = @ \ {r}, !.failed = @ \/ ~ok,
                                    !.since = IF ok THEN @ ELSE {}]

LEMMA DealtType ==
  ASSUME ShellInv, NEW f \in Busy, NEW r \in Records, NEW ok \in BOOLEAN
  PROVE  /\ Dealt(f, r, ok) \in Flush /\ Dealt(f, r, ok) # None
         /\ Dealt(f, r, ok).by = flush[f].by
         /\ Dealt(f, r, ok).step = flush[f].step
         /\ ~Dealt(f, r, ok).failed =>
              /\ ok /\ ~flush[f].failed
              /\ Dealt(f, r, ok).todo = flush[f].todo \ {r}
              /\ Dealt(f, r, ok).since = flush[f].since
  <1>1. flush[f] \in Flush
    BY Typed DEF Busy
  <1>2. CASE ok
    <2>1. Dealt(f, r, ok) = [flush[f] EXCEPT !.todo = @ \ {r}]
      BY <1>1, <1>2 DEF Flush, Dealt
    <2>2. Dealt(f, r, ok) \in Flush
      BY <1>1, <2>1 DEF Flush
    <2>3. /\ Dealt(f, r, ok).by = flush[f].by /\ Dealt(f, r, ok).step = flush[f].step
          /\ Dealt(f, r, ok).todo = flush[f].todo \ {r} /\ Dealt(f, r, ok).failed = flush[f].failed
          /\ Dealt(f, r, ok).since = flush[f].since
      BY <1>1, <2>1 DEF Flush
    <2> QED BY <1>2, <2>2, <2>3, ShellAssumption
  <1>3. CASE ~ok
    <2>1. Dealt(f, r, ok) =
            [flush[f] EXCEPT !.todo = @ \ {r}, !.failed = TRUE, !.since = {}]
      BY <1>1, <1>3 DEF Flush, Dealt
    <2>2. Dealt(f, r, ok) \in Flush
      BY <1>1, <2>1 DEF Flush
    <2>3. /\ Dealt(f, r, ok).by = flush[f].by /\ Dealt(f, r, ok).step = flush[f].step
          /\ Dealt(f, r, ok).failed = TRUE
      BY <1>1, <2>1 DEF Flush
    <2> QED BY <1>3, <2>2, <2>3, ShellAssumption
  <1> QED BY <1>2, <1>3

LEMMA RemovesStep ==
  ASSUME ShellInv, NEW f \in Flushes, NEW r \in Records, NEW ok \in BOOLEAN,
         Removes(f, r, ok)
  PROVE  ShellInv'
  <1> DEFINE new == Dealt(f, r, ok)
  <1>1. /\ f \in Busy /\ queue' = queue \ {r}
        /\ untold' = (untold \/ (flush[f].by = "event" /\ r \in queue))
        /\ UNCHANGED <<online, manual, checks, island, digest, queued>>
    BY DEF Removes, At
  <1>2. flush' = [flush EXCEPT ![f] = new]
    BY Typed DEF Removes, Dealt
  <1>3. /\ new \in Flush /\ new # None /\ new.by = flush[f].by
        /\ new.step = flush[f].step
        /\ ~new.failed => /\ ok /\ ~flush[f].failed
                          /\ new.todo = flush[f].todo \ {r}
                          /\ new.since = flush[f].since
    BY <1>1, DealtType
  <1> HIDE DEF new
  <1>4. /\ flush' \in [Flushes -> {None} \cup Flush] /\ flush'[f] = new
        /\ Busy' = Busy /\ \A g \in Busy \ {f} : flush'[g] = flush[g]
    BY <1>1, <1>2, <1>3, Typed DEF Busy
  <1>5. \A g \in Busy : flush'[g].by = flush[g].by
    BY <1>3, <1>4
  <1>6. FlushCovers'
    <2>1. ASSUME NEW g \in Busy PROVE Covers(queue', flush'[g])
      <3>1. CASE g = f
        <4>1. Covers(queue, flush[f])
          BY <1>1 DEF ShellInv, FlushCovers
        <4> QED BY <1>1, <1>3, <1>4, <3>1, <4>1 DEF Covers
      <3>2. CASE g # f
        BY <1>1, <1>4, <3>2 DEF ShellInv, FlushCovers, Covers
      <3> QED BY <3>1, <3>2
    <2> QED BY <1>4, <2>1 DEF FlushCovers
  <1>7. TypeInv'
    <2>1. Taps' = Taps
      BY <1>4, <1>5 DEF Taps
    <2>2. OneTap'
      BY <1>1, <2>1 DEF ShellInv, TypeInv, OneTap
    <2>3. queue' \subseteq Records /\ untold' \in BOOLEAN
      BY <1>1, Typed
    <2> QED BY <1>1, <1>4, <2>2, <2>3, Typed DEF TypeInv
  <1>8. Counted'
    <2>1. CASE flush[f].by = "event" /\ r \in queue
      BY <1>1, <2>1 DEF Counted
    <2>2. CASE flush[f].by # "event"
      BY <1>1, <1>4, <1>5, <2>2 DEF Counted
    <2>3. CASE r \notin queue
      <3>1. queue' = queue /\ (untold' => untold) /\ (untold => untold')
        BY <1>1, <2>3, Typed
      <3> QED BY <1>1, <1>4, <1>5, <3>1 DEF ShellInv, Counted
    <2> QED BY <2>1, <2>2, <2>3
  <1>9. NoFakeAllSynced'
    BY <1>1 DEF ShellInv, NoFakeAllSynced
  <1> QED BY <1>6, <1>7, <1>8, <1>9 DEF ShellInv

LEMMA KeepsStep ==
  ASSUME ShellInv, NEW f \in Flushes, NEW r \in Records, Keeps(f, r)
  PROVE  ShellInv'
  <1> DEFINE new == [flush[f] EXCEPT !.todo = @ \ {r}, !.failed = TRUE, !.since = {}]
             fs == Kept(f, r)
             back == {r} \ queue
  <1>1. /\ f \in Busy /\ queue' = queue \cup {r} /\ Noted(back)
        /\ flush' = Later(back, fs)
        /\ untold' = (untold \/ (flush[f].by = "event" /\ r \notin queue))
        /\ UNCHANGED <<online, manual, checks, island, queued>>
    BY DEF Keeps, At
  <1>2. new \in Flush /\ new # None /\ new.by = flush[f].by /\ new.failed
    <2>1. flush[f] \in Flush
      BY <1>1, Typed DEF Busy
    <2> QED BY <2>1, ShellAssumption DEF Flush
  <1>3. fs = [flush EXCEPT ![f] = new]
    BY Typed DEF Kept
  <1> HIDE DEF new, fs
  <1>4. /\ fs \in [Flushes -> {None} \cup Flush] /\ fs[f] = new
        /\ \A g \in Flushes \ {f} : fs[g] = flush[g]
    BY <1>2, <1>3, Typed
  <1>5. back \in SUBSET Records
    OBVIOUS
  <1>6. /\ flush' \in [Flushes -> {None} \cup Flush] /\ Busy' = Busy
        /\ \A g \in Busy : flush'[g].by = flush[g].by
    BY <1>1, <1>2, <1>4, <1>5, LaterType DEF Busy
  <1>7. FlushCovers'
    <2>1. \A g \in Flushes : fs[g] # None => Covers(queue, fs[g])
      <3>1. Covers(queue, new)
        BY <1>2 DEF Covers
      <3> QED BY <1>4, <3>1 DEF ShellInv, FlushCovers, Busy
    <2>2. \A g \in Flushes : flush'[g] # None => Covers(queue \cup back, flush'[g])
      BY <1>1, <1>4, <1>5, <2>1, LaterCovers
    <2>3. queue' = queue \cup back
      BY <1>1
    <2> QED BY <2>2, <2>3 DEF FlushCovers, Busy
  <1>8. digest' \in {None} \cup Digest /\ NoFakeAllSynced'
    BY <1>1, <1>5, NotedCovers
  <1>9. TypeInv'
    <2>1. Taps' = Taps
      BY <1>6 DEF Taps
    <2>2. OneTap'
      BY <1>1, <2>1 DEF ShellInv, TypeInv, OneTap
    <2>3. queue' \subseteq Records /\ untold' \in BOOLEAN
      BY <1>1, Typed
    <2> QED BY <1>1, <1>6, <1>8, <2>2, <2>3, Typed DEF TypeInv
  <1>10. Counted'
    <2>1. CASE flush[f].by = "event" /\ r \notin queue
      BY <1>1, <2>1 DEF Counted
    <2>2. CASE flush[f].by # "event"
      BY <1>1, <1>6, <2>2 DEF Counted
    <2>3. CASE r \in queue
      <3>1. queue' = queue /\ (untold' => untold) /\ (untold => untold')
        BY <1>1, <2>3, Typed
      <3> QED BY <1>1, <1>6, <3>1 DEF ShellInv, Counted
    <2> QED BY <2>1, <2>2, <2>3
  <1> QED BY <1>7, <1>8, <1>9, <1>10 DEF ShellInv

LEMMA EndStep ==
  ASSUME ShellInv, NEW f \in Flushes, NEW tells \in BOOLEAN, EndFlush(f, tells)
  PROVE  ShellInv'
  <1>1. /\ f \in Busy /\ flush[f].step = "sending" /\ (tells <=> flush[f].todo = {})
        /\ digest' = IF tells THEN [failed |-> flush[f].failed,
                                    since |-> flush[f].since] ELSE digest
        /\ Return(f)
        /\ UNCHANGED <<queue, online, manual, checks, island, queued, untold>>
    BY DEF EndFlush, At
  <1>2. flush[f] \in Flush
    BY <1>1, Typed DEF Busy
  <1>3. digest' \in {None} \cup Digest
    BY <1>1, <1>2, Typed DEF Flush, Digest
  <1>4. NoFakeAllSynced'
    <2>1. CASE tells
      <3>1. digest'.failed = flush[f].failed /\ digest'.since = flush[f].since
        BY <1>1, <2>1
      <3> QED BY <1>1, <2>1, <3>1 DEF ShellInv, FlushCovers, Covers, NoFakeAllSynced
    <2>2. CASE ~tells
      BY <1>1, <2>2 DEF ShellInv, NoFakeAllSynced
    <2> QED BY <2>1, <2>2
  <1> QED BY <1>1, <1>3, <1>4, ReturnStep DEF ShellInv

LEMMA AnsweredStep ==
  ASSUME ShellInv, NEW f \in Flushes, NEW n \in 0 .. Cardinality(Records),
         Answered(f, n)
  PROVE  ShellInv'
  <1>1. /\ f \in Busy /\ flush' = [flush EXCEPT ![f] = None] /\ Ask
        /\ UNCHANGED <<queue, online, manual, digest, queued, untold>>
    BY DEF Answered, At, Told
  <1>2. checks' \in 0 .. MaxChecks /\ checks' > 0
    BY <1>1, AskType, ShellAssumption DEF ShellInv
  <1>3. /\ flush' \in [Flushes -> {None} \cup Flush] /\ Busy' = Busy \ {f}
        /\ \A g \in Busy' : flush'[g] = flush[g]
    BY <1>1, Typed DEF Busy
  <1>4. island' \in Island
        /\ island'.flushing = IF flush[f].by = "tap" THEN FALSE ELSE island.flushing
    <2>1. CASE flush[f].by = "tap"
      <3> DEFINE done == (island.complete \/ AllSynced(f, n))
      <3>1. island' = [island EXCEPT !.flushing = FALSE, !.complete = done]
        BY <2>1, Typed DEF Answered, AfterTap, Island
      <3>2. done \in BOOLEAN
        BY Typed DEF Island, AllSynced
      <3> HIDE DEF done
      <3> QED BY <2>1, <3>1, <3>2, Typed DEF Island
    <2>2. CASE flush[f].by # "tap"
      BY <2>2, Typed DEF Answered
    <2> QED BY <2>1, <2>2
  <1>5. OneTap'
    <2>1. Taps' = Taps \ {f} /\ (f \in Taps <=> flush[f].by = "tap")
      BY <1>1, <1>3 DEF Taps
    <2> QED BY <1>4, <2>1 DEF ShellInv, TypeInv, OneTap
  <1>6. TypeInv'
    BY <1>1, <1>2, <1>3, <1>4, <1>5, Typed DEF TypeInv
  <1>7. FlushCovers' /\ NoFakeAllSynced' /\ Counted'
    BY <1>1, <1>2, <1>3 DEF ShellInv, FlushCovers, Covers, NoFakeAllSynced, Counted
  <1> QED BY <1>6, <1>7 DEF ShellInv

LEMMA ShellStep ==
  ASSUME ShellInv, [Next]_vars
  PROVE  ShellInv'
  <1>1. 0 \in 0 .. Cardinality(Records)
    BY ShellAssumption, FS_CardinalityType
  <1>2. ASSUME NEW f \in Flushes, FlushStep(f) PROVE ShellInv'
    BY <1>2, ReadStep, RemovesStep, KeepsStep, EndStep, AnsweredStep DEF FlushStep
  <1>3. ASSUME NEW f \in Flushes, Online(f) \/ Switch(f) PROVE ShellInv'
    BY <1>1, <1>3, BeginStep
  <1> QED BY <1>2, <1>3, CheckQueueStep, OfflineStep, EasyStep, BeginStep, ImportStep,
             ImportFailsStep, EnqueueStep DEF Next

LEMMA ShellInvariance == Spec => []ShellInv
  <1>1. Init => ShellInv
    BY InitShell
  <1>2. ShellInv /\ [Next]_vars => ShellInv'
    BY ShellStep
  <1> QED BY <1>1, <1>2, PTL DEF Spec

-----------------------------------------------------------------------------
(* What a user sees.                                                       *)

(* The queue, flushes, counts, island and digest keep their types; at most *)
(* one flush is a tap's, and the island knows while it is under way.       *)
THEOREM TypeCorrect == Spec => []TypeOK
  <1>1. ShellInv => TypeOK
    BY TypeInvTypes DEF ShellInv
  <1> QED BY <1>1, ShellInvariance, PTL

(* Whatever flushes, imports and connections overlap, the count on the     *)
(* island is that of the queue once all is quiet, unless the last count    *)
(* failed or a step that tells nobody changed the queue since.             *)
THEOREM BadgeIsRight == Spec => []BadgeShowsQueue
  <1>1. ShellInv => BadgeShowsQueue
    BY DEF ShellInv, Counted, BadgeShowsQueue
  <1> QED BY <1>1, ShellInvariance, PTL

(* A digest without failures is true, however many flushes overlap and     *)
(* whatever is queued or put back beside them.                             *)
THEOREM DigestIsHonest == Spec => []NoFakeAllSynced
  <1>1. ShellInv => NoFakeAllSynced
    BY DEF ShellInv
  <1> QED BY <1>1, ShellInvariance, PTL
=============================================================================
