----------------------- MODULE RealtimeGateway_proofs -----------------------
(***************************************************************************)
(* Theorems about RealtimeGateway for any users, sockets, devices and      *)
(* bounds: type correctness, who is in a room, and what a subscriber has   *)
(* been shown.                                                             *)
(***************************************************************************)
EXTENDS RealtimeGateway, TLAPS

\* The owner is among those that have owned the device; a subscription belongs
\* to an open connection and, until its lookup is answered, to a device asked for.
SubscriptionsAsked ==
  /\ \A d \in Devices : owner[d] \in held[d]
  /\ \A s \in Sockets, d \in Devices :
       /\ sub[<<s, d>>] # "idle" => conn[s] = "open"
       /\ sub[<<s, d>>] = "find" => d \in asked[s]

\* n bounds every reading of d that was cached, broadcast or shown, and with them
\* those that are stored or to be broadcast.
Covers(n, d) ==
  /\ newest[d] =< n
  /\ \A s \in Sockets : shown[<<s, d>>] =< n
  /\ \A m \in cached : m.dev = d => m.n =< n

\* Readings are numbered as they are cached, and the cached one is the newest.
CacheIsNewest ==
  \A d \in Devices : /\ last[d] =< received /\ Covers(received, d)
                     /\ last[d] # 0 => Covers(last[d], d)

\* NothingMissed, also for a member that asked again and whose lookup is not
\* answered yet.
MembersUpToDate ==
  \A s \in Sockets, d \in Devices :
    s \in room[d] /\ sub[<<s, d>>] # "last"
      => shown[<<s, d>>] >= newest[d] \/ newest[d] =< old[<<s, d>>]

GatewayInv == TypeOK /\ RoomsAsAsked /\ SubscriptionsAsked /\ CacheIsNewest /\ MembersUpToDate

-----------------------------------------------------------------------------
(* Pairs of a socket and a device *)

LEMMA PairFacts ==
  ASSUME NEW s \in Sockets, NEW d \in Devices
  PROVE  /\ <<s, d>> \in Pairs
         /\ \A t \in Sockets, e \in Devices : <<t, e>> = <<s, d>> <=> t = s /\ e = d
         /\ \A t \in Sockets, e \in Devices : <<t, e>> \in Of(s) <=> t = s
BY DEF Pairs, Of

LEMMA PairsOnly ==
  ASSUME NEW p \in Pairs
  PROVE  \E s \in Sockets, d \in Devices : p = <<s, d>> /\ p[1] = s /\ p[2] = d
BY DEF Pairs

\* One entry changes.
LEMMA PairUpdate ==
  ASSUME NEW f, NEW g, NEW V, f \in [Pairs -> V], NEW s \in Sockets, NEW d \in Devices,
         NEW v \in V, g = [f EXCEPT ![<<s, d>>] = v]
  PROVE  /\ g \in [Pairs -> V] /\ g[<<s, d>>] = v
         /\ \A t \in Sockets, e \in Devices : ~(t = s /\ e = d) => g[<<t, e>>] = f[<<t, e>>]
BY PairFacts

LEMMA HigherFacts ==
  ASSUME NEW m \in Nat, NEW n \in Nat
  PROVE  /\ Higher(m, n) >= m /\ Higher(m, n) >= n
         /\ Higher(m, n) = m \/ Higher(m, n) = n
BY DEF Higher, Flow!Higher

\* The numbers an invariant state holds.
LEMMA Numbers ==
  ASSUME TypeOK
  PROVE  /\ received \in Nat /\ MaxReadings \in Nat
         /\ \A d \in Devices : last[d] \in Nat /\ newest[d] \in Nat
         /\ \A s \in Sockets, d \in Devices : shown[<<s, d>>] \in Nat /\ old[<<s, d>>] \in Nat
         /\ \A m \in cached : m.n \in Nat /\ m.dev \in Devices
<1>1. received \in Nat /\ MaxReadings \in Nat /\ \A d \in Devices : last[d] \in Nat /\ newest[d] \in Nat
  BY GatewayAssumption DEF TypeOK
<1>2. ASSUME NEW s \in Sockets, NEW d \in Devices
      PROVE  shown[<<s, d>>] \in Nat /\ old[<<s, d>>] \in Nat
  <2>1. shown[<<s, d>>] \in 0..MaxReadings /\ old[<<s, d>>] \in 0..MaxReadings
    BY PairFacts DEF TypeOK
  <2> QED BY <2>1
<1>3. \A m \in cached : m.n \in Nat /\ m.dev \in Devices
  BY DEF TypeOK, Reading
<1> QED BY <1>1, <1>2, <1>3

LEMMA GatewayInit == Init => GatewayInv
<1> SUFFICES ASSUME Init PROVE GatewayInv
  OBVIOUS
<1> USE GatewayAssumption DEF Init
<1>1. TypeOK
  BY DEF TypeOK, Pcs
<1>2. RoomsAsAsked /\ SubscriptionsAsked
  BY PairFacts DEF RoomsAsAsked, SubscriptionsAsked
<1>3. \A s \in Sockets, d \in Devices : shown[<<s, d>>] = 0
  BY PairFacts
<1>4. CacheIsNewest /\ MembersUpToDate
  BY <1>3 DEF CacheIsNewest, Covers, MembersUpToDate
<1> QED BY <1>1, <1>2, <1>4 DEF GatewayInv

-----------------------------------------------------------------------------
(* Connections *)

LEMMA ConnectingInv ==
  ASSUME GatewayInv, NEW s \in Sockets, Connect(s) \/ Verify(s)
  PROVE  GatewayInv'
<1>1. UNCHANGED <<stores, room, sub, sending, received, history, faults>> /\ conn[s] # "open"
  BY DEF Connect, Verify
<1>2. UNCHANGED <<owner, last, influx, room, sub, cached, sending, received, newest, shown, old, asked, held, faults>>
  BY <1>1 DEF stores, history
<1>3. conn' \in [Sockets -> {"offline", "verifying", "open"}] /\ \A t \in Sockets \ {s} : conn'[t] = conn[t]
  BY DEF GatewayInv, TypeOK, Connect, Verify
<1>4. TypeOK'
  BY <1>2, <1>3 DEF GatewayInv, TypeOK
<1>5. RoomsAsAsked' /\ SubscriptionsAsked'
  BY <1>1, <1>2, <1>3 DEF GatewayInv, TypeOK, RoomsAsAsked, SubscriptionsAsked
<1>6. CacheIsNewest' /\ MembersUpToDate'
  BY <1>2 DEF GatewayInv, CacheIsNewest, Covers, MembersUpToDate
<1> QED BY <1>4, <1>5, <1>6 DEF GatewayInv

LEMMA DisconnectInv ==
  ASSUME GatewayInv, NEW s \in Sockets, Disconnect(s)
  PROVE  GatewayInv'
<1>1. UNCHANGED <<owner, last, influx, cached, sending, received, newest, held, faults>>
  BY DEF Disconnect, stores
<1>2. /\ conn' = [conn EXCEPT ![s] = "offline"] /\ room' = [d \in Devices |-> room[d] \ {s}]
      /\ asked' = [asked EXCEPT ![s] = {}]
      /\ sub' = Reset(sub, Of(s), "idle")
      /\ shown' = Reset(shown, Of(s), 0) /\ old' = Reset(old, Of(s), 0)
  BY DEF Disconnect, Forget
<1>3. /\ sub \in [Pairs -> Pcs] /\ "idle" \in Pcs /\ 0 \in 0..MaxReadings
      /\ shown \in [Pairs -> 0..MaxReadings] /\ old \in [Pairs -> 0..MaxReadings]
  BY GatewayAssumption DEF GatewayInv, TypeOK, Pcs
<1>4. /\ sub' \in [Pairs -> Pcs]
      /\ shown' \in [Pairs -> 0..MaxReadings] /\ old' \in [Pairs -> 0..MaxReadings]
      /\ \A t \in Sockets, e \in Devices :
           IF t = s THEN sub'[<<t, e>>] = "idle" /\ shown'[<<t, e>>] = 0
           ELSE sub'[<<t, e>>] = sub[<<t, e>>] /\ shown'[<<t, e>>] = shown[<<t, e>>] /\ old'[<<t, e>>] = old[<<t, e>>]
  <2>1. /\ sub' \in [Pairs -> Pcs]
        /\ \A t \in Sockets, e \in Devices :
             sub'[<<t, e>>] = IF <<t, e>> \in Of(s) THEN "idle" ELSE sub[<<t, e>>]
    BY <1>2, <1>3, PairFacts DEF Reset
  <2>2. /\ shown' \in [Pairs -> 0..MaxReadings]
        /\ \A t \in Sockets, e \in Devices :
             shown'[<<t, e>>] = IF <<t, e>> \in Of(s) THEN 0 ELSE shown[<<t, e>>]
    BY <1>2, <1>3, PairFacts DEF Reset
  <2>3. /\ old' \in [Pairs -> 0..MaxReadings]
        /\ \A t \in Sockets, e \in Devices :
             old'[<<t, e>>] = IF <<t, e>> \in Of(s) THEN 0 ELSE old[<<t, e>>]
    BY <1>2, <1>3, PairFacts DEF Reset
  <2>4. \A t \in Sockets, e \in Devices : <<t, e>> \in Of(s) <=> t = s
    BY PairFacts
  <2> QED BY <2>1, <2>2, <2>3, <2>4
<1>5. TypeOK'
  BY <1>1, <1>2, <1>4 DEF GatewayInv, TypeOK
<1>6. RoomsAsAsked' /\ SubscriptionsAsked'
  BY <1>1, <1>2, <1>4 DEF GatewayInv, TypeOK, RoomsAsAsked, SubscriptionsAsked
<1>7. CacheIsNewest'
  <2>1. \A t \in Sockets, e \in Devices : shown'[<<t, e>>] = shown[<<t, e>>] \/ shown'[<<t, e>>] = 0
    BY <1>4
  <2> QED BY <1>1, <2>1, Numbers DEF GatewayInv, CacheIsNewest, Covers
<1>8. MembersUpToDate'
  <2>1. \A t \in Sockets, e \in Devices : t \in room'[e] => t # s /\ t \in room[e]
    BY <1>2
  <2> QED BY <1>1, <1>4, <2>1 DEF GatewayInv, MembersUpToDate
<1> QED BY <1>5, <1>6, <1>7, <1>8 DEF GatewayInv

LEMMA RestartInv ==
  ASSUME GatewayInv, Restart
  PROVE  GatewayInv'
<1>1. UNCHANGED <<owner, last, influx, cached, received, newest, held>>
  BY DEF Restart, Flow!Lose
<1>2. /\ conn' = [s \in Sockets |-> "offline"] /\ room' = [d \in Devices |-> {}]
      /\ sub' = [p \in Pairs |-> "idle"] /\ sending' = {}
      /\ shown' = [p \in Pairs |-> 0] /\ old' = [p \in Pairs |-> 0]
      /\ asked' = [s \in Sockets |-> {}] /\ faults' \in 0..MaxFaults
  BY GatewayAssumption DEF Restart, Flow!Lose, GatewayInv, TypeOK
<1>3. \A t \in Sockets, e \in Devices : sub'[<<t, e>>] = "idle" /\ shown'[<<t, e>>] = 0
  BY <1>2, PairFacts
<1>4. TypeOK'
  BY <1>1, <1>2, GatewayAssumption DEF GatewayInv, TypeOK, Pcs
<1>5. RoomsAsAsked' /\ SubscriptionsAsked' /\ MembersUpToDate'
  BY <1>1, <1>2, <1>3 DEF GatewayInv, RoomsAsAsked, SubscriptionsAsked, MembersUpToDate
<1>6. CacheIsNewest'
  BY <1>1, <1>2, <1>3, Numbers DEF GatewayInv, CacheIsNewest, Covers
<1> QED BY <1>4, <1>5, <1>6 DEF GatewayInv

-----------------------------------------------------------------------------
(* Subscriptions *)

\* A step of the subscription of s to d: everything else is left alone.
LEMMA SubscriptionMoves ==
  ASSUME GatewayInv, NEW s \in Sockets, NEW d \in Devices,
         UNCHANGED <<owner, last, influx, conn, cached, sending, received, newest, held>>,
         NEW pc \in Pcs, NEW n \in 0..MaxReadings, NEW m \in 0..MaxReadings,
         sub' = [sub EXCEPT ![<<s, d>>] = pc],
         shown' = [shown EXCEPT ![<<s, d>>] = n],
         old' = [old EXCEPT ![<<s, d>>] = m],
         room' \in [Devices -> SUBSET Sockets], asked' \in [Sockets -> SUBSET Devices],
         faults' \in 0..MaxFaults,
         \A t \in Sockets, e \in Devices : ~(t = s /\ e = d) =>
           (t \in room'[e] => t \in room[e]) /\ (e \in asked'[t] <=> e \in asked[t]),
         s \in room'[d] => conn[s] = "open" /\ d \in asked'[s] /\ UserOf[s] \in held[d],
         pc # "idle" => conn[s] = "open",
         pc = "find" => d \in asked'[s],
         n =< received, last[d] # 0 => n =< last[d],
         s \in room'[d] /\ pc # "last" => n >= newest[d] \/ newest[d] =< m
  PROVE  GatewayInv'
<1>1. sub' \in [Pairs -> Pcs] /\ sub'[<<s, d>>] = pc
      /\ \A t \in Sockets, e \in Devices : ~(t = s /\ e = d) => sub'[<<t, e>>] = sub[<<t, e>>]
  BY PairFacts DEF GatewayInv, TypeOK
<1>2. shown' \in [Pairs -> 0..MaxReadings] /\ shown'[<<s, d>>] = n
      /\ \A t \in Sockets, e \in Devices : ~(t = s /\ e = d) => shown'[<<t, e>>] = shown[<<t, e>>]
  BY PairFacts DEF GatewayInv, TypeOK
<1>3. old' \in [Pairs -> 0..MaxReadings] /\ old'[<<s, d>>] = m
      /\ \A t \in Sockets, e \in Devices : ~(t = s /\ e = d) => old'[<<t, e>>] = old[<<t, e>>]
  BY PairFacts DEF GatewayInv, TypeOK
<1>4. TypeOK'
  BY <1>1, <1>2, <1>3 DEF GatewayInv, TypeOK
<1>5. RoomsAsAsked'
  <2> SUFFICES ASSUME NEW e \in Devices, NEW t \in room'[e]
               PROVE  conn[t] = "open" /\ e \in asked'[t] /\ UserOf[t] \in held[e]
    BY DEF RoomsAsAsked
  <2>1. t \in Sockets
    OBVIOUS
  <2>2. CASE t = s /\ e = d
    BY <2>2
  <2>3. CASE ~(t = s /\ e = d)
    BY <2>1, <2>3 DEF GatewayInv, RoomsAsAsked
  <2> QED BY <2>2, <2>3
<1>6. SubscriptionsAsked'
  <2>1. ASSUME NEW t \in Sockets, NEW e \in Devices
        PROVE  /\ sub'[<<t, e>>] # "idle" => conn[t] = "open"
               /\ sub'[<<t, e>>] = "find" => e \in asked'[t]
    <3>1. CASE t = s /\ e = d
      BY <1>1, <3>1
    <3>2. CASE ~(t = s /\ e = d)
      BY <1>1, <3>2 DEF GatewayInv, SubscriptionsAsked
    <3> QED BY <3>1, <3>2
  <2> QED BY <2>1 DEF GatewayInv, SubscriptionsAsked
<1>7. CacheIsNewest'
  <2>1. \A t \in Sockets, e \in Devices :
          shown'[<<t, e>>] =< received /\ (last[e] # 0 => shown'[<<t, e>>] =< last[e])
    BY <1>2 DEF GatewayInv, CacheIsNewest, Covers
  <2> QED BY <2>1 DEF GatewayInv, CacheIsNewest, Covers
<1>8. MembersUpToDate'
  <2>1. ASSUME NEW t \in Sockets, NEW e \in Devices, t \in room'[e], sub'[<<t, e>>] # "last"
        PROVE  shown'[<<t, e>>] >= newest[e] \/ newest[e] =< old'[<<t, e>>]
    <3>1. CASE t = s /\ e = d
      BY <1>1, <1>2, <1>3, <2>1, <3>1
    <3>2. CASE ~(t = s /\ e = d)
      BY <1>1, <1>2, <1>3, <2>1, <3>2 DEF GatewayInv, MembersUpToDate
    <3> QED BY <3>1, <3>2
  <2> QED BY <2>1 DEF MembersUpToDate
<1> QED BY <1>4, <1>5, <1>6, <1>7, <1>8 DEF GatewayInv

\* Where the subscription of s to d stands.
LEMMA SubscriptionState ==
  ASSUME GatewayInv, NEW s \in Sockets, NEW d \in Devices
  PROVE  /\ sub \in [Pairs -> Pcs] /\ sub[<<s, d>>] \in Pcs
         /\ shown \in [Pairs -> 0..MaxReadings] /\ shown[<<s, d>>] \in 0..MaxReadings
         /\ old \in [Pairs -> 0..MaxReadings] /\ old[<<s, d>>] \in 0..MaxReadings
         /\ room \in [Devices -> SUBSET Sockets] /\ asked \in [Sockets -> SUBSET Devices]
         /\ last[d] \in 0..MaxReadings /\ newest[d] \in 0..MaxReadings /\ received \in 0..MaxReadings
         /\ last[d] =< received /\ newest[d] =< received /\ shown[<<s, d>>] =< received
         /\ last[d] # 0 => shown[<<s, d>>] =< last[d] /\ newest[d] =< last[d]
         /\ s \in room[d] => conn[s] = "open" /\ d \in asked[s] /\ UserOf[s] \in held[d]
         /\ sub[<<s, d>>] # "idle" => conn[s] = "open"
         /\ sub[<<s, d>>] = "find" => d \in asked[s]
         /\ s \in room[d] /\ sub[<<s, d>>] # "last"
              => shown[<<s, d>>] >= newest[d] \/ newest[d] =< old[<<s, d>>]
         /\ owner[d] \in held[d]
<1>1. /\ sub \in [Pairs -> Pcs] /\ sub[<<s, d>>] \in Pcs
      /\ shown \in [Pairs -> 0..MaxReadings] /\ shown[<<s, d>>] \in 0..MaxReadings
      /\ old \in [Pairs -> 0..MaxReadings] /\ old[<<s, d>>] \in 0..MaxReadings
      /\ room \in [Devices -> SUBSET Sockets] /\ asked \in [Sockets -> SUBSET Devices]
      /\ last[d] \in 0..MaxReadings /\ newest[d] \in 0..MaxReadings /\ received \in 0..MaxReadings
  BY PairFacts DEF GatewayInv, TypeOK
<1>2. /\ last[d] =< received /\ newest[d] =< received /\ shown[<<s, d>>] =< received
      /\ last[d] # 0 => shown[<<s, d>>] =< last[d] /\ newest[d] =< last[d]
  BY DEF GatewayInv, CacheIsNewest, Covers
<1>3. /\ s \in room[d] => conn[s] = "open" /\ d \in asked[s] /\ UserOf[s] \in held[d]
      /\ sub[<<s, d>>] # "idle" => conn[s] = "open"
      /\ sub[<<s, d>>] = "find" => d \in asked[s]
      /\ owner[d] \in held[d]
  BY DEF GatewayInv, RoomsAsAsked, SubscriptionsAsked
<1>4. s \in room[d] /\ sub[<<s, d>>] # "last"
        => shown[<<s, d>>] >= newest[d] \/ newest[d] =< old[<<s, d>>]
  BY DEF GatewayInv, MembersUpToDate
<1> QED BY <1>1, <1>2, <1>3, <1>4

\* What a step leaves alone is overwritten with what it was.
LEMMA SameEntry ==
  ASSUME GatewayInv, NEW s \in Sockets, NEW d \in Devices
  PROVE  /\ sub = [sub EXCEPT ![<<s, d>>] = sub[<<s, d>>]]
         /\ shown = [shown EXCEPT ![<<s, d>>] = shown[<<s, d>>]]
         /\ old = [old EXCEPT ![<<s, d>>] = old[<<s, d>>]]
         /\ faults \in 0..MaxFaults
BY PairFacts DEF GatewayInv, TypeOK

LEMMA SubscribeInv ==
  ASSUME GatewayInv, NEW s \in Sockets, NEW d \in Devices, Subscribe(s, d)
  PROVE  GatewayInv'
<1>1. /\ UNCHANGED <<owner, last, influx, conn, room, cached, sending, received, newest, shown, old, held, faults>>
      /\ sub' = [sub EXCEPT ![<<s, d>>] = "find"] /\ conn[s] = "open" /\ sub[<<s, d>>] = "idle"
      /\ asked' = [asked EXCEPT ![s] = asked[s] \union {d}]
  BY DEF Subscribe, Goto, stores
<1>2. /\ asked' \in [Sockets -> SUBSET Devices] /\ d \in asked'[s]
      /\ \A t \in Sockets, e \in Devices : ~(t = s /\ e = d) => (e \in asked'[t] <=> e \in asked[t])
  BY <1>1, SubscriptionState
<1>3. PICK n, m : n = shown[<<s, d>>] /\ m = old[<<s, d>>]
  OBVIOUS
<1>4. /\ n \in 0..MaxReadings /\ m \in 0..MaxReadings /\ n =< received /\ (last[d] # 0 => n =< last[d])
      /\ s \in room[d] => (n >= newest[d] \/ newest[d] =< m) /\ UserOf[s] \in held[d]
      /\ shown' = [shown EXCEPT ![<<s, d>>] = n] /\ old' = [old EXCEPT ![<<s, d>>] = m]
  BY <1>1, <1>3, SubscriptionState, SameEntry
<1>5. "find" \in Pcs /\ room' \in [Devices -> SUBSET Sockets] /\ faults' \in 0..MaxFaults
  BY <1>1, SubscriptionState, SameEntry DEF Pcs
<1> QED BY <1>1, <1>2, <1>4, <1>5, SubscriptionMoves

LEMMA CheckOwnerInv ==
  ASSUME GatewayInv, NEW s \in Sockets, NEW d \in Devices, CheckOwner(s, d)
  PROVE  GatewayInv'
<1>1. /\ UNCHANGED <<owner, last, influx, conn, cached, sending, received, newest, shown, old, asked, held, faults>>
      /\ sub[<<s, d>>] = "find"
  BY DEF CheckOwner, stores, history
<1>2. PICK n, m : n = shown[<<s, d>>] /\ m = old[<<s, d>>]
  OBVIOUS
<1>3. /\ n \in 0..MaxReadings /\ m \in 0..MaxReadings /\ n =< received /\ (last[d] # 0 => n =< last[d])
      /\ s \in room[d] => (n >= newest[d] \/ newest[d] =< m) /\ UserOf[s] \in held[d]
      /\ shown' = [shown EXCEPT ![<<s, d>>] = n] /\ old' = [old EXCEPT ![<<s, d>>] = m]
      /\ conn[s] = "open" /\ d \in asked[s] /\ asked' \in [Sockets -> SUBSET Devices]
      /\ asked' = asked /\ faults' \in 0..MaxFaults
  BY <1>1, <1>2, SubscriptionState, SameEntry
<1>4. "last" \in Pcs /\ "idle" \in Pcs
  BY DEF Pcs
<1>5. CASE owner[d] = UserOf[s]
  <2>1. room' = [room EXCEPT ![d] = room[d] \union {s}] /\ sub' = [sub EXCEPT ![<<s, d>>] = "last"]
    BY <1>5 DEF CheckOwner, Goto
  <2>2. /\ room' \in [Devices -> SUBSET Sockets] /\ UserOf[s] \in held[d]
        /\ \A t \in Sockets, e \in Devices : ~(t = s /\ e = d) => (t \in room'[e] => t \in room[e])
    BY <1>5, <2>1, SubscriptionState
  <2> QED BY <1>1, <1>3, <1>4, <2>1, <2>2, SubscriptionMoves
<1>6. CASE owner[d] # UserOf[s]
  <2>1. room' = room /\ sub' = [sub EXCEPT ![<<s, d>>] = "idle"]
    BY <1>6 DEF CheckOwner, Goto
  <2>2. room' \in [Devices -> SUBSET Sockets]
    BY <2>1, SubscriptionState
  <2> QED BY <1>1, <1>3, <1>4, <2>1, <2>2, SubscriptionMoves
<1> QED BY <1>5, <1>6

LEMMA SendLastInv ==
  ASSUME GatewayInv, NEW s \in Sockets, NEW d \in Devices, SendLast(s, d)
  PROVE  GatewayInv'
<1>1. /\ UNCHANGED <<owner, last, influx, conn, room, cached, sending, received, newest, asked, held, faults>>
      /\ sub[<<s, d>>] = "last"
  BY DEF SendLast, stores
<1>2. /\ room' = room /\ asked' = asked /\ room' \in [Devices -> SUBSET Sockets]
      /\ asked' \in [Sockets -> SUBSET Devices] /\ faults' \in 0..MaxFaults
      /\ "latest" \in Pcs /\ "idle" \in Pcs /\ conn[s] = "open"
      /\ s \in room[d] => d \in asked[s] /\ UserOf[s] \in held[d]
  BY <1>1, SubscriptionState, SameEntry DEF Pcs
<1>3. CASE last[d] # 0
  <2>1. PICK n, m : n = Higher(shown[<<s, d>>], last[d]) /\ m = old[<<s, d>>]
    OBVIOUS
  <2>2. /\ shown' = [shown EXCEPT ![<<s, d>>] = n] /\ sub' = [sub EXCEPT ![<<s, d>>] = "idle"]
        /\ old' = [old EXCEPT ![<<s, d>>] = m]
    BY <1>3, <2>1, SameEntry DEF SendLast, Show, Goto
  <2>3. n = last[d] /\ m \in 0..MaxReadings /\ n \in 0..MaxReadings
        /\ n =< received /\ n >= newest[d] /\ n =< last[d]
    BY <1>3, <2>1, SubscriptionState DEF Higher, Flow!Higher
  <2> QED BY <1>1, <1>2, <2>2, <2>3, SubscriptionMoves
<1>4. CASE last[d] = 0
  <2>1. PICK n, m : n = shown[<<s, d>>] /\ m = newest[d]
    OBVIOUS
  <2>2. /\ shown' = [shown EXCEPT ![<<s, d>>] = n] /\ sub' = [sub EXCEPT ![<<s, d>>] = "latest"]
        /\ old' = [old EXCEPT ![<<s, d>>] = m]
    BY <1>4, <2>1, SameEntry DEF SendLast, Goto
  <2>3. n \in 0..MaxReadings /\ m \in 0..MaxReadings /\ n =< received /\ newest[d] =< m
    BY <2>1, SubscriptionState
  <2> QED BY <1>1, <1>2, <1>4, <2>2, <2>3, SubscriptionMoves
<1> QED BY <1>3, <1>4

LEMMA SendLatestInv ==
  ASSUME GatewayInv, NEW s \in Sockets, NEW d \in Devices, SendLatest(s, d)
  PROVE  GatewayInv'
<1>1. /\ UNCHANGED <<owner, last, influx, conn, room, cached, sending, received, newest, old, asked, held, faults>>
      /\ sub[<<s, d>>] = "latest" /\ sub' = [sub EXCEPT ![<<s, d>>] = "idle"]
  BY DEF SendLatest, Goto, stores
<1>2. PICK k \in Latest(d) : Show(s, d, k)
  BY DEF SendLatest
<1>3. k \in 0..MaxReadings /\ k =< received /\ (last[d] # 0 => k =< last[d])
  <2>1. CASE k = 0
    BY <2>1, Numbers DEF GatewayInv
  <2>2. CASE k # 0
    <3>1. PICK p \in influx : p.dev = d /\ k = p.n
      BY <2>2 DEF Latest
    <3>2. p.n \in 1..MaxReadings
      BY <3>1 DEF GatewayInv, TypeOK, Reading
    <3>3. p.n =< received /\ (last[d] # 0 => p.n =< last[d])
      BY <3>1 DEF GatewayInv, TypeOK, CacheIsNewest, Covers
    <3> QED BY <3>1, <3>2, <3>3, Numbers DEF GatewayInv
  <2> QED BY <2>1, <2>2
<1>4. PICK n, m : n = Higher(shown[<<s, d>>], k) /\ m = old[<<s, d>>]
  OBVIOUS
<1>5. /\ shown' = [shown EXCEPT ![<<s, d>>] = n] /\ old' = [old EXCEPT ![<<s, d>>] = m]
  BY <1>1, <1>2, <1>4, SameEntry DEF Show
<1>6. n \in 0..MaxReadings /\ m \in 0..MaxReadings /\ n =< received /\ (last[d] # 0 => n =< last[d])
      /\ n >= shown[<<s, d>>]
  BY <1>3, <1>4, SubscriptionState DEF Higher, Flow!Higher
<1>7. s \in room[d] => n >= newest[d] \/ newest[d] =< m
  BY <1>1, <1>4, <1>6, SubscriptionState
<1>8. /\ room' = room /\ asked' = asked /\ room' \in [Devices -> SUBSET Sockets]
      /\ asked' \in [Sockets -> SUBSET Devices] /\ faults' \in 0..MaxFaults /\ "idle" \in Pcs
      /\ s \in room[d] => conn[s] = "open" /\ d \in asked[s] /\ UserOf[s] \in held[d]
  BY <1>1, SubscriptionState, SameEntry DEF Pcs
<1> QED BY <1>1, <1>5, <1>6, <1>7, <1>8, SubscriptionMoves

LEMMA FailSubInv ==
  ASSUME GatewayInv, NEW s \in Sockets, NEW d \in Devices, FailSub(s, d)
  PROVE  GatewayInv'
<1>1. /\ UNCHANGED <<owner, last, influx, conn, room, cached, sending, received, newest, shown, asked, held>>
      /\ sub[<<s, d>>] \in {"find", "last"} /\ sub' = [sub EXCEPT ![<<s, d>>] = "idle"]
  BY DEF FailSub, Goto, stores
<1>2. faults' \in 0..MaxFaults
  BY GatewayAssumption, SameEntry DEF FailSub
<1>3. PICK n, m : n = shown[<<s, d>>] /\ m = IF sub[<<s, d>>] = "last" THEN newest[d] ELSE old[<<s, d>>]
  OBVIOUS
<1>4. shown' = [shown EXCEPT ![<<s, d>>] = n] /\ old' = [old EXCEPT ![<<s, d>>] = m]
  BY <1>1, <1>3, SameEntry, PairFacts, SubscriptionState DEF FailSub
<1>5. n \in 0..MaxReadings /\ m \in 0..MaxReadings /\ n =< received /\ (last[d] # 0 => n =< last[d])
  BY <1>3, SubscriptionState
<1>6. s \in room[d] => n >= newest[d] \/ newest[d] =< m
  BY <1>1, <1>3, <1>5, SubscriptionState
<1>7. /\ room' = room /\ asked' = asked /\ room' \in [Devices -> SUBSET Sockets]
      /\ asked' \in [Sockets -> SUBSET Devices] /\ "idle" \in Pcs
      /\ s \in room[d] => conn[s] = "open" /\ d \in asked[s] /\ UserOf[s] \in held[d]
  BY <1>1, SubscriptionState, SameEntry DEF Pcs
<1> QED BY <1>1, <1>2, <1>4, <1>5, <1>6, <1>7, SubscriptionMoves

LEMMA UnsubscribeInv ==
  ASSUME GatewayInv, NEW s \in Sockets, NEW d \in Devices, Unsubscribe(s, d)
  PROVE  GatewayInv'
<1>1. /\ UNCHANGED <<owner, last, influx, conn, sub, cached, sending, received, newest, held, faults>>
      /\ room' = [room EXCEPT ![d] = room[d] \ {s}]
      /\ asked' = [asked EXCEPT ![s] = IF sub[<<s, d>>] = "find" THEN asked[s] ELSE asked[s] \ {d}]
      /\ shown' = Reset(shown, {<<s, d>>}, 0) /\ old' = Reset(old, {<<s, d>>}, 0)
  BY SubscriptionState DEF Unsubscribe, Leaves, Forget, stores
<1>2. shown' = [shown EXCEPT ![<<s, d>>] = 0] /\ old' = [old EXCEPT ![<<s, d>>] = 0]
  BY <1>1, SubscriptionState, PairFacts DEF Reset
<1>3. PICK pc, z : pc = sub[<<s, d>>] /\ z = 0
  OBVIOUS
<1>4. sub' = [sub EXCEPT ![<<s, d>>] = pc] /\ pc \in Pcs
  BY <1>1, <1>3, SameEntry, SubscriptionState
<1>5. /\ room' \in [Devices -> SUBSET Sockets] /\ asked' \in [Sockets -> SUBSET Devices]
      /\ s \notin room'[d] /\ (pc = "find" => d \in asked'[s]) /\ (pc # "idle" => conn[s] = "open")
      /\ \A t \in Sockets, e \in Devices : ~(t = s /\ e = d) =>
           (t \in room'[e] => t \in room[e]) /\ (e \in asked'[t] <=> e \in asked[t])
  BY <1>1, <1>3, SubscriptionState
<1>6. /\ faults' \in 0..MaxFaults /\ z \in 0..MaxReadings /\ z =< received
      /\ last[d] # 0 => z =< last[d]
  BY <1>1, <1>3, SameEntry, Numbers DEF GatewayInv
<1>7. shown' = [shown EXCEPT ![<<s, d>>] = z] /\ old' = [old EXCEPT ![<<s, d>>] = z]
  BY <1>2, <1>3
<1>8. UNCHANGED <<owner, last, influx, conn, cached, sending, received, newest, held>>
  BY <1>1
<1> QED BY <1>4, <1>5, <1>6, <1>7, <1>8, SubscriptionMoves

-----------------------------------------------------------------------------
(* Readings, and what other modules change *)

LEMMA ReceiveReadingInv ==
  ASSUME GatewayInv, NEW d \in Devices, ReceiveReading(d)
  PROVE  GatewayInv'
<1>1. UNCHANGED <<owner, influx, conn, room, sub, newest, shown, old, asked, held, faults>>
  BY DEF ReceiveReading, Flow!Cache, here, sockets
<1>2. PICK r : r = received + 1
  OBVIOUS
<1>3. /\ received' = r /\ last' = [last EXCEPT ![d] = r]
      /\ cached' = cached \union {[n |-> r, dev |-> d]}
      /\ sending' = sending \union {[n |-> r, dev |-> d]}
  BY <1>2 DEF ReceiveReading, Flow!Cache
<1>4. r \in 1..MaxReadings /\ r \in Nat /\ r > received /\ r # 0
  BY <1>2, Numbers DEF ReceiveReading, GatewayInv
<1>5. TypeOK'
  <2>1. [n |-> r, dev |-> d] \in Reading
    BY <1>4 DEF Reading
  <2>2. /\ last' \in [Devices -> 0..MaxReadings] /\ received' \in 0..MaxReadings
        /\ cached' \subseteq Reading /\ influx \subseteq cached' /\ sending' \subseteq cached'
    BY <1>3, <1>4, <2>1 DEF GatewayInv, TypeOK
  <2> QED BY <1>1, <2>2 DEF GatewayInv, TypeOK
<1>6. RoomsAsAsked' /\ SubscriptionsAsked' /\ MembersUpToDate'
  BY <1>1 DEF GatewayInv, RoomsAsAsked, SubscriptionsAsked, MembersUpToDate
<1>7. ASSUME NEW e \in Devices
      PROVE  /\ newest[e] =< r /\ last[e] =< r
             /\ \A s \in Sockets : shown[<<s, e>>] =< r
             /\ \A m \in cached : m.dev = e => m.n =< r
             /\ last[e] # 0 => Covers(last[e], e)
  BY <1>4, Numbers DEF GatewayInv, CacheIsNewest, Covers
<1>8. last'[d] = r /\ \A e \in Devices \ {d} : last'[e] = last[e]
  BY <1>3 DEF GatewayInv, TypeOK
<1>9. CacheIsNewest'
  <2>1. ASSUME NEW e \in Devices
        PROVE  last'[e] =< r /\ Covers(received, e)'
    <3>1. last'[e] =< r
      BY <1>4, <1>7, <1>8
    <3>2. \A m \in cached' : m.dev = e => m.n =< r
      BY <1>3, <1>4, <1>7
    <3> QED BY <1>1, <1>3, <1>7, <3>1, <3>2 DEF Covers
  <2>2. ASSUME NEW e \in Devices, last'[e] # 0
        PROVE  Covers(last[e], e)'
    <3>1. CASE e = d
      BY <1>3, <1>8, <2>1, <3>1 DEF Covers
    <3>2. CASE e # d
      <4>1. Covers(last[e], e)
        BY <1>7, <1>8, <2>2, <3>2
      <4>2. \A m \in cached' : m.dev = e => m.n =< last[e]
        BY <1>3, <3>2, <4>1 DEF Covers
      <4> QED BY <1>1, <1>8, <3>2, <4>1, <4>2 DEF Covers
    <3> QED BY <3>1, <3>2
  <2> QED BY <1>3, <2>1, <2>2 DEF CacheIsNewest
<1> QED BY <1>5, <1>6, <1>9 DEF GatewayInv

LEMMA FailMessageInv ==
  ASSUME GatewayInv, NEW m \in sending, FailMessage(m)
  PROVE  GatewayInv'
<1>1. /\ UNCHANGED <<owner, last, influx, conn, room, sub, cached, received, newest, shown, old, asked, held>>
      /\ sending' = sending \ {m}
  BY DEF FailMessage, Flow!Lose, here, sockets
<1>2. faults' \in 0..MaxFaults
  BY GatewayAssumption DEF FailMessage, Flow!Lose, GatewayInv, TypeOK
<1>3. TypeOK'
  BY <1>1, <1>2 DEF GatewayInv, TypeOK
<1>4. RoomsAsAsked' /\ SubscriptionsAsked' /\ MembersUpToDate' /\ CacheIsNewest'
  BY <1>1 DEF GatewayInv, RoomsAsAsked, SubscriptionsAsked, MembersUpToDate, CacheIsNewest, Covers
<1> QED BY <1>3, <1>4 DEF GatewayInv

LEMMA BroadcastInv ==
  ASSUME GatewayInv, NEW m \in sending, Broadcast(m)
  PROVE  GatewayInv'
<1>1. PICK d \in Devices, k \in 1..MaxReadings : d = m.dev /\ k = m.n
  BY DEF GatewayInv, TypeOK, Reading
<1>2. /\ UNCHANGED <<owner, last, influx, conn, room, sub, cached, received, old, asked, held, faults>>
      /\ sending' = sending \ {m}
      /\ newest' = [newest EXCEPT ![d] = Higher(newest[d], k)]
  BY <1>1 DEF Broadcast, Flow!Send, Higher, sockets
<1>3. /\ newest'[d] = Higher(newest[d], k)
      /\ \A e \in Devices \ {d} : newest'[e] = newest[e]
  BY <1>2 DEF GatewayInv, TypeOK
<1>4. ASSUME NEW s \in Sockets, NEW e \in Devices
      PROVE  shown'[<<s, e>>] = IF e = d /\ s \in room[d] THEN Higher(shown[<<s, e>>], k) ELSE shown[<<s, e>>]
  BY <1>1, PairFacts DEF Broadcast
<1>5. k =< received /\ (last[d] # 0 => k =< last[d])
  BY <1>1 DEF GatewayInv, TypeOK, CacheIsNewest, Covers
<1>6. TypeOK'
  <2>1. newest' \in [Devices -> 0..MaxReadings]
    BY <1>2 DEF GatewayInv, TypeOK, Higher, Flow!Higher
  <2>2. ASSUME NEW p \in Pairs
        PROVE  (IF p[2] = m.dev /\ p[1] \in room[m.dev] THEN Higher(shown[p], m.n) ELSE shown[p])
                 \in 0..MaxReadings
    BY <1>1 DEF GatewayInv, TypeOK, Higher, Flow!Higher
  <2>3. shown' \in [Pairs -> 0..MaxReadings]
    BY <2>2 DEF Broadcast
  <2> QED BY <1>2, <2>1, <2>3 DEF GatewayInv, TypeOK
<1>7. RoomsAsAsked' /\ SubscriptionsAsked'
  BY <1>2 DEF GatewayInv, RoomsAsAsked, SubscriptionsAsked
<1>8. CacheIsNewest'
  <2>1. ASSUME NEW n \in Nat, NEW e \in Devices, Covers(n, e), e = d => k =< n
        PROVE  newest'[e] =< n /\ \A s \in Sockets : shown'[<<s, e>>] =< n
    <3>1. newest'[e] =< n
      BY <1>3, <2>1 DEF Covers, Higher, Flow!Higher
    <3>2. ASSUME NEW s \in Sockets PROVE shown'[<<s, e>>] =< n
      BY <1>4, <2>1 DEF Covers, Higher, Flow!Higher
    <3> QED BY <3>1, <3>2
  <2>2. ASSUME NEW e \in Devices
        PROVE  /\ last'[e] =< received' /\ Covers(received, e)'
               /\ last'[e] # 0 => Covers(last[e], e)'
    <3>1. /\ last[e] =< received /\ Covers(received, e) /\ received \in Nat
          /\ last[e] \in Nat /\ (last[e] # 0 => Covers(last[e], e))
      BY Numbers DEF GatewayInv, CacheIsNewest
    <3>2. Covers(received, e)'
      BY <1>2, <1>5, <2>1, <3>1 DEF Covers
    <3>3. ASSUME last'[e] # 0 PROVE Covers(last[e], e)'
      <4>1. last[e] # 0 /\ Covers(last[e], e) /\ (e = d => k =< last[e])
        BY <1>2, <1>5, <3>1, <3>3
      <4> QED BY <1>2, <2>1, <3>1, <4>1 DEF Covers
    <3> QED BY <1>2, <3>1, <3>2, <3>3
  <2> QED BY <2>2 DEF CacheIsNewest
<1>9. MembersUpToDate'
  <2>1. ASSUME NEW s \in Sockets, NEW e \in Devices, s \in room[e], sub[<<s, e>>] # "last"
        PROVE  shown'[<<s, e>>] >= newest'[e] \/ newest'[e] =< old[<<s, e>>]
    <3>1. shown[<<s, e>>] >= newest[e] \/ newest[e] =< old[<<s, e>>]
      BY <2>1 DEF GatewayInv, MembersUpToDate
    <3>2. CASE e = d
      <4>1. PICK a, b : a = shown[<<s, e>>] /\ b = newest[e]
        OBVIOUS
      <4>2. a \in Nat /\ b \in Nat /\ old[<<s, e>>] \in Nat
        BY <4>1, Numbers DEF GatewayInv
      <4>3. shown'[<<s, e>>] = Higher(a, k) /\ newest'[e] = Higher(b, k)
        BY <1>3, <1>4, <2>1, <3>2, <4>1
      <4>4. Higher(a, k) >= Higher(b, k) \/ Higher(b, k) =< old[<<s, e>>]
        BY <3>1, <4>1, <4>2 DEF Higher, Flow!Higher
      <4> QED BY <4>3, <4>4
    <3>3. CASE e # d
      BY <1>3, <1>4, <3>1, <3>3
    <3> QED BY <3>2, <3>3
  <2> QED BY <1>2, <2>1 DEF MembersUpToDate
<1> QED BY <1>6, <1>7, <1>8, <1>9 DEF GatewayInv

LEMMA ExpireOrWriteInv ==
  ASSUME GatewayInv, ExpireOrWrite
  PROVE  GatewayInv'
<1>1. UNCHANGED <<owner, conn, room, sub, cached, sending, received, newest, shown, old, asked, held, faults>>
  BY DEF ExpireOrWrite, Flow!Expire, Flow!Write, here, sockets
<1>2. RoomsAsAsked' /\ SubscriptionsAsked' /\ MembersUpToDate'
  BY <1>1 DEF GatewayInv, RoomsAsAsked, SubscriptionsAsked, MembersUpToDate
<1>3. /\ last' \in [Devices -> 0..MaxReadings] /\ \A d \in Devices : last'[d] = last[d] \/ last'[d] = 0
      /\ influx' \subseteq cached
  BY GatewayAssumption DEF ExpireOrWrite, Flow!Expire, Flow!Write, GatewayInv, TypeOK
<1>4. TypeOK'
  BY <1>1, <1>3 DEF GatewayInv, TypeOK
<1>5. CacheIsNewest'
  BY <1>1, <1>3, Numbers DEF GatewayInv, CacheIsNewest, Covers
<1> QED BY <1>2, <1>4, <1>5 DEF GatewayInv

LEMMA ChangeDeviceInv ==
  ASSUME GatewayInv, NEW d \in Devices, ChangeDevice(d)
  PROVE  GatewayInv'
<1>1. UNCHANGED <<last, conn, room, sub, cached, sending, received, newest, shown, old, asked, faults>>
  BY DEF ChangeDevice, sockets
<1>2. influx' \subseteq cached
  BY DEF ChangeDevice, GatewayInv, TypeOK
<1>3. /\ owner' \in [Devices -> Users \union {Null}] /\ held' \in [Devices -> SUBSET (Users \union {Null})]
      /\ \A e \in Devices : held[e] \subseteq held'[e] /\ owner'[e] \in held'[e]
  BY DEF ChangeDevice, GatewayInv, TypeOK, SubscriptionsAsked
<1>4. TypeOK'
  BY <1>1, <1>2, <1>3 DEF GatewayInv, TypeOK
<1>5. RoomsAsAsked' /\ SubscriptionsAsked' /\ CacheIsNewest' /\ MembersUpToDate'
  BY <1>1, <1>3 DEF GatewayInv, RoomsAsAsked, SubscriptionsAsked, CacheIsNewest, Covers, MembersUpToDate
<1> QED BY <1>4, <1>5 DEF GatewayInv

-----------------------------------------------------------------------------
(* The specification *)

LEMMA GatewayNext == GatewayInv /\ [Next]_vars => GatewayInv'
<1> SUFFICES ASSUME GatewayInv, [Next]_vars PROVE GatewayInv'
  OBVIOUS
<1>1. CASE \E s \in Sockets : SocketStep(s)
  BY <1>1, ConnectingInv, DisconnectInv DEF SocketStep
<1>2. CASE \E s \in Sockets, d \in Devices : SubscriptionStep(s, d)
  BY <1>2, SubscribeInv, CheckOwnerInv, SendLastInv, SendLatestInv, UnsubscribeInv, FailSubInv
     DEF SubscriptionStep
<1>3. CASE \E d \in Devices : ReceiveReading(d)
  BY <1>3, ReceiveReadingInv
<1>4. CASE \E m \in sending : Broadcast(m) \/ FailMessage(m)
  BY <1>4, BroadcastInv, FailMessageInv
<1>5. CASE ExpireOrWrite \/ (\E d \in Devices : ChangeDevice(d)) \/ Restart
  BY <1>5, ExpireOrWriteInv, ChangeDeviceInv, RestartInv
<1>6. CASE UNCHANGED vars
  BY <1>6 DEF vars, stores, sockets, history, GatewayInv, TypeOK, RoomsAsAsked,
     SubscriptionsAsked, CacheIsNewest, Covers, MembersUpToDate
<1> QED BY <1>1, <1>2, <1>3, <1>4, <1>5, <1>6 DEF Next

LEMMA GatewayInvariant == Spec => []GatewayInv
BY GatewayInit, GatewayNext, PTL DEF Spec

\* Every variable keeps its type: connections, rooms, subscriptions in progress
\* and the readings cached, stored and shown.
THEOREM TypeCorrect == Spec => []TypeOK
<1>1. GatewayInv => TypeOK
  BY DEF GatewayInv
<1> QED BY <1>1, GatewayInvariant, PTL

\* Whoever is in a room is connected with a verified token, has asked for it, and
\* has owned the device.  (telemetry.gateway.ts:70-100, 151-164, 230-243)
THEOREM RoomsAlwaysAsAsked == Spec => []RoomsAsAsked
<1>1. GatewayInv => RoomsAsAsked
  BY DEF GatewayInv
<1> QED BY <1>1, GatewayInvariant, PTL

\* A subscriber is shown the newest reading broadcast, whatever is broadcast
\* between its check, its lookup and its answer, and is never sent first a cached
\* reading older than one it has had.  (telemetry.gateway.ts:163-221)
THEOREM SubscribersAlwaysUpToDate == Spec => []SubscribersUpToDate
<1>1. GatewayInv => SubscribersUpToDate
  <2> SUFFICES ASSUME GatewayInv PROVE SubscribersUpToDate
    OBVIOUS
  <2>1. NothingMissed
    <3>1. \A d \in Devices : room[d] \subseteq Sockets
      BY DEF GatewayInv, TypeOK
    <3> QED BY <3>1 DEF NothingMissed, GatewayInv, MembersUpToDate
  <2>2. CachedIsNotOlder
    <3> SUFFICES ASSUME NEW p \in Pairs, last[p[2]] # 0 PROVE last[p[2]] >= shown[p]
      BY DEF CachedIsNotOlder
    <3>1. PICK s \in Sockets, d \in Devices : p = <<s, d>> /\ p[2] = d
      BY PairsOnly
    <3>2. shown[<<s, d>>] =< last[d] /\ shown[<<s, d>>] \in Nat /\ last[d] \in Nat
      BY <3>1, Numbers DEF GatewayInv, CacheIsNewest, Covers
    <3> QED BY <3>1, <3>2
  <2> QED BY <2>1, <2>2 DEF SubscribersUpToDate
<1> QED BY <1>1, GatewayInvariant, PTL
=============================================================================
