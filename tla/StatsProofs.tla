----------------------------- MODULE StatsProofs ------------------------------
(***************************************************************************)
(* Proofs that the summary of a session does not contradict itself and     *)
(* that the latency is that of the first object, for any streams, contents *)
(* and clock.                                                              *)
(***************************************************************************)
EXTENDS Stats, FiniteSetTheorems, TLAPS

USE DEF StatsTypeOK, Counters

\* Where printSummary loads what.
LEMMA Places ==
  /\ Place("firstObjectNanos") = 1 /\ Place("bytesWritten") = 2
  /\ Place("objectsSeen") = 3 /\ Place("groupsSeen") = 4
<1>1. /\ DOMAIN LoadOrder = 1..7
      /\ LoadOrder[1] = "firstObjectNanos" /\ LoadOrder[2] = "bytesWritten"
      /\ LoadOrder[3] = "objectsSeen" /\ LoadOrder[4] = "groupsSeen"
      /\ LoadOrder[5] = "statusObjects" /\ LoadOrder[6] = "gapHints"
      /\ LoadOrder[7] = "streamResets"
  BY DEF LoadOrder
<1>2. \A i \in DOMAIN LoadOrder : i \in {1, 2, 3, 4, 5, 6, 7}
  BY <1>1
<1>3. Place("firstObjectNanos") = 1
  BY <1>1, <1>2 DEF Place
<1>4. Place("bytesWritten") = 2
  BY <1>1, <1>2 DEF Place
<1>5. Place("objectsSeen") = 3
  BY <1>1, <1>2 DEF Place
<1>6. Place("groupsSeen") = 4
  BY <1>1, <1>2 DEF Place
<1> QED
  BY <1>3, <1>4, <1>5, <1>6

LEMMA LoadOrderLength == Len(LoadOrder) = 7
BY DEF LoadOrder

LEMMA LoadsACounter == \A n \in Nat : n < Len(LoadOrder) => LoadOrder[n + 1] \in Counters
<1> SUFFICES ASSUME NEW n \in Nat, n < 7 PROVE LoadOrder[n + 1] \in Counters
  BY LoadOrderLength
<1>1. n \in {0, 1, 2, 3, 4, 5, 6}
  OBVIOUS
<1> QED
  BY <1>1 DEF LoadOrder

LEMMA InitStats == Init => StatsInv
<1> SUFFICES ASSUME Init PROVE StatsInv
  OBVIOUS
<1> USE DEF Init
<1>1. StatsTypeOK
  <2>1. summary \in Seq(Nat) /\ played \in Seq(Nat) /\ Len(summary) = 0
    OBVIOUS
  <2>2. stats \in [Counters -> Nat]
    OBVIOUS
  <2>3. Len(summary) <= Len(LoadOrder)
    BY <2>1, LoadOrderLength
  <2>4. now \in Nat \ {0}
    OBVIOUS
  <2> QED
    BY <2>1, <2>2, <2>3, <2>4
<1>2. Pending = {}
  BY DEF Pending
<1>3. CountersInv
  BY <1>2, FS_EmptySet DEF CountersInv, InitOwed
<1>4. FirstInv /\ LoadedInv
  BY DEF FirstInv, LatencyIsOfFirst, LoadedInv
<1> QED
  BY <1>1, <1>3, <1>4 DEF StatsInv

-----------------------------------------------------------------------------
(***************************************************************************)
(* The four parts under a step.                                            *)
(***************************************************************************)
LEMMA CountTypes ==
  ASSUME stats \in [Counters -> Nat], NEW c \in Counters, CountOf(c)
  PROVE  stats' \in [Counters -> Nat]
BY DEF CountOf

LEMMA TypeStep == StatsInv /\ Next => StatsTypeOK'
<1> SUFFICES ASSUME StatsInv, Next PROVE StatsTypeOK'
  OBVIOUS
<1> USE DEF StatsInv
<1>1. ASSUME NEW s \in Streams, Handler(s) PROVE StatsTypeOK'
  <2>1. UNCHANGED <<content, main, resets, now, summary>>
    BY <1>1 DEF Handler, CountGroup, CountObject, CountGap, CountStatus, OfferFirst, LoadFirst,
       ReadClock, SwapFirst, WriteMedia, CountBytes, HandlerKeeps
  <2>2. CASE CountGroup(s) \/ CountObject(s) \/ CountStatus(s) \/ CountBytes(s)
    <3>1. stats' \in [Counters -> Nat]
      BY <2>2, CountTypes DEF CountGroup, CountObject, CountStatus, CountBytes
    <3>2. /\ Goes(s, "read") \/ Goes(s, "gap")
          /\ read' = read \/ read' = [read EXCEPT ![s] = @ + 1]
          /\ UNCHANGED <<stamp, offered, played>>
      BY <2>2 DEF CountGroup, CountObject, CountStatus, CountBytes
    <3> HIDE DEF Counters
    <3>3. hpc' \in [Streams -> {"header", "read", "gap", "status", "offer", "first", "clock",
                                "swap", "write", "count"}]
      BY <3>2 DEF Goes
    <3>4. read' \in [Streams -> Nat]
      <4> HIDE DEF StatsInv
      <4>1. read \in [Streams -> Nat]
        BY DEF StatsInv
      <4> QED
        BY <3>2, <4>1
    <3> QED
      BY <2>1, <3>1, <3>2, <3>3, <3>4
  <2>3. CASE CountGap(s)
    <3>1. stats' \in [Counters -> Nat]
      BY <2>3, CountTypes DEF CountGap
    <3>2. /\ hpc' \in [Streams -> {"header", "read", "gap", "status", "offer", "first", "clock",
                                   "swap", "write", "count"}]
          /\ UNCHANGED <<read, stamp, offered, played>>
      BY <2>3 DEF CountGap, Goes
    <3> QED
      BY <2>1, <3>1, <3>2
  <2>4. CASE OfferFirst(s) \/ LoadFirst(s) \/ ReadClock(s)
    BY <2>1, <2>4 DEF OfferFirst, LoadFirst, ReadClock, Goes
  <2>5. CASE SwapFirst(s)
    BY <2>1, <2>5 DEF SwapFirst, NewFirst, Goes
  <2>6. CASE WriteMedia(s)
    BY <2>1, <2>6 DEF WriteMedia, Goes
  <2> QED
    BY <1>1, <2>2, <2>3, <2>4, <2>5, <2>6 DEF Handler
<1>2. CASE WriteInit
  BY <1>2 DEF WriteInit, MainKeeps, CountOf
<1>3. CASE CountReset
  BY <1>3 DEF CountReset, MainKeeps, CountOf
<1>4. CASE PrintSummary
  <2>1. LoadOrder[Len(summary) + 1] \in Counters
    BY <1>4, LoadsACounter DEF PrintSummary
  <2>2. stats[LoadOrder[Len(summary) + 1]] \in Nat
    BY <2>1
  <2>3. /\ summary' = Append(summary, stats[LoadOrder[Len(summary) + 1]])
        /\ Len(summary) < Len(LoadOrder) /\ main' = "print"
        /\ UNCHANGED <<stats, resets, content, hpc, read, stamp, offered, now, played>>
    BY <1>4 DEF PrintSummary, MainKeeps
  <2>4. summary' \in Seq(Nat) /\ Len(summary') <= Len(LoadOrder)
    BY <2>2, <2>3, LoadOrderLength
  <2> QED
    BY <2>3, <2>4
<1>5. CASE Tick
  BY <1>5 DEF Tick
<1> QED
  BY <1>1, <1>2, <1>3, <1>4, <1>5 DEF Next

\* Counters only grow, and what has been set or read stays so (Stats' atomic additions).
LEMMA CountersGrow ==
  ASSUME StatsInv, Next
  PROVE  /\ \A c \in Counters \ {"firstObjectNanos"} : stats'[c] >= stats[c]
         /\ stats["firstObjectNanos"] # 0 => stats'["firstObjectNanos"] = stats["firstObjectNanos"]
<1> USE DEF StatsInv
<1>1. ASSUME NEW s \in Streams, Handler(s)
      PROVE  /\ \A c \in Counters \ {"firstObjectNanos"} : stats'[c] >= stats[c]
             /\ stats["firstObjectNanos"] # 0 =>
                  stats'["firstObjectNanos"] = stats["firstObjectNanos"]
  <2>1. CASE SwapFirst(s)
    BY <2>1 DEF SwapFirst, NewFirst
  <2>2. CASE ~SwapFirst(s)
    <3>1. UNCHANGED stats \/ \E c \in Counters \ {"firstObjectNanos"} : CountOf(c)
      BY <1>1, <2>2 DEF Handler, CountGroup, CountObject, CountGap, CountStatus, OfferFirst,
         LoadFirst, ReadClock, WriteMedia, CountBytes
    <3> QED
      BY <3>1 DEF CountOf
  <2> QED
    BY <2>1, <2>2
<1>2. CASE WriteInit \/ CountReset
  BY <1>2 DEF WriteInit, CountReset, CountOf
<1>3. CASE PrintSummary \/ Tick
  BY <1>3 DEF PrintSummary, MainKeeps, Tick
<1> QED
  BY <1>1, <1>2, <1>3 DEF Next

\* What a handler does to Pending and to the two counters it is weighed against.
LEMMA HandlerCounts ==
  ASSUME StatsInv, NEW s \in Streams, Handler(s)
  PROVE  CountersInv'
<1> USE DEF StatsInv
<1>1. /\ UNCHANGED main
      /\ \A t \in Streams : t # s => hpc'[t] = hpc[t]
      /\ hpc'[s] # "header"
  BY DEF Handler, CountGroup, CountObject, CountGap, CountStatus, OfferFirst, LoadFirst,
         ReadClock, SwapFirst, WriteMedia, CountBytes, Goes, HandlerKeeps
<1>2. IsFiniteSet(Pending) /\ Cardinality(Pending) \in Nat
  BY FS_CardinalityType DEF CountersInv
<1>3. /\ stats["bytesWritten"] \in Nat /\ stats["objectsSeen"] \in Nat /\ stats["groupsSeen"] \in Nat
      /\ InitOwed \in {0, 1}
      /\ stats["bytesWritten"] + Cardinality(Pending) + InitOwed <= stats["objectsSeen"]
  BY DEF CountersInv, InitOwed
<1>4. stats'["groupsSeen"] > 0
  <2>1. CASE CountGroup(s)
    BY <1>3, <2>1 DEF CountGroup, CountOf
  <2>2. CASE ~CountGroup(s)
    <3>1. stats["groupsSeen"] > 0
      BY <2>2 DEF Handler, CountObject, CountGap, CountStatus, OfferFirst, LoadFirst, ReadClock,
         SwapFirst, WriteMedia, CountBytes, At, CountersInv
    <3>2. stats'["groupsSeen"] >= stats["groupsSeen"] /\ stats'["groupsSeen"] \in Nat
      BY CountersGrow, TypeStep DEF Next
    <3> QED
      BY <1>3, <3>1, <3>2
  <2> QED
    BY <2>1, <2>2
<1>5. (main = "count" => offered)'
  BY <1>1 DEF CountersInv, Handler, CountGroup, CountObject, CountGap, CountStatus, OfferFirst,
     LoadFirst, ReadClock, SwapFirst, WriteMedia, CountBytes
<1>6. CountersInv' <=> /\ IsFiniteSet(Pending')
                       /\ stats'["bytesWritten"] + Cardinality(Pending') + InitOwed' <= stats'["objectsSeen"]
  BY <1>1, <1>4, <1>5 DEF CountersInv
<1>7. CASE CountObject(s)
  <2>1. /\ stats'["bytesWritten"] = stats["bytesWritten"] /\ InitOwed' = InitOwed
        /\ stats'["objectsSeen"] = stats["objectsSeen"] + 1
        /\ hpc[s] = "read" /\ hpc'[s] = "gap"
    BY <1>1, <1>7 DEF CountObject, CountOf, Goes, At, InitOwed
  <2>2. Pending' = Pending \cup {s} /\ s \notin Pending
    BY <1>1, <2>1 DEF Pending
  <2>3. IsFiniteSet(Pending') /\ Cardinality(Pending') = Cardinality(Pending) + 1
    BY <1>2, <2>2, FS_AddElement
  <2> QED
    BY <1>2, <1>3, <1>6, <2>1, <2>3
<1>8. CASE CountBytes(s) \/ OfferFirst(s)
  <2>1. hpc[s] \in {"count", "offer"} /\ hpc'[s] = "read"
    BY <1>8 DEF CountBytes, OfferFirst, Goes, At
  <2>2. Pending' = Pending \ {s} /\ s \in Pending
    BY <1>1, <2>1 DEF Pending
  <2>3. IsFiniteSet(Pending') /\ Cardinality(Pending') = Cardinality(Pending) - 1
    BY <1>2, <2>2, FS_RemoveElement
  <2>4. CASE CountBytes(s)
    <3>1. /\ stats'["bytesWritten"] = stats["bytesWritten"] + 1 /\ InitOwed' = InitOwed
          /\ stats'["objectsSeen"] = stats["objectsSeen"]
      BY <1>1, <2>4 DEF CountBytes, CountOf, InitOwed
    <3> QED
      BY <1>2, <1>3, <1>6, <2>3, <3>1
  <2>5. CASE OfferFirst(s)
    <3>1. /\ stats'["bytesWritten"] = stats["bytesWritten"] /\ InitOwed' \in {0, 1}
          /\ stats'["objectsSeen"] = stats["objectsSeen"]
      BY <2>5 DEF OfferFirst, InitOwed
    <3> HIDE DEF StatsInv
    <3>4. stats'["bytesWritten"] + Cardinality(Pending') + InitOwed' <= stats'["objectsSeen"]
      BY <1>2, <1>3, <2>3, <3>1
    <3> QED
      BY <1>6, <2>3, <3>4
  <2> QED
    BY <1>8, <2>4, <2>5
<1>9. CASE ~CountObject(s) /\ ~CountBytes(s) /\ ~OfferFirst(s)
  <2>1. /\ stats'["bytesWritten"] = stats["bytesWritten"] /\ UNCHANGED offered
        /\ stats'["objectsSeen"] = stats["objectsSeen"]
        /\ hpc[s] \in {"header", "read"} => hpc'[s] \in {"header", "read"}
    BY <1>9 DEF Handler, CountGroup, CountGap, CountStatus, LoadFirst, ReadClock, SwapFirst,
       WriteMedia, CountOf, Goes, At
  <2>2. Pending' \subseteq Pending /\ InitOwed' = InitOwed
    BY <1>1, <2>1 DEF Pending, InitOwed
  <2>3. IsFiniteSet(Pending') /\ Cardinality(Pending') <= Cardinality(Pending)
    BY <1>2, <2>2, FS_Subset
  <2>4. Cardinality(Pending') \in Nat
    BY <2>3, FS_CardinalityType
  <2> QED
    BY <1>2, <1>3, <1>6, <2>1, <2>2, <2>3, <2>4
<1> QED
  BY <1>7, <1>8, <1>9

LEMMA CountersStep == StatsInv /\ Next => CountersInv'
<1> SUFFICES ASSUME StatsInv, Next PROVE CountersInv'
  OBVIOUS
<1> USE DEF StatsInv
<1>1. CASE WriteInit
  <2>1. Pending' = Pending /\ UNCHANGED <<hpc, offered>>
    BY <1>1 DEF WriteInit, MainKeeps, Pending
  <2>2. Cardinality(Pending) \in Nat
    BY FS_CardinalityType DEF CountersInv
  <2>3. CASE main = "waitObj"
    BY <1>1, <2>1, <2>2, <2>3 DEF WriteInit, CountersInv, InitOwed
  <2>4. CASE main = "count"
    <3>1. /\ offered /\ InitOwed = 1 /\ InitOwed' = 0
          /\ stats'["bytesWritten"] = stats["bytesWritten"] + 1
          /\ \A c \in Counters \ {"bytesWritten"} : stats'[c] = stats[c]
          /\ main' = "loop"
      BY <1>1, <2>4 DEF WriteInit, CountersInv, InitOwed, CountOf
    <3> QED
      BY <2>1, <2>2, <3>1 DEF CountersInv
  <2> QED
    BY <1>1, <2>3, <2>4 DEF WriteInit
<1>2. CASE CountReset
  <2>1. /\ Pending' = Pending /\ InitOwed' = InitOwed /\ UNCHANGED <<hpc, offered, main>>
        /\ \A c \in Counters \ {"streamResets"} : stats'[c] = stats[c]
    BY <1>2 DEF CountReset, MainKeeps, Pending, InitOwed, CountOf
  <2> QED
    BY <2>1 DEF CountersInv
<1>3. CASE PrintSummary
  <2>1. /\ Pending' = Pending /\ InitOwed' = InitOwed /\ UNCHANGED <<hpc, offered, stats>>
        /\ main' = "print"
    BY <1>3 DEF PrintSummary, MainKeeps, Pending, InitOwed
  <2> QED
    BY <2>1 DEF CountersInv
<1>4. CASE Tick
  BY <1>4 DEF Tick, CountersInv, Pending, InitOwed
<1> QED
  BY <1>1, <1>2, <1>3, <1>4, HandlerCounts DEF Next

LEMMA FirstStep == StatsInv /\ Next => FirstInv'
<1> SUFFICES ASSUME StatsInv, Next PROVE FirstInv'
  OBVIOUS
<1>0. /\ hpc \in [Streams -> {"header", "read", "gap", "status", "offer", "first", "clock", "swap",
                              "write", "count"}]
      /\ stamp \in [Streams -> Nat] /\ now \in Nat \ {0}
      /\ stats \in [Counters -> Nat] /\ played \in Seq(Nat)
      /\ FirstInv
  BY DEF StatsInv
<1>1. /\ stats'["objectsSeen"] >= stats["objectsSeen"]
      /\ stats'["objectsSeen"] \in Nat
      /\ stats["firstObjectNanos"] # 0 => stats'["firstObjectNanos"] = stats["firstObjectNanos"]
  BY CountersGrow, TypeStep
<1>2. CASE UNCHANGED <<hpc, stamp, played, now>> /\ stats'["firstObjectNanos"] = stats["firstObjectNanos"]
  BY <1>0, <1>1, <1>2 DEF FirstInv, LatencyIsOfFirst
<1>3. CASE Tick
  BY <1>0, <1>3 DEF Tick, FirstInv, LatencyIsOfFirst
<1>4. ASSUME NEW s \in Streams, Handler(s) PROVE FirstInv'
  <2>1. CASE LoadFirst(s)
    BY <1>0, <2>1 DEF LoadFirst, At, Goes, HandlerKeeps, FirstInv, LatencyIsOfFirst
  <2>2. CASE ReadClock(s)
    BY <1>0, <2>2 DEF ReadClock, At, Goes, HandlerKeeps, FirstInv, LatencyIsOfFirst
  <2>3. CASE SwapFirst(s)
    <3>1. /\ stats'["firstObjectNanos"] = NewFirst(s) /\ stats'["objectsSeen"] = stats["objectsSeen"]
          /\ hpc[s] = "swap" /\ hpc' = [hpc EXCEPT ![s] = "write"]
          /\ UNCHANGED <<stamp, played, now>>
      BY <2>3 DEF SwapFirst, At, Goes, HandlerKeeps, StatsInv
    <3>2. stamp[s] \in 1..now
      BY <3>1, <1>0 DEF FirstInv
    <3>3. NewFirst(s) \in 1..now
      BY <1>0, <3>2 DEF NewFirst, FirstInv
    <3>4. stats["objectsSeen"] > 0
      <4>1. s \in Pending
        BY <3>1 DEF Pending
      <4>2. /\ IsFiniteSet(Pending) /\ InitOwed \in {0, 1} /\ stats["bytesWritten"] \in Nat
            /\ stats["bytesWritten"] + Cardinality(Pending) + InitOwed <= stats["objectsSeen"]
        BY DEF StatsInv, CountersInv, InitOwed
      <4>3. Cardinality(Pending) \in Nat /\ Cardinality(Pending) # 0
        BY <4>1, <4>2, FS_CardinalityType, FS_EmptySet
      <4> QED
        BY <1>0, <4>2, <4>3
    <3>5. LatencyIsOfFirst'
      BY <1>0, <1>1, <3>1 DEF FirstInv, LatencyIsOfFirst
    <3> QED
      BY <1>0, <3>1, <3>3, <3>4, <3>5 DEF FirstInv
  <2>4. CASE WriteMedia(s)
    <3>1. /\ hpc[s] = "write" /\ hpc' = [hpc EXCEPT ![s] = "count"]
          /\ UNCHANGED <<stamp, now, stats>> /\ played' = Append(played, now)
      BY <2>4 DEF WriteMedia, At, Goes, HandlerKeeps
    <3>2. stats["firstObjectNanos"] # 0 /\ stats["firstObjectNanos"] <= now
      BY <1>0, <3>1 DEF FirstInv
    <3>3. LatencyIsOfFirst'
      <4>1. CASE played = <<>>
        BY <1>0, <3>1, <3>2, <4>1 DEF LatencyIsOfFirst
      <4>2. CASE played # <<>>
        <5>1. played'[1] = played[1]
          BY <1>0, <3>1, <4>2
        <5> QED
          BY <1>0, <3>1, <4>2, <5>1 DEF FirstInv, LatencyIsOfFirst
      <4> QED
        BY <4>1, <4>2
    <3> QED
      BY <1>0, <3>1, <3>2, <3>3 DEF FirstInv
  <2>5. CASE ~LoadFirst(s) /\ ~ReadClock(s) /\ ~SwapFirst(s) /\ ~WriteMedia(s)
    <3>1. UNCHANGED <<stamp, played, now>>
      BY <1>4, <2>5 DEF Handler, CountGroup, CountObject, CountGap, CountStatus, OfferFirst,
         CountBytes, HandlerKeeps
    <3>2. \A t \in Streams : hpc'[t] \in {"swap", "write", "count"} => hpc'[t] = hpc[t]
      BY <1>0, <1>4, <2>5 DEF Handler, CountGroup, CountObject, CountGap, CountStatus, OfferFirst,
         CountBytes, Goes
    <3>3. UNCHANGED stats \/ \E c \in Counters \ {"firstObjectNanos"} : CountOf(c)
      BY <1>4, <2>5 DEF Handler, CountGroup, CountObject, CountGap, CountStatus, OfferFirst, CountBytes
    <3>4. stats'["firstObjectNanos"] = stats["firstObjectNanos"]
      BY <1>0, <3>3 DEF CountOf
    <3> QED
      BY <1>0, <1>1, <3>1, <3>2, <3>4 DEF FirstInv, LatencyIsOfFirst
  <2> QED
    BY <1>4, <2>1, <2>2, <2>3, <2>4, <2>5
<1>5. CASE WriteInit \/ CountReset \/ PrintSummary
  BY <1>0, <1>2, <1>5 DEF WriteInit, CountReset, PrintSummary, MainKeeps, CountOf
<1> QED
  BY <1>3, <1>4, <1>5 DEF Next

\* What has been loaded stays, and the counters behind it only grow.
LEMMA LoadedStep == StatsInv /\ Next => LoadedInv'
<1> SUFFICES ASSUME StatsInv, Next PROVE LoadedInv'
  OBVIOUS
<1> DEFINE n == Len(summary)
<1>0. /\ summary \in Seq(Nat) /\ n \in Nat /\ stats["firstObjectNanos"] \in Nat
      /\ stats["bytesWritten"] \in Nat /\ stats["objectsSeen"] \in Nat /\ stats["groupsSeen"] \in Nat
      /\ \A i \in 1..n : summary[i] \in Nat
  BY DEF StatsInv
<1>1. LoadedInv <=>
        /\ n >= 1 /\ summary[1] # 0 => stats["objectsSeen"] > 0
        /\ n >= 2 => summary[2] <= stats["objectsSeen"]
        /\ n >= 3 => /\ summary[1] # 0 => summary[3] > 0
                     /\ summary[2] <= summary[3]
                     /\ summary[3] > 0 => stats["groupsSeen"] > 0
        /\ n >= 4 => (summary[3] > 0 => summary[4] > 0)
  BY Places DEF LoadedInv, Reported
<1>2. LoadedInv' <=>
        /\ n' >= 1 /\ summary'[1] # 0 => stats'["objectsSeen"] > 0
        /\ n' >= 2 => summary'[2] <= stats'["objectsSeen"]
        /\ n' >= 3 => /\ summary'[1] # 0 => summary'[3] > 0
                      /\ summary'[2] <= summary'[3]
                      /\ summary'[3] > 0 => stats'["groupsSeen"] > 0
        /\ n' >= 4 => (summary'[3] > 0 => summary'[4] > 0)
  BY Places DEF LoadedInv, Reported
<1>3. LoadedInv
  BY DEF StatsInv
<1>4. CASE PrintSummary
  <2>1. /\ UNCHANGED stats /\ n < Len(LoadOrder)
        /\ summary' = Append(summary, stats[LoadOrder[n + 1]])
    BY <1>4 DEF PrintSummary
  <2>2. /\ n' = n + 1 /\ \A i \in 1..n : summary'[i] = summary[i]
        /\ summary'[n + 1] = stats[LoadOrder[n + 1]]
    BY <1>0, <2>1
  <2>3. /\ LoadOrder[1] = "firstObjectNanos" /\ LoadOrder[2] = "bytesWritten"
        /\ LoadOrder[3] = "objectsSeen" /\ LoadOrder[4] = "groupsSeen"
    BY DEF LoadOrder
  <2>4. /\ stats["bytesWritten"] <= stats["objectsSeen"]
        /\ stats["objectsSeen"] > 0 => stats["groupsSeen"] > 0
        /\ stats["firstObjectNanos"] # 0 => stats["objectsSeen"] > 0
    <3>1. /\ IsFiniteSet(Pending) /\ InitOwed \in {0, 1}
          /\ stats["bytesWritten"] + Cardinality(Pending) + InitOwed <= stats["objectsSeen"]
      BY DEF StatsInv, CountersInv, InitOwed
    <3>2. Cardinality(Pending) \in Nat
      BY <3>1, FS_CardinalityType
    <3> QED
      BY <1>0, <3>1, <3>2 DEF StatsInv, CountersInv, FirstInv
  <2>5. CASE n = 0
    BY <1>0, <1>2, <2>1, <2>2, <2>3, <2>4, <2>5
  <2>6. CASE n = 1
    BY <1>0, <1>1, <1>2, <1>3, <2>1, <2>2, <2>3, <2>4, <2>6
  <2>7. CASE n = 2
    BY <1>0, <1>1, <1>2, <1>3, <2>1, <2>2, <2>3, <2>4, <2>7
  <2>8. CASE n = 3
    BY <1>0, <1>1, <1>2, <1>3, <2>1, <2>2, <2>3, <2>4, <2>8
  <2>9. CASE n > 3
    BY <1>0, <1>1, <1>2, <1>3, <2>1, <2>2, <2>9
  <2>10. n = 0 \/ n = 1 \/ n = 2 \/ n = 3 \/ n > 3
    <3>1. n \in Nat
      BY <1>0
    <3> HIDE DEF n
    <3> QED
      BY <3>1
  <2> QED
    BY <2>5, <2>6, <2>7, <2>8, <2>9, <2>10
<1>5. CASE ~PrintSummary
  <2>1. UNCHANGED summary
    BY <1>5 DEF Next, Handler, CountGroup, CountObject, CountGap, CountStatus, OfferFirst, LoadFirst,
       ReadClock, SwapFirst, WriteMedia, CountBytes, HandlerKeeps, WriteInit, CountReset, Tick
  <2>2. /\ stats'["objectsSeen"] >= stats["objectsSeen"] /\ stats'["groupsSeen"] >= stats["groupsSeen"]
        /\ stats'["objectsSeen"] \in Nat /\ stats'["groupsSeen"] \in Nat
    BY CountersGrow, TypeStep
  <2> QED
    BY <1>0, <1>1, <1>2, <1>3, <2>1, <2>2
<1> QED
  BY <1>4, <1>5

-----------------------------------------------------------------------------
(***************************************************************************)
(* The invariant holds, whatever streams carry and however the clock runs  *)
(* (Stats, handleSubgroupStream, recordFirstObject, printSummary).         *)
(***************************************************************************)
THEOREM StatsCorrect == Spec => []StatsInv
<1>1. StatsInv /\ [Next]_vars => StatsInv'
  <2> SUFFICES ASSUME StatsInv, [Next]_vars PROVE StatsInv'
    OBVIOUS
  <2>1. CASE Next
    BY <2>1, TypeStep, CountersStep, FirstStep, LoadedStep DEF StatsInv
  <2>2. CASE UNCHANGED vars
    <3>1. Pending' = Pending /\ InitOwed' = InitOwed /\ \A c : Reported(c)' = Reported(c)
      BY <2>2 DEF vars, Pending, InitOwed, Reported
    <3> QED
      BY <2>2, <3>1 DEF vars, StatsInv, CountersInv, FirstInv, LatencyIsOfFirst, LoadedInv
  <2> QED
    BY <2>1, <2>2
<1> QED
  BY <1>1, InitStats, PTL DEF Spec

(***************************************************************************)
(* The summary does not contradict itself, although nothing stops the      *)
(* handlers while it is loaded (printSummary against the increments of     *)
(* handleSubgroupStream).                                                  *)
(***************************************************************************)
THEOREM SummaryIsCoherent == Spec => []SummaryCoherent
<1>1. StatsInv => SummaryCoherent
  BY LoadOrderLength DEF StatsInv, LoadedInv, SummaryCoherent
<1> QED
  BY <1>1, StatsCorrect, PTL

(***************************************************************************)
(* The reported latency is set before media is written and is no later     *)
(* than the first write (recordFirstObject, deliverSubgroupObject).        *)
(***************************************************************************)
THEOREM LatencyCorrect == Spec => []LatencyIsOfFirst
<1>1. StatsInv => LatencyIsOfFirst
  BY DEF StatsInv, FirstInv
<1> QED
  BY <1>1, StatsCorrect, PTL

(***************************************************************************)
(* Once set, it stays (the compare-and-swap of recordFirstObject).         *)
(***************************************************************************)
THEOREM LatencyIsFixed == Spec => LatencyStays
<1>1. StatsInv /\ [Next]_vars =>
        [stats["firstObjectNanos"] # 0 => stats'["firstObjectNanos"] = stats["firstObjectNanos"]]_vars
  BY CountersGrow DEF vars
<1> QED
  BY <1>1, StatsCorrect, PTL DEF Spec, LatencyStays
=============================================================================
