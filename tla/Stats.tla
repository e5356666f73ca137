------------------------------- MODULE Stats ---------------------------------
(***************************************************************************)
(* The session's counters (Stats in run.go).  Each is atomic, but nothing  *)
(* makes them one: handlers go on counting while printSummary loads one    *)
(* after the other.                                                        *)
(*                                                                         *)
(* A stream is a sequence of objects of one track: .catalog and init hand  *)
(* theirs to the main goroutine, which writes init's; media objects are    *)
(* written by their handler; nobody takes those of an unmapped alias.      *)
(* Bytes are counted in payloads.                                          *)
(***************************************************************************)
EXTENDS Naturals, Sequences, FiniteSets

CONSTANTS
  Streams,
  Contents,   \* what streams may carry: [track, objects]
  MaxTime     \* bound on the clock

Objects == [gap : BOOLEAN, status : BOOLEAN]

ASSUME StatsAssumption ==
  /\ Contents \subseteq [track : {"init", "media", "unmapped"}, objects : Seq(Objects)]
  /\ MaxTime \in Nat \ {0}

Counters == {"bytesWritten", "objectsSeen", "groupsSeen", "gapHints", "statusObjects",
             "streamResets", "firstObjectNanos"}

VARIABLES
  content,    \* stream -> what it carries
  hpc,        \* stream -> what its handler does next
  read,       \* stream -> number of objects read
  stamp,      \* stream -> the time recordFirstObject took
  offered,    \* the init object lies in firstObjCh
  main,       \* where the main goroutine is
  resets,     \* streams whose reset has been reported
  now,        \* time since startedAt
  stats,      \* the counters; firstObjectNanos is 0 or a time
  played,     \* times of the media payloads written
  summary     \* the counters loaded so far

vars == <<content, hpc, read, stamp, offered, main, resets, now, stats, played, summary>>

Init ==
  /\ content \in [Streams -> Contents]
  /\ hpc = [s \in Streams |-> "header"]
  /\ read = [s \in Streams |-> 0]
  /\ stamp = [s \in Streams |-> 0]
  /\ offered = FALSE /\ main = "waitObj" /\ resets = {} /\ now = 1
  /\ stats = [c \in Counters |-> 0]
  /\ played = <<>> /\ summary = <<>>

CountOf(c) == stats' = [stats EXCEPT ![c] = @ + 1]

-----------------------------------------------------------------------------
(***************************************************************************)
(* The handler of stream s.                                                *)
(***************************************************************************)
Object(s) == content[s].objects[read[s]]
At(s, l)  == hpc[s] = l
Goes(s, l) == hpc' = [hpc EXCEPT ![s] = l]
HandlerKeeps == UNCHANGED <<content, main, resets, now, summary>>

\* Media is subscribed to only after the init segment was written.
CountGroup(s) ==
  /\ At(s, "header")
  /\ content[s].track = "media" => main \notin {"waitObj", "write", "count"}
  /\ CountOf("groupsSeen") /\ Goes(s, "read")
  /\ UNCHANGED <<read, stamp, offered, played>> /\ HandlerKeeps

CountObject(s) ==
  /\ At(s, "read") /\ read[s] < Len(content[s].objects)
  /\ read' = [read EXCEPT ![s] = @ + 1]
  /\ CountOf("objectsSeen") /\ Goes(s, "gap")
  /\ UNCHANGED <<stamp, offered, played>> /\ HandlerKeeps

CountGap(s) ==
  /\ At(s, "gap")
  /\ IF Object(s).gap THEN CountOf("gapHints") ELSE UNCHANGED stats
  /\ Goes(s, CASE Object(s).status -> "status"
               [] ~Object(s).status /\ content[s].track = "init"  -> "offer"
               [] ~Object(s).status /\ content[s].track = "media" -> "first"
               [] OTHER -> "read")
  /\ UNCHANGED <<read, stamp, offered, played>> /\ HandlerKeeps

CountStatus(s) ==
  /\ At(s, "status")
  /\ CountOf("statusObjects") /\ Goes(s, "read")
  /\ UNCHANGED <<read, stamp, offered, played>> /\ HandlerKeeps

OfferFirst(s) ==
  /\ At(s, "offer")
  /\ offered' = TRUE /\ Goes(s, "read")
  /\ UNCHANGED <<read, stamp, stats, played>> /\ HandlerKeeps

\* recordFirstObject: the load, the clock, the compare-and-swap.
LoadFirst(s) ==
  /\ At(s, "first")
  /\ Goes(s, IF stats["firstObjectNanos"] # 0 THEN "write" ELSE "clock")
  /\ UNCHANGED <<read, stamp, offered, stats, played>> /\ HandlerKeeps

ReadClock(s) ==
  /\ At(s, "clock")
  /\ stamp' = [stamp EXCEPT ![s] = now] /\ Goes(s, "swap")
  /\ UNCHANGED <<read, offered, stats, played>> /\ HandlerKeeps

\* Faulty variant: the load is trusted.
StoreFirst(s) == stamp[s]

\* CompareAndSwap from 0.
NewFirst(s) == IF stats["firstObjectNanos"] = 0 THEN stamp[s] ELSE stats["firstObjectNanos"]

SwapFirst(s) ==
  /\ At(s, "swap")
  /\ stats' = [stats EXCEPT !["firstObjectNanos"] = NewFirst(s)]
  /\ Goes(s, "write")
  /\ UNCHANGED <<read, stamp, offered, played>> /\ HandlerKeeps

WriteMedia(s) ==
  /\ At(s, "write")
  /\ played' = Append(played, now) /\ Goes(s, "count")
  /\ UNCHANGED <<read, stamp, offered, stats>> /\ HandlerKeeps

CountBytes(s) ==
  /\ At(s, "count")
  /\ CountOf("bytesWritten") /\ Goes(s, "read")
  /\ UNCHANGED <<read, stamp, offered, played>> /\ HandlerKeeps

Handler(s) ==
  \/ CountGroup(s) \/ CountObject(s) \/ CountGap(s) \/ CountStatus(s) \/ OfferFirst(s)
  \/ LoadFirst(s) \/ ReadClock(s) \/ SwapFirst(s) \/ WriteMedia(s) \/ CountBytes(s)

-----------------------------------------------------------------------------
(***************************************************************************)
(* The main goroutine.                                                     *)
(***************************************************************************)
MainKeeps == UNCHANGED <<content, hpc, read, stamp, offered, now, played>>

WriteInit ==
  /\ \/ main = "waitObj" /\ offered /\ main' = "count" /\ UNCHANGED stats
     \/ main = "count" /\ CountOf("bytesWritten") /\ main' = "loop"
  /\ UNCHANGED <<resets, summary>> /\ MainKeeps

\* A handler that ended with a reset has sent it.
CountReset ==
  /\ main = "loop"
  /\ \E s \in Streams \ resets :
       /\ At(s, "read") /\ read[s] = Len(content[s].objects)
       /\ resets' = resets \cup {s}
  /\ CountOf("streamResets")
  /\ UNCHANGED <<main, summary>> /\ MainKeeps

\* Faulty variant: the totals are loaded before what they are to cover.
LoadOrderReversed == <<"firstObjectNanos", "groupsSeen", "objectsSeen", "bytesWritten",
                       "statusObjects", "gapHints", "streamResets">>

\* The order in which printSummary loads the counters.
LoadOrder == <<"firstObjectNanos", "bytesWritten", "objectsSeen", "groupsSeen",
               "statusObjects", "gapHints", "streamResets">>

PrintSummary ==
  /\ \/ main = "loop" /\ main' = "print"
     \/ main = "print" /\ UNCHANGED main
  /\ Len(summary) < Len(LoadOrder)
  /\ summary' = Append(summary, stats[LoadOrder[Len(summary) + 1]])
  /\ UNCHANGED <<stats, resets>> /\ MainKeeps

Tick ==
  /\ now < MaxTime /\ now' = now + 1
  /\ UNCHANGED <<content, hpc, read, stamp, offered, main, resets, stats, played, summary>>

Next == WriteInit \/ CountReset \/ PrintSummary \/ Tick \/ \E s \in Streams : Handler(s)

Spec == Init /\ [][Next]_vars

-----------------------------------------------------------------------------
Place(c)    == CHOOSE i \in DOMAIN LoadOrder : LoadOrder[i] = c
Reported(c) == summary[Place(c)]

(***************************************************************************)
(* Although handlers go on counting, the summary does not contradict       *)
(* itself: bytes belong to objects it counts, objects to groups it counts, *)
(* and a latency is that of an object it counts (the order of increments   *)
(* in handleSubgroupStream against that of the loads in printSummary).     *)
(***************************************************************************)
SummaryCoherent ==
  Len(summary) = Len(LoadOrder) =>
    /\ Reported("bytesWritten") <= Reported("objectsSeen")
    /\ Reported("objectsSeen") > 0 => Reported("groupsSeen") > 0
    /\ Reported("firstObjectNanos") # 0 => Reported("objectsSeen") > 0

(***************************************************************************)
(* The latency of the first object is fixed before any media is written    *)
(* and is not later than its first write, although several handlers may    *)
(* find it unset (recordFirstObject, deliverSubgroupObject).               *)
(***************************************************************************)
LatencyIsOfFirst ==
  played # <<>> => stats["firstObjectNanos"] # 0 /\ stats["firstObjectNanos"] <= played[1]

(***************************************************************************)
(* Once set it does not change (recordFirstObject).                        *)
(***************************************************************************)
LatencyStays ==
  [][stats["firstObjectNanos"] # 0 => stats'["firstObjectNanos"] = stats["firstObjectNanos"]]_vars
-----------------------------------------------------------------------------
(***************************************************************************)
(* The inductive invariant behind them.  What a counter promises another   *)
(* one is kept by the order of a goroutine's increments; what the summary  *)
(* has loaded stays true of the counters still to be loaded, which only    *)
(* grow.                                                                   *)
(***************************************************************************)
StatsTypeOK ==
  /\ content \in [Streams -> Contents]
  /\ hpc \in [Streams -> {"header", "read", "gap", "status", "offer", "first", "clock", "swap",
                          "write", "count"}]
  /\ read \in [Streams -> Nat] /\ stamp \in [Streams -> Nat]
  /\ offered \in BOOLEAN /\ main \in {"waitObj", "count", "loop", "print"}
  /\ resets \subseteq Streams /\ now \in Nat \ {0}
  /\ stats \in [Counters -> Nat]
  /\ played \in Seq(Nat) /\ summary \in Seq(Nat) /\ Len(summary) <= Len(LoadOrder)

\* Handlers between counting an object and being done with it, and the main goroutine with init's.
Pending  == {s \in Streams : hpc[s] \notin {"header", "read"}}
InitOwed == IF offered /\ main \in {"waitObj", "count"} THEN 1 ELSE 0

\* Bytes are counted for objects, objects in groups.
CountersInv ==
  /\ IsFiniteSet(Pending)
  /\ stats["bytesWritten"] + Cardinality(Pending) + InitOwed <= stats["objectsSeen"]
  /\ main = "count" => offered
  /\ \A s \in Streams : hpc[s] # "header" => stats["groupsSeen"] > 0
  /\ stats["objectsSeen"] > 0 => stats["groupsSeen"] > 0

\* The first time is taken before it is set, and set before anything is written.
FirstInv ==
  /\ stats["firstObjectNanos"] <= now
  /\ stats["firstObjectNanos"] # 0 => stats["objectsSeen"] > 0
  /\ \A s \in Streams :
       /\ hpc[s] = "swap" => stamp[s] \in 1..now
       /\ hpc[s] \in {"write", "count"} => stats["firstObjectNanos"] # 0
  /\ LatencyIsOfFirst

\* Each counter loaded is covered by those loaded after it, or by what they are now.
LoadedInv ==
  /\ Len(summary) >= 1 /\ Reported("firstObjectNanos") # 0 => stats["objectsSeen"] > 0
  /\ Len(summary) >= 2 => Reported("bytesWritten") <= stats["objectsSeen"]
  /\ Len(summary) >= 3 =>
       /\ Reported("firstObjectNanos") # 0 => Reported("objectsSeen") > 0
       /\ Reported("bytesWritten") <= Reported("objectsSeen")
       /\ Reported("objectsSeen") > 0 => stats["groupsSeen"] > 0
  /\ Len(summary) >= 4 => (Reported("objectsSeen") > 0 => Reported("groupsSeen") > 0)

(***************************************************************************)
(* The conjunction is inductive (Stats in run.go, handleSubgroupStream,    *)
(* recordFirstObject, printSummary).                                       *)
(***************************************************************************)
StatsInv == StatsTypeOK /\ CountersInv /\ FirstInv /\ LoadedInv
=============================================================================
