------------------------------- MODULE Catalog ------------------------------
(***************************************************************************)
(* The choice of tracks from a broadcast's catalog (app/catalog.go).  The  *)
(* publisher (external) writes the catalog track by track; the program     *)
(* parses it and picks a media track and its init track.                   *)
(*                                                                         *)
(* A track is its name, the init track it names, if any, and whether its   *)
(* codec is one of the two video codecs the program looks for.             *)
(***************************************************************************)
EXTENDS SequencesExt

CONSTANTS
  Names,        \* track names
  InitNames,    \* names of init tracks
  MaxTracks     \* the longest catalog

catalogTrackName == ".catalog"
DefaultInit      == "0.mp4"

ASSUME CatalogAssumption == MaxTracks \in Nat /\ "" \in Names /\ catalogTrackName \in Names

catalogTrack == [name : Names, initTrack : InitNames \cup {""}, video : BOOLEAN]

VARIABLES
  json,      \* the document is JSON of the right shape
  version,   \* its version
  tracks     \* its tracks

catalogVars == <<json, version, tracks>>

CatalogInit == json \in BOOLEAN /\ version \in 0..2 /\ tracks = <<>>

Describe ==
  /\ Len(tracks) < MaxTracks
  /\ \E t \in catalogTrack : tracks' = Append(tracks, t)
  /\ UNCHANGED <<json, version>>

-----------------------------------------------------------------------------
First(Test(_)) == SelectInSeq(tracks, Test)

parseCatalogOK == json /\ version = 1

NotFound == [err |-> TRUE, name |-> ""]
Found(i) == [err |-> FALSE, name |-> tracks[i].name]

\* Faulty variant: the catalog's own entry counts as a video track.
IsVideoEvenCatalog(t) == t.video

IsVideo(t) == t.name # catalogTrackName /\ t.video
IsMedia(t) == t.name # catalogTrackName

\* The program calls it without a preference.
resolveMediaTrack ==
  IF First(IsVideo) > 0 THEN Found(First(IsVideo))
  ELSE IF First(IsMedia) > 0 THEN Found(First(IsMedia)) ELSE NotFound

NamesInit(t) == t.initTrack # ""

\* Faulty variant: any track's init segment will do.
initTrackNameAny(mediaTrack) ==
  IF First(NamesInit) > 0 THEN tracks[First(NamesInit)].initTrack ELSE DefaultInit

initTrackName(mediaTrack) ==
  LET own == IF mediaTrack = "" THEN 0
             ELSE First(LAMBDA t : t.name = mediaTrack /\ NamesInit(t))
  IN IF own > 0 THEN tracks[own].initTrack
     ELSE IF First(NamesInit) > 0 THEN tracks[First(NamesInit)].initTrack ELSE DefaultInit

\* What bootstrapFromCatalog subscribes to after .catalog.
Choice ==
  IF ~parseCatalogOK \/ resolveMediaTrack.err THEN [err |-> TRUE, media |-> "", init |-> ""]
  ELSE [err |-> FALSE, media |-> resolveMediaTrack.name, init |-> initTrackName(resolveMediaTrack.name)]

-----------------------------------------------------------------------------
InCatalog(P(_)) == \E i \in DOMAIN tracks : P(tracks[i])

(***************************************************************************)
(* The program plays something whenever a version 1 catalog has a track    *)
(* besides the catalog itself, never takes the catalog for media, and      *)
(* plays video if there is any (parseCatalog, resolveMediaTrack).          *)
(***************************************************************************)
PlaysWhatThereIs ==
  /\ Choice.err <=> ~(parseCatalogOK /\ InCatalog(IsMedia))
  /\ ~Choice.err =>
       /\ Choice.media # catalogTrackName
       /\ InCatalog(LAMBDA t : t.name = Choice.media /\ (InCatalog(IsVideo) => IsVideo(t)))

(***************************************************************************)
(* The init segment is the one the catalog pairs with the media track that *)
(* was chosen, if track names are unique and not empty and the chosen      *)
(* track names one: media is never decoded with the codec configuration of *)
(* another track (resolveMediaTrack and initTrackName search the catalog   *)
(* separately).                                                            *)
(***************************************************************************)
ProperNames ==
  /\ ~InCatalog(LAMBDA t : t.name = "")
  /\ \A i, j \in DOMAIN tracks : i # j => tracks[i].name # tracks[j].name

InitFitsMedia ==
  ProperNames /\ ~Choice.err =>
    \A i \in DOMAIN tracks :
      tracks[i].name = Choice.media /\ NamesInit(tracks[i]) => Choice.init = tracks[i].initTrack
=============================================================================
