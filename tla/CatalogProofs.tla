--------------------------- MODULE CatalogProofs -----------------------------
(***************************************************************************)
(* Proofs that the program plays what a catalog offers, with the init      *)
(* segment that belongs to it, for catalogs of any length.                 *)
(***************************************************************************)
EXTENDS Catalog, NumberFacts

CatalogTypeOK == json \in BOOLEAN /\ version \in Nat /\ tracks \in Seq(catalogTrack)

\* What SelectInSeq returns, given the positions that pass its test.
LEMMA FirstOf ==
  ASSUME NEW I \in SUBSET Nat, 0 \notin I, NEW first, first = IF I # {} THEN Min(I) ELSE 0
  PROVE  IF I = {} THEN first = 0
         ELSE first \in I /\ first > 0 /\ \A i \in I : first <= i
<1>1. CASE I = {}
  BY <1>1
<1>2. CASE I # {}
  <2>1. \E m \in I : \A n \in I : m <= n
    BY <1>2, LeastNatural
  <2>2. Min(I) \in I /\ \A n \in I : Min(I) <= n
    BY <2>1 DEF Min
  <2>3. first = Min(I)
    BY <1>2
  <2>4. first \in I /\ first \in Nat /\ first # 0
    BY <2>2, <2>3
  <2> QED
    BY <1>2, <2>2, <2>3, <2>4
<1> QED
  BY <1>1, <1>2

\* The searches of resolveMediaTrack and initTrackName.
LEMMA Searches ==
  ASSUME CatalogTypeOK
  PROVE  /\ IF First(IsVideo) > 0 THEN First(IsVideo) \in DOMAIN tracks /\ IsVideo(tracks[First(IsVideo)])
            ELSE ~InCatalog(IsVideo)
         /\ IF First(IsMedia) > 0 THEN First(IsMedia) \in DOMAIN tracks /\ IsMedia(tracks[First(IsMedia)])
            ELSE ~InCatalog(IsMedia)
<1>0. DOMAIN tracks = 1..Len(tracks) /\ Len(tracks) \in Nat
  BY DEF CatalogTypeOK
<1>1. IF First(IsVideo) > 0 THEN First(IsVideo) \in DOMAIN tracks /\ IsVideo(tracks[First(IsVideo)])
      ELSE ~InCatalog(IsVideo)
  <2> DEFINE I == {i \in 1..Len(tracks) : IsVideo(tracks[i])}
  <2>1. I \in SUBSET Nat /\ 0 \notin I
    OBVIOUS
  <2> DEFINE first == First(IsVideo)
  <2>2. first = IF I # {} THEN Min(I) ELSE 0
    BY DEF First, SelectInSeq
  <2>3. InCatalog(IsVideo) <=> I # {}
    BY <1>0 DEF InCatalog
  <2>4. \A i \in I : i \in DOMAIN tracks /\ IsVideo(tracks[i])
    BY <1>0
  <2> HIDE DEF I, first
  <2>5. IF I = {} THEN first = 0 ELSE first \in I /\ first > 0
    BY <2>1, <2>2, FirstOf
  <2>6. IF first > 0 THEN first \in I ELSE I = {}
    BY <2>1, <2>5
  <2> USE DEF first
  <2> QED
    BY <2>3, <2>4, <2>6
<1>2. IF First(IsMedia) > 0 THEN First(IsMedia) \in DOMAIN tracks /\ IsMedia(tracks[First(IsMedia)])
      ELSE ~InCatalog(IsMedia)
  <2> DEFINE I == {i \in 1..Len(tracks) : IsMedia(tracks[i])}
  <2>1. I \in SUBSET Nat /\ 0 \notin I
    OBVIOUS
  <2> DEFINE first == First(IsMedia)
  <2>2. first = IF I # {} THEN Min(I) ELSE 0
    BY DEF First, SelectInSeq
  <2>3. InCatalog(IsMedia) <=> I # {}
    BY <1>0 DEF InCatalog
  <2>4. \A i \in I : i \in DOMAIN tracks /\ IsMedia(tracks[i])
    BY <1>0
  <2> HIDE DEF I, first
  <2>5. IF I = {} THEN first = 0 ELSE first \in I /\ first > 0
    BY <2>1, <2>2, FirstOf
  <2>6. IF first > 0 THEN first \in I ELSE I = {}
    BY <2>1, <2>5
  <2> USE DEF first
  <2> QED
    BY <2>3, <2>4, <2>6
<1> QED
  BY <1>1, <1>2

(***************************************************************************)
(* Something is played exactly if the catalog has a track besides itself,  *)
(* video if there is any (parseCatalog, resolveMediaTrack).                *)
(***************************************************************************)
THEOREM ChoosesWell == CatalogTypeOK => PlaysWhatThereIs
<1> SUFFICES ASSUME CatalogTypeOK PROVE PlaysWhatThereIs
  OBVIOUS
<1>1. InCatalog(IsVideo) => InCatalog(IsMedia)
  BY DEF InCatalog, IsVideo, IsMedia
<1>2. CASE First(IsVideo) > 0
  <2> DEFINE i == First(IsVideo)
  <2>1. i \in DOMAIN tracks /\ IsVideo(tracks[i]) /\ InCatalog(IsMedia)
    BY <1>1, <1>2, Searches DEF InCatalog
  <2>2. resolveMediaTrack = [err |-> FALSE, name |-> tracks[i].name]
    BY <1>2 DEF resolveMediaTrack, Found
  <2> HIDE DEF i
  <2>3. Choice.err <=> ~parseCatalogOK
    BY <2>2 DEF Choice
  <2>4. ~Choice.err => Choice.media = tracks[i].name
    BY <2>2 DEF Choice
  <2>5. InCatalog(LAMBDA t : t.name = tracks[i].name /\ (InCatalog(IsVideo) => IsVideo(t)))
    BY <2>1 DEF InCatalog
  <2> QED
    BY <2>1, <2>3, <2>4, <2>5 DEF PlaysWhatThereIs, IsVideo, InCatalog
<1>3. CASE ~(First(IsVideo) > 0) /\ First(IsMedia) > 0
  <2> DEFINE i == First(IsMedia)
  <2>1. i \in DOMAIN tracks /\ IsMedia(tracks[i]) /\ ~InCatalog(IsVideo) /\ InCatalog(IsMedia)
    BY <1>3, Searches DEF InCatalog
  <2>2. resolveMediaTrack = [err |-> FALSE, name |-> tracks[i].name]
    BY <1>3 DEF resolveMediaTrack, Found
  <2> HIDE DEF i
  <2>3. Choice.err <=> ~parseCatalogOK
    BY <2>2 DEF Choice
  <2>4. ~Choice.err => Choice.media = tracks[i].name
    BY <2>2 DEF Choice
  <2> QED
    BY <2>1, <2>3, <2>4 DEF PlaysWhatThereIs, IsMedia, InCatalog
<1>4. CASE ~(First(IsVideo) > 0) /\ ~(First(IsMedia) > 0)
  <2>1. ~InCatalog(IsMedia)
    BY <1>4, Searches
  <2>2. Choice.err
    BY <1>4 DEF Choice, resolveMediaTrack, NotFound
  <2> QED
    BY <2>1, <2>2 DEF PlaysWhatThereIs
<1> QED
  BY <1>2, <1>3, <1>4

(***************************************************************************)
(* The init segment is the chosen media track's own, if track names are    *)
(* unique and not empty and the chosen track names one                     *)
(* (resolveMediaTrack, initTrackName).                                     *)
(***************************************************************************)
THEOREM InitFits == CatalogTypeOK => InitFitsMedia
<1> SUFFICES ASSUME CatalogTypeOK, ProperNames, ~Choice.err, NEW i \in DOMAIN tracks,
                    tracks[i].name = Choice.media, NamesInit(tracks[i])
             PROVE  Choice.init = tracks[i].initTrack
  BY DEF InitFitsMedia
<1>0. DOMAIN tracks = 1..Len(tracks) /\ Len(tracks) \in Nat
  BY DEF CatalogTypeOK
<1> DEFINE media == resolveMediaTrack.name
           I     == {j \in 1..Len(tracks) : tracks[j].name = media /\ NamesInit(tracks[j])}
           own   == IF I # {} THEN Min(I) ELSE 0
<1>1. Choice.media = media /\ Choice.init = initTrackName(media)
  BY DEF Choice
<1>2. media # ""
  BY <1>1 DEF ProperNames, InCatalog
<1>3. initTrackName(media) = IF own > 0 THEN tracks[own].initTrack
                             ELSE IF First(NamesInit) > 0 THEN tracks[First(NamesInit)].initTrack
                             ELSE DefaultInit
  <2> HIDE DEF media
  <2> QED
    BY <1>2 DEF initTrackName, First, SelectInSeq
<1>4. I \in SUBSET Nat /\ 0 \notin I /\ i \in I
  BY <1>0, <1>1
<1>5. own \in I /\ own > 0
  <2> HIDE DEF I
  <2> QED
    BY <1>4, FirstOf
<1>6. own \in DOMAIN tracks /\ tracks[own].name = tracks[i].name
  <2> HIDE DEF own
  <2> QED
    BY <1>0, <1>1, <1>5
<1>7. own = i
  <2> HIDE DEF own
  <2> QED
    BY <1>6 DEF ProperNames
<1> QED
  <2> HIDE DEF own
  <2> QED
    BY <1>1, <1>3, <1>5, <1>7

-----------------------------------------------------------------------------
\* A catalog as it is written, track by track.
CatalogSpec == CatalogInit /\ [][Describe]_catalogVars

LEMMA CatalogTyped == CatalogSpec => []CatalogTypeOK
<1>1. CatalogInit => CatalogTypeOK
  BY DEF CatalogInit, CatalogTypeOK
<1>2. CatalogTypeOK /\ [Describe]_catalogVars => CatalogTypeOK'
  BY DEF CatalogTypeOK, Describe, catalogVars
<1> QED
  BY <1>1, <1>2, PTL DEF CatalogSpec

(***************************************************************************)
(* Both hold of a catalog of any length, with any names (parseCatalog,     *)
(* resolveMediaTrack, initTrackName, bootstrapFromCatalog).                *)
(***************************************************************************)
THEOREM CatalogCorrect == CatalogSpec => [](PlaysWhatThereIs /\ InitFitsMedia)
BY CatalogTyped, ChoosesWell, InitFits, PTL
=============================================================================
