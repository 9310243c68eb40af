------------------------- MODULE KmsCaptureProofs -------------------------
(***************************************************************************)
(* That the KMS capturer keeps its types and leaks nothing, blends the     *)
(* cursor of the frame, and panics after a fault only: for any number of   *)
(* frames, modes, cursors and recycled framebuffer ids.                    *)
(***************************************************************************)
EXTENDS KmsCapture, FiniteSetTheorems, TLAPS

Size == {CursorSize, Smaller, CardSize}

LEMMA LowestIs ==
  ASSUME NEW S, S \subseteq Nat, NEW m \in S, \A n \in S : m <= n
  PROVE  Lowest(S) = m
<1>1. \E n \in S : \A k \in S : n <= k
  OBVIOUS
<1>2. Lowest(S) \in S /\ \A k \in S : Lowest(S) <= k
  BY <1>1 DEF Lowest
<1>3. Lowest(S) \in Nat /\ m \in Nat /\ Lowest(S) <= m /\ m <= Lowest(S)
  BY <1>2
<1>4. QED BY <1>3

(* A descriptor to be had is 1, 2 or 3 while two at most are open. *)
LEMMA FreeFD ==
  ASSUME fds \subseteq 1..3, ~(1 \in fds /\ 2 \in fds /\ 3 \in fds)
  PROVE  NewFD \in 1..3 \ fds
<1>1. CASE 1 \notin fds
  <2>1. 1 \in (1..9) \ fds /\ \A n \in (1..9) \ fds : 1 <= n
    BY <1>1
  <2>2. Lowest((1..9) \ fds) = 1
    BY <2>1, LowestIs
  <2>3. QED BY <1>1, <2>2 DEF NewFD
<1>2. CASE 1 \in fds /\ 2 \notin fds
  <2>1. 2 \in (1..9) \ fds /\ \A n \in (1..9) \ fds : 2 <= n
    BY <1>2
  <2>2. Lowest((1..9) \ fds) = 2
    BY <2>1, LowestIs
  <2>3. QED BY <1>2, <2>2 DEF NewFD
<1>3. CASE 1 \in fds /\ 2 \in fds
  <2>1. 3 \in (1..9) \ fds /\ \A n \in (1..9) \ fds : 3 <= n
    BY <1>3
  <2>2. Lowest((1..9) \ fds) = 3
    BY <2>1, LowestIs
  <2>3. QED BY <1>3, <2>2 DEF NewFD
<1>4. QED BY <1>1, <1>2, <1>3

-----------------------------------------------------------------------------
(* The invariant *)

(* The descriptors open are the kept ones, which differ, and the one being *)
(* looked at, which nobody else keeps until it is imported.                *)
FdInv ==
  /\ fds = IF at = "closed" THEN {}
           ELSE {lastDMAFD["screen"], lastDMAFD["cursor"], got.fd} \ {0}
  /\ at # "closed" => lastDMAFD["screen"] # 0 /\ lastDMAFD["screen"] # lastDMAFD["cursor"]
  /\ at \in {"idle", "info", "look"} => got = NoInfo
  /\ at = "import" => got.fd = lastDMAFD["screen"]
  /\ at = "cursor" => got.fd \notin {0, lastDMAFD["screen"], lastDMAFD["cursor"]}
  /\ at \in {"read", "blend"} => got.fd \in {0, lastDMAFD["cursor"]}

(* Every blit object has the one name that the static may hold.            *)
BlitInv ==
  /\ blit \in {0, 1} /\ \A c \in Ctx : gl[c][2] = 0 /\ gl[c][3] = 0
  /\ blit = 0 => blitSize = 0 /\ \A c \in Ctx : gl[c][1] = 0
  /\ blitSize # 0 /\ at # "closed" =>
       \/ gl[UserOf(blitSize)][blit] = blitSize
       \/ faults \cap {"incomplete", "reopen"} # {}

(* NextFrame's place tells the context, and what textures show.            *)
PlaceInv ==
  /\ at \in {"info", "import", "look"} => current = "screen"
  /\ at = "import" => got.size \in {Smaller, CardSize}
  /\ at = "read" => current = "cursor" /\ got.id # 0 /\ got.id = lastFBID
  /\ at = "cursor" => got.id # 0
  /\ at \in {"look", "cursor", "read", "blend"} => tex["screen"] # 0
  /\ at \notin {"blend", "panicked"} => overlay = 0

(* Only a mode change makes an image smaller, and only a failed import     *)
(* leaves the cursor without a buffer once an id was noted.                *)
FaultInv ==
  /\ "resize" \notin faults => primary # Smaller /\ got.size # Smaller
  /\ tex["screen"] \in {0, CardSize} \/ "resize" \in faults
  /\ lastFBID # 0 => pixelBuf["cursor"] # 0 \/ "import" \in faults
  /\ PanicNeedsFault

(* Until an id is recycled it names its buffer, in the cache too.          *)
CacheInv ==
  recycled = 0 =>
    /\ \A i \in FBID : buffer[i] = i
    /\ got.id # 0 => got.buf = got.id
    /\ tex["cursor"] \in {0, lastFBID}
    /\ at = "blend" /\ overlay # 0 => overlay = got.buf

KmsInv == KmsTypeOK /\ FdInv /\ BlitInv /\ PlaceInv /\ FaultInv /\ CacheInv
LEMMA InfoFields ==
  /\ \A a, b, c, d : LET i == [fd |-> a, id |-> b, buf |-> c, size |-> d]
                     IN i.fd = a /\ i.id = b /\ i.buf = c /\ i.size = d
  /\ NoInfo.fd = 0 /\ NoInfo.id = 0 /\ NoInfo.buf = 0 /\ NoInfo.size = 0
  /\ NoInfo \in Info
  /\ \A i \in Info : i.fd \in 0..3 /\ i.id \in FBID \cup {0} /\ i.buf \in Nat /\ i.size \in Size \cup {0}
BY DEF NoInfo, Info, FBID, Size

LEMMA CachedInfo ==
  ASSUME NEW i \in Info
  PROVE  LET j == [i EXCEPT !.fd = 0]
         IN j \in Info /\ j.fd = 0 /\ j.id = i.id /\ j.buf = i.buf /\ j.size = i.size
BY DEF Info

LEMMA NewInfo ==
  ASSUME NEW a \in 0..3, NEW b \in FBID \cup {0}, NEW c \in Nat, NEW d \in Size \cup {0}
  PROVE  [fd |-> a, id |-> b, buf |-> c, size |-> d] \in Info
BY DEF Info, Size
LEMMA KmsFacts ==
  ASSUME KmsInv
  PROVE  /\ fds \subseteq 1..3 /\ lastDMAFD \in [Ctx -> 0..3] /\ got \in Info
         /\ tex \in [Ctx -> Nat] /\ pixelBuf \in [Ctx -> Size \cup {0}]
         /\ primary \in Size \cup {0} /\ shown \in FBID \cup {0}
         /\ buffer \in [FBID -> Nat] /\ recycled \in 0..MaxRecycles
<1>1. {0, CursorSize, Smaller, CardSize} = Size \cup {0}
  BY DEF Size
<1>2. QED BY <1>1 DEF KmsInv, KmsTypeOK

LEMMA NotAllThree ==
  ASSUME NEW a, NEW b, NEW S, S = {a, b} \ {0}
  PROVE  ~(1 \in S /\ 2 \in S /\ 3 \in S)
OBVIOUS

LEMMA OneMore ==
  ASSUME NEW S, NEW a, NEW b, NEW n, S = {a, b} \ {0}, n \in 1..3 \ S
  PROVE  S \cup {n} = {a, b, n} \ {0} /\ n \notin {0, a, b}
OBVIOUS

(* A framebuffer is exported only while two descriptors at most are open.  *)
LEMMA NewFDIsFree ==
  ASSUME KmsInv, at \in {"info", "look"}
  PROVE  /\ fds = {lastDMAFD["screen"], lastDMAFD["cursor"]} \ {0}
         /\ lastDMAFD["screen"] \in 1..3 /\ lastDMAFD["cursor"] \in 0..3
         /\ lastDMAFD["screen"] # lastDMAFD["cursor"]
         /\ NewFD \in 1..3 \ fds /\ NewFD \notin {0, lastDMAFD["screen"], lastDMAFD["cursor"]}
<1>1. fds = {lastDMAFD["screen"], lastDMAFD["cursor"], got.fd} \ {0} /\ got.fd = 0
  BY InfoFields DEF KmsInv, FdInv
<1>2. fds = {lastDMAFD["screen"], lastDMAFD["cursor"]} \ {0}
  BY <1>1
<1>3. /\ lastDMAFD["screen"] \in 1..3 /\ lastDMAFD["cursor"] \in 0..3
      /\ lastDMAFD["screen"] # lastDMAFD["cursor"]
  BY KmsFacts DEF KmsInv, FdInv, Ctx
<1>4. ~(1 \in fds /\ 2 \in fds /\ 3 \in fds)
  BY <1>2, NotAllThree
<1>5. fds \subseteq 1..3
  BY KmsFacts
<1>6. NewFD \in 1..3 \ fds
  BY <1>4, <1>5, FreeFD
<1>7. QED BY <1>2, <1>3, <1>6, OneMore

-----------------------------------------------------------------------------
(* The steps *)

LEMMA SimpleStepsKeep ==
  ASSUME KmsInv,
         \/ BeginFrame \/ GetFBInfo \/ GetFBInfoFails \/ NoCursor \/ CursorInfo
         \/ ImportCursor \/ CursorCached \/ Blend \/ KmsClose \/ Reopen
  PROVE  KmsInv'
<1>f. /\ fds \subseteq 1..3 /\ lastDMAFD \in [Ctx -> 0..3] /\ got \in Info
      /\ tex \in [Ctx -> Nat] /\ pixelBuf \in [Ctx -> Size \cup {0}]
      /\ primary \in Size \cup {0} /\ shown \in FBID \cup {0}
      /\ buffer \in [FBID -> Nat] /\ recycled \in 0..MaxRecycles
  BY KmsFacts
<1> USE
    DEF FBID, Ctx, Name, Size, CursorSize, Smaller, CardSize, fdVars, eglVars, blitVars,
        planeVars
<1>1. CASE BeginFrame
  BY <1>1, InfoFields
     DEF KmsInv, KmsTypeOK, FdInv, BlitInv, PlaceInv, FaultInv, CacheInv,
         PanicNeedsFault, BeginFrame
<1>2. CASE GetFBInfo
  <2> DEFINE s == lastDMAFD["screen"]
             c == lastDMAFD["cursor"]
  <2>1. /\ at = "info" /\ fds = {s, c} \ {0} /\ s # c
        /\ s \in 1..3 /\ c \in 0..3 /\ NewFD \in 1..3 \ fds /\ NewFD \notin {0, s, c}
    BY <1>2, NewFDIsFree DEF GetFBInfo
  <2>2. got' \in Info /\ got'.fd = NewFD /\ got'.id = 0 /\ got'.buf = 0 /\ got'.size = primary
    <3>1. NewFD \in 0..3 /\ 0 \in FBID \cup {0} /\ 0 \in Nat /\ primary \in Size \cup {0}
      BY <1>f, <2>1
    <3>2. QED BY <1>2, <3>1, NewInfo DEF GetFBInfo
  <2>3. /\ lastDMAFD' \in [Ctx -> 0..3] /\ lastDMAFD'["screen"] = NewFD /\ lastDMAFD'["cursor"] = c
        /\ at' = "import" /\ fds' = (fds \cup {NewFD}) \ {s}
    BY <1>2, <1>f, <2>1 DEF GetFBInfo
  <2>4. FdInv'
    BY <2>1, <2>2, <2>3 DEF FdInv
  <2>5. KmsTypeOK'
    BY <1>2, <2>1, <2>2, <2>3 DEF KmsInv, KmsTypeOK, GetFBInfo
  <2>6. BlitInv' /\ PlaceInv'
    BY <1>2, <2>2, <2>3 DEF KmsInv, BlitInv, PlaceInv, KmsTypeOK, GetFBInfo
  <2>7. FaultInv' /\ CacheInv'
    BY <1>2, <2>2, <2>3 DEF KmsInv, FaultInv, CacheInv, PanicNeedsFault, GetFBInfo
  <2>8. QED BY <2>4, <2>5, <2>6, <2>7 DEF KmsInv
<1>3. CASE GetFBInfoFails
  BY <1>3, InfoFields
     DEF KmsInv, KmsTypeOK, FdInv, BlitInv, PlaceInv, FaultInv, CacheInv,
         PanicNeedsFault, GetFBInfoFails
<1>4. CASE NoCursor
  BY <1>4, InfoFields
     DEF KmsInv, KmsTypeOK, FdInv, BlitInv, PlaceInv, FaultInv, CacheInv,
         PanicNeedsFault, NoCursor
<1>5. CASE CursorInfo
  <2> DEFINE s == lastDMAFD["screen"]
             c == lastDMAFD["cursor"]
  <2>1. /\ at = "look" /\ fds = {s, c} \ {0} /\ s # c
        /\ s \in 1..3 /\ c \in 0..3 /\ NewFD \in 1..3 \ fds /\ NewFD \notin {0, s, c}
    BY <1>5, NewFDIsFree DEF CursorInfo
  <2>2. shown \in FBID
    BY <1>5, <1>f DEF CursorInfo
  <2>3. /\ got' \in Info /\ got'.fd = NewFD /\ got'.id = shown
        /\ got'.buf = buffer[shown] /\ got'.size = CursorSize
    <3>1. NewFD \in 0..3
      BY <2>1
    <3>0. shown \in FBID \cup {0}
      BY <2>2
    <3>2. buffer[shown] \in Nat
      BY <1>f, <2>2
    <3>3. QED BY <1>5, <3>1, <3>0, <3>2, NewInfo DEF CursorInfo
  <2>4. at' = "cursor" /\ fds' = fds \cup {NewFD} /\ lastDMAFD' = lastDMAFD
    BY <1>5 DEF CursorInfo
  <2>5. FdInv'
    <3>1. fds' = {lastDMAFD'["screen"], lastDMAFD'["cursor"], got'.fd} \ {0}
      BY <2>1, <2>3, <2>4, OneMore
    <3>2. got'.fd \notin {0, lastDMAFD'["screen"], lastDMAFD'["cursor"]}
      BY <2>1, <2>3, <2>4
    <3>3. QED BY <2>1, <2>4, <3>1, <3>2 DEF FdInv
  <2>6. KmsTypeOK'
    BY <1>5, <2>1, <2>2, <2>3, <2>4 DEF KmsInv, KmsTypeOK, CursorInfo
  <2>7. BlitInv' /\ PlaceInv'
    BY <1>5, <2>1, <2>2, <2>3, <2>4 DEF KmsInv, BlitInv, PlaceInv, KmsTypeOK, CursorInfo
  <2>8. FaultInv'
    BY <1>5, <2>3, <2>4 DEF KmsInv, FaultInv, PanicNeedsFault, CursorInfo
  <2>9. CacheInv'
    BY <1>5, <2>2, <2>3, <2>4 DEF KmsInv, CacheInv, CursorInfo
  <2>10. QED BY <2>5, <2>6, <2>7, <2>8, <2>9 DEF KmsInv
<1>6. CASE ImportCursor
  <2>1. /\ at = "cursor" /\ at' \in {"read", "blend"} /\ current' = "cursor" /\ got' = got
        /\ fds' = fds \ {lastDMAFD["cursor"]} /\ lastFBID' = got.id /\ overlay' = 0
        /\ lastDMAFD \in [Ctx -> 0..3]
    BY <1>6 DEF ImportCursor, KmsInv, KmsTypeOK, PlaceInv
  <2>2. got.fd \in 0..3 /\ got.id \in FBID \cup {0} /\ got.id # 0 /\ got.buf \in Nat
    BY <2>1, InfoFields DEF KmsInv, KmsTypeOK, PlaceInv
  <2>3. /\ lastDMAFD' \in [Ctx -> 0..3] /\ lastDMAFD'["screen"] = lastDMAFD["screen"]
        /\ lastDMAFD'["cursor"] = got.fd
    BY <1>6, <2>1, <2>2 DEF ImportCursor
  <2>4. /\ tex' \in [Ctx -> Nat] /\ tex'["screen"] = tex["screen"] /\ tex'["cursor"] \in {0, got.buf}
        /\ pixelBuf' \in [Ctx -> {0, CursorSize, Smaller, CardSize}]
        /\ (pixelBuf'["cursor"] # 0 /\ faults' = faults) \/ (at' = "blend" /\ faults' = faults \cup {"import"})
    <3>1. CASE Import("cursor", got.buf, CursorSize) /\ at' = "read" /\ faults' = faults
      <4>1. /\ tex' \in [Ctx -> Nat] /\ tex'["screen"] = tex["screen"] /\ tex'["cursor"] = got.buf
        BY <1>f, <2>2, <3>1 DEF Import
      <4>2. pixelBuf["cursor"] \in {0, 1, 2, 3}
        BY <1>f
      <4>3. pixelBuf'["cursor"] = IF pixelBuf["cursor"] < 1 THEN 1 ELSE pixelBuf["cursor"]
        BY <1>f, <3>1 DEF Import
      <4>4. pixelBuf'["cursor"] # 0 /\ pixelBuf'["cursor"] \in {0, 1, 2, 3}
        BY <4>2, <4>3
      <4>5. pixelBuf' \in [Ctx -> {0, CursorSize, Smaller, CardSize}]
        BY <1>f, <3>1, <4>4 DEF Import
      <4>6. QED BY <3>1, <4>1, <4>4, <4>5
    <3>2. CASE ImportFails("cursor") /\ at' = "blend" /\ faults' = faults \cup {"import"}
      BY <1>f, <2>2, <3>2 DEF ImportFails
    <3>3. QED BY <1>6, <3>1, <3>2 DEF ImportCursor
  <2>5. FdInv'
    BY <2>1, <2>2, <2>3 DEF KmsInv, FdInv
  <2>6. KmsTypeOK'
    BY <1>6, <2>1, <2>2, <2>3, <2>4 DEF KmsInv, KmsTypeOK, ImportCursor
  <2>7. BlitInv'
    BY <1>6, <2>1, <2>4 DEF KmsInv, BlitInv, ImportCursor
  <2>8. PlaceInv' /\ FaultInv'
    BY <1>6, <2>1, <2>2, <2>4 DEF KmsInv, PlaceInv, FaultInv, PanicNeedsFault, ImportCursor
  <2>9. CacheInv'
    BY <1>6, <2>1, <2>2, <2>4 DEF KmsInv, CacheInv, ImportCursor
  <2>10. QED BY <2>5, <2>6, <2>7, <2>8, <2>9 DEF KmsInv
<1>7. CASE CursorCached
  BY <1>7, CachedInfo, InfoFields
     DEF KmsInv, KmsTypeOK, FdInv, BlitInv, PlaceInv, FaultInv, CacheInv,
         PanicNeedsFault, CursorCached
<1>8. CASE Blend
  BY <1>8, InfoFields
     DEF KmsInv, KmsTypeOK, FdInv, BlitInv, PlaceInv, FaultInv, CacheInv,
         PanicNeedsFault, Blend
<1>9. CASE KmsClose
  BY <1>9, InfoFields
     DEF KmsInv, KmsTypeOK, FdInv, BlitInv, PlaceInv, FaultInv, CacheInv,
         PanicNeedsFault, KmsClose, NoObjects
<1>10. CASE Reopen
  BY <1>10, InfoFields
     DEF KmsInv, KmsTypeOK, FdInv, BlitInv, PlaceInv, FaultInv, CacheInv,
         PanicNeedsFault, Reopen, NoObjects, Kept
<1>11. QED BY <1>1, <1>2, <1>3, <1>4, <1>5, <1>6, <1>7, <1>8, <1>9, <1>10

LEMMA CompositorKeeps ==
  ASSUME KmsInv, Compositor
  PROVE  KmsInv'
<1>f. /\ fds \subseteq 1..3 /\ lastDMAFD \in [Ctx -> 0..3] /\ got \in Info
      /\ tex \in [Ctx -> Nat] /\ pixelBuf \in [Ctx -> Size \cup {0}]
      /\ primary \in Size \cup {0} /\ shown \in FBID \cup {0}
      /\ buffer \in [FBID -> Nat] /\ recycled \in 0..MaxRecycles
  BY KmsFacts
<1> USE
    DEF FBID, Ctx, Name, Size, CursorSize, Smaller, CardSize, fdVars, eglVars, blitVars,
        planeVars
<1>1. ASSUME NEW size \in {0, Smaller, CardSize}, SetPrimary(size) PROVE KmsInv'
  BY <1>1, InfoFields
     DEF KmsInv, KmsTypeOK, FdInv, BlitInv, PlaceInv, FaultInv, CacheInv,
         PanicNeedsFault, SetPrimary
<1>2. ASSUME NEW id \in FBID \cup {0}, SetCursor(id) PROVE KmsInv'
  BY <1>2, InfoFields
     DEF KmsInv, KmsTypeOK, FdInv, BlitInv, PlaceInv, FaultInv, CacheInv,
         PanicNeedsFault, SetCursor
<1>3. ASSUME NEW id \in FBID, Recycle(id) PROVE KmsInv'
  <2>1. buffer' \in [FBID -> Nat] /\ recycled' \in 0..MaxRecycles /\ recycled' # 0
    BY <1>3, <1>f, RecyclesAssumption DEF Recycle
  <2>2. KmsTypeOK'
    BY <1>3, <2>1 DEF KmsInv, KmsTypeOK, Recycle
  <2>3. CacheInv'
    BY <2>1 DEF CacheInv
  <2>4. FdInv' /\ PlaceInv'
    BY <1>3 DEF KmsInv, FdInv, PlaceInv, Recycle
  <2>5. BlitInv' /\ FaultInv'
    BY <1>3 DEF KmsInv, BlitInv, FaultInv, PanicNeedsFault, Recycle
  <2>6. QED BY <2>2, <2>3, <2>4, <2>5 DEF KmsInv
<1>4. QED BY <1>1, <1>2, <1>3 DEF Compositor

(* Ensure, for the context that reads images of this size.                 *)
LEMMA EnsureEffect ==
  ASSUME KmsInv, at # "closed", NEW c \in Ctx, NEW size \in Size, c = UserOf(size),
         NEW complete \in BOOLEAN, Ensure(c, size, complete)
  PROVE  /\ blit' = 1 /\ blitSize' \in Size \cup {0}
         /\ gl' \in [Ctx -> [Name -> {-1, 0, CursorSize, Smaller, CardSize}]]
         /\ \A x \in Ctx : gl'[x][2] = 0 /\ gl'[x][3] = 0
         /\ blitSize' # 0 =>
              gl'[UserOf(blitSize')][1] = blitSize' \/ faults' \cap {"incomplete", "reopen"} # {}
         /\ faults' \in {faults, faults \cup {"incomplete"}}
<1> DEFINE GL == [Name -> {-1, 0, CursorSize, Smaller, CardSize}]
<1>1. /\ gl \in [Ctx -> GL] /\ blit \in {0, 1} /\ blitSize \in Size \cup {0}
      /\ (blit = 0 => blitSize = 0) /\ (blit = 0 => gl[c][1] = 0)
      /\ \A x \in Ctx : gl[x][2] = 0 /\ gl[x][3] = 0
      /\ blitSize # 0 =>
           gl[UserOf(blitSize)][blit] = blitSize \/ faults \cap {"incomplete", "reopen"} # {}
  BY DEF KmsInv, KmsTypeOK, BlitInv, Size
<1>2. CASE blit # 0 /\ blitSize = size
  BY <1>1, <1>2 DEF Ensure, blitVars
<1>3. CASE ~(blit # 0 /\ blitSize = size)
  <2> DEFINE left == Freed(c)
             new == Lowest({n \in Name : left[n] = 0})
             value == IF complete THEN size ELSE -1
  <2>1. left \in GL /\ left[1] = 0 /\ left[2] = 0 /\ left[3] = 0
    BY <1>1 DEF Freed, Name
  <2>2. new = 1
    <3>1. /\ {n \in Name : left[n] = 0} \subseteq Nat /\ 1 \in {n \in Name : left[n] = 0}
          /\ \A n \in {n \in Name : left[n] = 0} : 1 <= n
      BY <2>1 DEF Name
    <3>2. QED BY <3>1, LowestIs
  <2> HIDE DEF left, new
  <2>3. /\ gl' = [gl EXCEPT ![c] = [left EXCEPT ![1] = value]] /\ blit' = 1
        /\ faults' = (IF complete THEN faults ELSE faults \cup {"incomplete"})
        /\ blitSize' = (IF complete THEN size ELSE blitSize)
    BY <1>3, <2>2 DEF Ensure, left, new
  <2>4. [left EXCEPT ![1] = value] \in GL
    BY <2>1 DEF Size, Name
  <2>5. /\ gl' \in [Ctx -> GL] /\ gl'[c][1] = value
        /\ \A x \in Ctx : gl'[x][2] = 0 /\ gl'[x][3] = 0
    BY <1>1, <2>1, <2>3, <2>4 DEF Name
  <2>6. complete => gl'[UserOf(blitSize')][1] = blitSize'
    BY <2>3, <2>5
  <2>7. ~complete => "incomplete" \in faults'
    BY <2>3
  <2>8. QED BY <1>1, <2>3, <2>5, <2>6, <2>7
<1>4. QED BY <1>2, <1>3

LEMMA ReadScreenKeeps ==
  ASSUME KmsInv, ReadScreen
  PROVE  KmsInv'
<1>f. /\ fds \subseteq 1..3 /\ lastDMAFD \in [Ctx -> 0..3] /\ got \in Info
      /\ tex \in [Ctx -> Nat] /\ pixelBuf \in [Ctx -> Size \cup {0}]
      /\ primary \in Size \cup {0} /\ shown \in FBID \cup {0}
      /\ buffer \in [FBID -> Nat] /\ recycled \in 0..MaxRecycles
  BY KmsFacts
<1> USE
    DEF FBID, Ctx, Name, Size, CursorSize, Smaller, CardSize, fdVars, eglVars, blitVars,
        planeVars
<1>1. /\ at = "import" /\ current = "screen" /\ got.size \in {Smaller, CardSize} /\ overlay = 0
      /\ got.fd = lastDMAFD["screen"]
  BY DEF KmsInv, FdInv, PlaceInv, ReadScreen
<1>2. /\ got' = NoInfo /\ UNCHANGED <<current, fds, lastDMAFD, lastFBID, overlay, planeVars>>
      /\ at' \in {"idle", "look"}
  BY DEF ReadScreen
<1>3. FdInv'
  BY <1>1, <1>2, InfoFields DEF KmsInv, FdInv
<1>4. CASE ImportFails("screen") /\ at' = "idle" /\ UNCHANGED <<blitVars, faults>>
  BY <1>f, <1>1, <1>2, <1>3, <1>4, InfoFields
     DEF KmsInv, KmsTypeOK, BlitInv, PlaceInv, FaultInv, PanicNeedsFault, CacheInv, ImportFails
<1>5. ASSUME Import("screen", got.size, got.size), NEW complete \in BOOLEAN,
             Ensure(current, got.size, complete)
      PROVE  KmsInv'
  <2>1. /\ tex' \in [Ctx -> Nat] /\ tex'["screen"] = got.size /\ tex'["cursor"] = tex["cursor"]
        /\ pixelBuf' \in [Ctx -> Size \cup {0}] /\ pixelBuf'["cursor"] = pixelBuf["cursor"]
    BY <1>f, <1>1, <1>5 DEF Import
  <2>2. /\ blit' = 1 /\ blitSize' \in Size \cup {0}
        /\ gl' \in [Ctx -> [Name -> {-1, 0, CursorSize, Smaller, CardSize}]]
        /\ \A x \in Ctx : gl'[x][2] = 0 /\ gl'[x][3] = 0
        /\ blitSize' # 0 =>
             gl'[UserOf(blitSize')][1] = blitSize' \/ faults' \cap {"incomplete", "reopen"} # {}
        /\ faults' \in {faults, faults \cup {"incomplete"}}
    <3>1. current = UserOf(got.size) /\ got.size \in Size /\ current \in Ctx /\ at # "closed"
      BY <1>1 DEF UserOf
    <3>2. QED BY <1>5, <3>1, EnsureEffect
  <2>3. KmsTypeOK'
    BY <1>f, <1>1, <1>2, <2>1, <2>2, InfoFields DEF KmsInv, KmsTypeOK
  <2>4. BlitInv'
    BY <2>2 DEF BlitInv
  <2>5. PlaceInv'
    BY <1>1, <1>2, <2>1 DEF PlaceInv
  <2>6. FaultInv'
    BY <1>1, <1>2, <2>1, <2>2, InfoFields DEF KmsInv, FaultInv, PanicNeedsFault
  <2>7. CacheInv'
    BY <1>1, <1>2, <2>1, InfoFields DEF KmsInv, CacheInv
  <2>8. QED BY <1>3, <2>3, <2>4, <2>5, <2>6, <2>7 DEF KmsInv
<1>6. QED BY <1>4, <1>5 DEF ReadScreen

LEMMA ReadCursorKeeps ==
  ASSUME KmsInv, ReadCursor
  PROVE  KmsInv'
<1>f. /\ fds \subseteq 1..3 /\ lastDMAFD \in [Ctx -> 0..3] /\ got \in Info
      /\ tex \in [Ctx -> Nat] /\ pixelBuf \in [Ctx -> Size \cup {0}]
      /\ primary \in Size \cup {0} /\ shown \in FBID \cup {0}
      /\ buffer \in [FBID -> Nat] /\ recycled \in 0..MaxRecycles
  BY KmsFacts
<1> USE
    DEF FBID, Ctx, Name, Size, CursorSize, Smaller, CardSize, fdVars, eglVars, blitVars,
        planeVars
<1>1. /\ at = "read" /\ current = "cursor" /\ got.id # 0 /\ got.id = lastFBID /\ overlay = 0
      /\ UNCHANGED <<current, fdVars, eglVars, planeVars>>
  BY DEF KmsInv, PlaceInv, ReadCursor
<1>2. CASE pixelBuf["cursor"] = 0
  <2>1. at' = "panicked" /\ UNCHANGED <<blitVars, overlay, faults>>
    BY <1>2 DEF ReadCursor
  <2>2. KmsTypeOK'
    BY <1>1, <2>1 DEF KmsInv, KmsTypeOK
  <2>3. FdInv' /\ PlaceInv' /\ CacheInv'
    BY <1>1, <2>1 DEF KmsInv, FdInv, PlaceInv, CacheInv
  <2>4. BlitInv'
    BY <1>1, <2>1 DEF KmsInv, BlitInv
  <2>5. FaultInv'
    BY <1>1, <1>2, <2>1 DEF KmsInv, FaultInv, PanicNeedsFault
  <2>6. QED BY <2>2, <2>3, <2>4, <2>5 DEF KmsInv
<1>3. CASE pixelBuf["cursor"] # 0
  <2>1. PICK complete \in BOOLEAN : Ensure(current, CursorSize, complete)
    BY <1>3 DEF ReadCursor
  <2>2. at' = "blend" /\ overlay' \in {0, tex["cursor"]}
    BY <1>3 DEF ReadCursor
  <2>3. /\ blit' = 1 /\ blitSize' \in Size \cup {0}
        /\ gl' \in [Ctx -> [Name -> {-1, 0, CursorSize, Smaller, CardSize}]]
        /\ \A x \in Ctx : gl'[x][2] = 0 /\ gl'[x][3] = 0
        /\ blitSize' # 0 =>
             gl'[UserOf(blitSize')][1] = blitSize' \/ faults' \cap {"incomplete", "reopen"} # {}
        /\ faults' \in {faults, faults \cup {"incomplete"}}
    <3>1. current = UserOf(CursorSize) /\ CursorSize \in Size /\ current \in Ctx /\ at # "closed"
      BY <1>1 DEF UserOf
    <3>2. QED BY <2>1, <3>1, EnsureEffect
  <2>4. KmsTypeOK'
    BY <1>f, <1>1, <2>2, <2>3 DEF KmsInv, KmsTypeOK
  <2>5. BlitInv'
    BY <2>3 DEF BlitInv
  <2>6. FdInv' /\ PlaceInv'
    BY <1>1, <2>2 DEF KmsInv, FdInv, PlaceInv
  <2>7. FaultInv'
    BY <1>1, <2>2, <2>3 DEF KmsInv, FaultInv, PanicNeedsFault
  <2>8. CacheInv'
    BY <1>1, <2>2 DEF KmsInv, CacheInv
  <2>9. QED BY <2>4, <2>5, <2>6, <2>7, <2>8 DEF KmsInv
<1>4. QED BY <1>2, <1>3

LEMMA KmsInvHolds == KmsSpec => []KmsInv
<1>1. KmsInit => KmsInv
  <2> SUFFICES ASSUME KmsInit PROVE KmsInv
    OBVIOUS
  <2> USE DEF FBID, Ctx, Name, CursorSize, Smaller, CardSize, Kept, NoObjects
  <2>1. KmsTypeOK
    BY RecyclesAssumption, InfoFields DEF KmsInit, KmsTypeOK
  <2>2. FdInv /\ BlitInv
    BY InfoFields DEF KmsInit, FdInv, BlitInv
  <2>3. PlaceInv /\ FaultInv /\ CacheInv
    BY InfoFields DEF KmsInit, PlaceInv, FaultInv, PanicNeedsFault, CacheInv
  <2>4. QED BY <2>1, <2>2, <2>3 DEF KmsInv
<1>2. KmsInv /\ [KmsNext]_kmsVars => KmsInv'
  <2>1. CASE UNCHANGED kmsVars
    <3> USE <2>1 DEF KmsInv, kmsVars, fdVars, eglVars, blitVars, planeVars
    <3>1. KmsInv => KmsTypeOK'
      BY DEF KmsTypeOK
    <3>2. KmsInv => FdInv' /\ PlaceInv' /\ CacheInv'
      BY DEF FdInv, PlaceInv, CacheInv
    <3>3. KmsInv => BlitInv' /\ FaultInv'
      BY DEF BlitInv, FaultInv, PanicNeedsFault
    <3>4. QED BY <3>1, <3>2, <3>3
  <2>2. QED BY <2>1, SimpleStepsKeep, CompositorKeeps, ReadScreenKeeps, ReadCursorKeeps
             DEF KmsNext, NextFrame
<1>3. QED BY <1>1, <1>2, PTL DEF KmsSpec

-----------------------------------------------------------------------------
(* Every variable keeps its type: three descriptors are never exceeded.    *)
THEOREM KmsTypeCorrect == KmsSpec => []KmsTypeOK
<1>1. KmsInv => KmsTypeOK
  BY DEF KmsInv
<1>2. QED BY <1>1, KmsInvHolds, PTL

(* No descriptor and no blit object is left behind, and the statics tell   *)
(* the truth unless an object was incomplete or the capturer reopened.     *)
THEOREM KmsLeaksNothing == KmsSpec => []NothingLeaks
<1>1. KmsInv => NothingLeaks
  <2> SUFFICES ASSUME KmsInv PROVE NothingLeaks
    OBVIOUS
  <2>1. ASSUME NEW c \in Ctx PROVE Cardinality(Objects(c)) <= 1
    <3>1. Objects(c) = {} \/ Objects(c) = {1}
      BY DEF KmsInv, BlitInv, Objects, Name
    <3>2. QED BY <3>1, FS_EmptySet, FS_Singleton
  <2>2. QED BY <2>1 DEF KmsInv, FdInv, BlitInv, NothingLeaks
<1>2. QED BY <1>1, KmsInvHolds, PTL

(* The cursor blended into a frame is the one its plane showed for it,     *)
(* unless a framebuffer id was recycled.                                   *)
THEOREM KmsCursorIsCurrent == KmsSpec => []CursorOfPlane
<1>1. KmsInv => CursorOfPlane
  BY RecyclesAssumption DEF KmsInv, KmsTypeOK, CacheInv, CursorOfPlane
<1>2. QED BY <1>1, KmsInvHolds, PTL

(* No panic without a failed import or a screen that became smaller.       *)
THEOREM KmsPanicsAfterFault == KmsSpec => []PanicNeedsFault
<1>1. KmsInv => PanicNeedsFault
  BY DEF KmsInv, FaultInv
<1>2. QED BY <1>1, KmsInvHolds, PTL
=============================================================================
