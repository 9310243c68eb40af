----------------------------- MODULE KmsCapture -----------------------------
(***************************************************************************)
(* The KMS capturer (kms.go) with its cursor overlay (cursor.go), over DRM *)
(* and EGL (drm.go, egl.go): one thread, two EGL contexts that share the   *)
(* blit objects which egl.go keeps in static variables, and the dma-buf    *)
(* descriptors that the two planes' framebuffers are exported as.  The     *)
(* compositor (external) changes the planes between any two calls.  Pixels *)
(* are left out: an image is the size of its framebuffer and, for the      *)
(* cursor, the buffer it was imported from.  A cursor plane that is not    *)
(* found is one that never shows anything.                                 *)
(***************************************************************************)
EXTENDS Integers, FiniteSets

CONSTANT MaxRecycles  \* bound: framebuffer ids given to another buffer

ASSUME RecyclesAssumption == MaxRecycles \in Nat

VARIABLES
  at,        \* the thread: the call it makes next
  current,   \* the EGL context made current
  fds,       \* open dma-buf descriptors
  lastDMAFD, \* context's owner: lastDMAFD, 0 for -1
  got,       \* what the last export returned: descriptor, id, buffer, size
  tex,       \* context's owner: what texture shows (a size, a buffer), 0 for none
  pixelBuf,  \* context's owner: size of pixelBuf
  lastFBID,  \* the cursor's lastFBID
  blit,      \* read_rbo with its two framebuffers
  blitSize,  \* read_rbo_w, read_rbo_h
  gl,        \* context: its renderbuffers, 0 for a free name, -1 for an incomplete one
  overlay,   \* cursorFrame: the buffer it was read from, 0 for nil
  primary,   \* kernel: size of the primary plane's framebuffer, 0 for none
  shown,     \* kernel: framebuffer id on the cursor plane, 0 for none
  buffer,    \* kernel: the buffer behind a framebuffer id
  recycled,  \* kernel: ids given to another buffer so far
  faults     \* history: what went wrong outside

fdVars == <<fds, lastDMAFD, got>>
eglVars == <<tex, pixelBuf, lastFBID>>
blitVars == <<blit, blitSize, gl>>
planeVars == <<primary, shown, buffer, recycled>>
kmsVars == <<at, current, fdVars, eglVars, blitVars, overlay, planeVars, faults>>

Ctx == {"screen", "cursor"}
CursorSize == 1
Smaller == 2      \* a mode smaller than the one the card was opened in
CardSize == 3
Name == 1..3
FBID == {1, 2}
NoInfo == [fd |-> 0, id |-> 0, buf |-> 0, size |-> 0]

Lowest(S) == CHOOSE n \in S : \A m \in S : n <= m
NewFD == Lowest((1..9) \ fds)

Kept(fd) == [c \in Ctx |-> IF c = "screen" THEN fd ELSE 0]
NoObjects == [c \in Ctx |-> [n \in Name |-> 0]]

(* NewKMSCapturer: the screen imported once, then the cursor's context made. *)
KmsInit ==
  /\ at = "idle" /\ current = "cursor"
  /\ fds = {1} /\ lastDMAFD = Kept(1) /\ got = NoInfo
  /\ tex = Kept(CardSize) /\ pixelBuf = Kept(CardSize) /\ lastFBID = 0
  /\ blit = 0 /\ blitSize = 0 /\ gl = NoObjects
  /\ overlay = 0
  /\ primary = CardSize /\ shown = 1 /\ buffer = [i \in FBID |-> i] /\ recycled = 0
  /\ faults = {}

-----------------------------------------------------------------------------
(* Shared by both images *)

(* Mutant of ImportFails: the old texture is kept. *)
ImportFailsKeeps(c) == UNCHANGED <<tex, pixelBuf>>

ImportFails(c) ==
  /\ tex' = [tex EXCEPT ![c] = 0]
  /\ UNCHANGED pixelBuf

(* Mutant of Import: the buffer does not grow with the image. *)
ImportNoGrow(c, image, size) ==
  /\ tex' = [tex EXCEPT ![c] = image]
  /\ UNCHANGED pixelBuf

Import(c, image, size) ==
  /\ tex' = [tex EXCEPT ![c] = image]
  /\ pixelBuf' = [pixelBuf EXCEPT ![c] = IF @ < size THEN size ELSE @]

(* Mutant of Freed: the old objects are not deleted. *)
FreedNever(c) == gl[c]

(* A context's objects without the name in the static, whoever made it. *)
Freed(c) == [n \in Name |-> IF n = blit THEN 0 ELSE gl[c][n]]

(* ensure_blit_fbo.  GL deletes names that the context does not know with  *)
(* no effect, and (in Mesa) hands out the lowest free one.                 *)
Ensure(c, size, complete) ==
  IF blit # 0 /\ blitSize = size THEN complete /\ UNCHANGED <<blitVars, faults>>
  ELSE LET left == Freed(c)
           new == Lowest({n \in Name : left[n] = 0})
       IN /\ faults' = IF complete THEN faults ELSE faults \cup {"incomplete"}
          /\ gl' = [gl EXCEPT ![c] = [left EXCEPT ![new] = IF complete THEN size ELSE -1]]
          /\ blit' = new
          /\ blitSize' = IF complete THEN size ELSE blitSize

(* read_texture_pixels can only succeed with objects that the current      *)
(* context knows, of the right size (and with a texture).                  *)
Readable(c, size) == gl'[c][blit'] = size

-----------------------------------------------------------------------------
(* NextFrame *)

BeginFrame ==
  /\ at = "idle"
  /\ current' = "screen"
  /\ at' = IF primary = 0 THEN "idle" ELSE "info"
  /\ UNCHANGED <<fdVars, eglVars, blitVars, overlay, planeVars, faults>>

(* Mutant of GetFBInfo: the descriptor of the last frame is not closed. *)
GetFBInfoLeaks ==
  /\ at = "info" /\ primary # 0
  /\ at' = "import"
  /\ fds' = fds \cup {NewFD}
  /\ lastDMAFD' = [lastDMAFD EXCEPT !["screen"] = NewFD]
  /\ got' = [fd |-> NewFD, id |-> 0, buf |-> 0, size |-> primary]
  /\ UNCHANGED <<current, eglVars, blitVars, overlay, planeVars, faults>>

GetFBInfo ==
  /\ at = "info" /\ primary # 0
  /\ at' = "import"
  /\ fds' = (fds \cup {NewFD}) \ {lastDMAFD["screen"]}
  /\ lastDMAFD' = [lastDMAFD EXCEPT !["screen"] = NewFD]
  /\ got' = [fd |-> NewFD, id |-> 0, buf |-> 0, size |-> primary]
  /\ UNCHANGED <<current, eglVars, blitVars, overlay, planeVars, faults>>

(* The plane, its framebuffer or the export cannot be had. *)
GetFBInfoFails ==
  /\ at = "info" /\ at' = "idle"
  /\ UNCHANGED <<current, fdVars, eglVars, blitVars, overlay, planeVars, faults>>

ReadScreen ==
  /\ at = "import"
  /\ \/ /\ ImportFails("screen") /\ at' = "idle"
        /\ UNCHANGED <<blitVars, faults>>
     \/ /\ Import("screen", got.size, got.size)
        /\ \E complete \in BOOLEAN :
             /\ Ensure(current, got.size, complete)
             /\ \/ complete /\ Readable(current, got.size) /\ at' = "look"
                \/ at' = "idle"
  /\ got' = NoInfo
  /\ UNCHANGED <<current, fds, lastDMAFD, lastFBID, overlay, planeVars>>

(* get_cursor_info: nothing is shown, or the export fails. *)
NoCursor ==
  /\ at = "look" /\ at' = "blend"
  /\ overlay' = 0
  /\ UNCHANGED <<current, fdVars, eglVars, blitVars, planeVars, faults>>

CursorInfo ==
  /\ at = "look" /\ shown # 0
  /\ at' = "cursor"
  /\ fds' = fds \cup {NewFD}
  /\ got' = [fd |-> NewFD, id |-> shown, buf |-> buffer[shown], size |-> CursorSize]
  /\ UNCHANGED <<current, lastDMAFD, eglVars, blitVars, overlay, planeVars, faults>>

(* The id has changed: it is noted before the import is known to work. *)
ImportCursor ==
  /\ at = "cursor" /\ got.id # lastFBID
  /\ current' = "cursor" /\ lastFBID' = got.id
  /\ fds' = fds \ {lastDMAFD["cursor"]}
  /\ lastDMAFD' = [lastDMAFD EXCEPT !["cursor"] = got.fd]
  /\ \/ /\ Import("cursor", got.buf, CursorSize)
        /\ at' = "read" /\ UNCHANGED <<overlay, faults>>
     \/ /\ ImportFails("cursor")
        /\ at' = "blend" /\ overlay' = 0 /\ faults' = faults \cup {"import"}
  /\ UNCHANGED <<got, blitVars, planeVars>>

CursorCached ==
  /\ at = "cursor" /\ got.id = lastFBID
  /\ current' = "cursor" /\ at' = "read"
  /\ fds' = fds \ {got.fd} /\ got' = [got EXCEPT !.fd = 0]
  /\ UNCHANGED <<lastDMAFD, eglVars, blitVars, overlay, planeVars, faults>>

(* &e.pixelBuf[0] panics on an empty buffer. *)
ReadCursor ==
  /\ at = "read"
  /\ IF pixelBuf["cursor"] = 0
     THEN at' = "panicked" /\ UNCHANGED <<blitVars, overlay, faults>>
     ELSE /\ at' = "blend"
          /\ \E complete \in BOOLEAN :
               /\ Ensure(current, CursorSize, complete)
               /\ \/ /\ complete /\ Readable(current, CursorSize)
                     /\ tex["cursor"] # 0 /\ overlay' = tex["cursor"]
                  \/ overlay' = 0
  /\ UNCHANGED <<current, fdVars, eglVars, planeVars>>

(* BlendCursor takes the size of the card: a row below the end of a frame  *)
(* that has become smaller panics, if the cursor is there.                 *)
Blend ==
  /\ at = "blend"
  /\ current' = "screen"
  /\ \/ at' = "idle"
     \/ overlay # 0 /\ tex["screen"] < CardSize /\ at' = "panicked"
  /\ got' = NoInfo /\ overlay' = 0
  /\ UNCHANGED <<fds, lastDMAFD, eglVars, blitVars, planeVars, faults>>

NextFrame ==
  \/ BeginFrame \/ GetFBInfo \/ GetFBInfoFails \/ ReadScreen
  \/ NoCursor \/ CursorInfo \/ ImportCursor \/ CursorCached \/ ReadCursor \/ Blend

(* Both contexts, and with them their objects, are destroyed. *)
KmsClose ==
  /\ at = "idle" /\ at' = "closed"
  /\ fds' = fds \ {lastDMAFD["screen"], lastDMAFD["cursor"]}
  /\ gl' = NoObjects
  /\ lastDMAFD' = [lastDMAFD EXCEPT !["screen"] = 0]
  /\ UNCHANGED <<current, got, eglVars, blit, blitSize, overlay, planeVars, faults>>

(* The statics outlive the contexts. *)
Reopen ==
  /\ at = "closed" /\ primary = CardSize
  /\ at' = "idle" /\ current' = "cursor"
  /\ fds' = {1} /\ lastDMAFD' = Kept(1) /\ got' = NoInfo
  /\ tex' = Kept(CardSize) /\ pixelBuf' = Kept(CardSize) /\ lastFBID' = 0
  /\ gl' = NoObjects
  /\ overlay' = 0
  /\ faults' = faults \cup {"reopen"}
  /\ UNCHANGED <<blit, blitSize, planeVars>>

-----------------------------------------------------------------------------
(* The compositor: page flips and modes, the cursor's framebuffer *)

SetPrimary(size) ==
  /\ size # primary /\ primary' = size
  /\ faults' = IF size = Smaller THEN faults \cup {"resize"} ELSE faults
  /\ UNCHANGED <<at, current, fdVars, eglVars, blitVars, overlay, shown, buffer, recycled>>

SetCursor(id) ==
  /\ id # shown /\ shown' = id
  /\ UNCHANGED <<at, current, fdVars, eglVars, blitVars, overlay, primary, buffer, recycled, faults>>

Recycle(id) ==
  /\ recycled < MaxRecycles
  /\ recycled' = recycled + 1
  /\ buffer' = [buffer EXCEPT ![id] = 3 + recycled]
  /\ UNCHANGED <<at, current, fdVars, eglVars, blitVars, overlay, primary, shown, faults>>

Compositor ==
  \/ \E size \in {0, Smaller, CardSize} : SetPrimary(size)
  \/ \E id \in FBID \cup {0} : SetCursor(id)
  \/ \E id \in FBID : Recycle(id)

KmsNext == NextFrame \/ KmsClose \/ Reopen \/ Compositor
KmsSpec == KmsInit /\ [][KmsNext]_kmsVars

-----------------------------------------------------------------------------
(* Properties *)

Info == [fd : 0..3, id : FBID \cup {0}, buf : Nat, size : {0, CursorSize, Smaller, CardSize}]

(* Every variable has its type, and no more than three descriptors are     *)
(* ever open: the two that are kept and the one being looked at.           *)
KmsTypeOK ==
  /\ at \in {"idle", "info", "import", "look", "cursor", "read", "blend",
             "panicked", "closed"}
  /\ current \in Ctx
  /\ fds \subseteq 1..3 /\ lastDMAFD \in [Ctx -> 0..3]
  /\ got \in Info
  /\ tex \in [Ctx -> Nat] /\ pixelBuf \in [Ctx -> {0, CursorSize, Smaller, CardSize}]
  /\ lastFBID \in FBID \cup {0} /\ overlay \in Nat
  /\ blit \in Name \cup {0} /\ blitSize \in {0, CursorSize, Smaller, CardSize}
  /\ gl \in [Ctx -> [Name -> {-1, 0, CursorSize, Smaller, CardSize}]]
  /\ primary \in {0, Smaller, CardSize} /\ shown \in FBID \cup {0}
  /\ buffer \in [FBID -> Nat] /\ recycled \in 0..MaxRecycles
  /\ faults \subseteq {"import", "incomplete", "resize", "reopen"}

Objects(c) == {n \in Name : gl[c][n] # 0}
UserOf(size) == IF size = CursorSize THEN "cursor" ELSE "screen"

(* Through imports that fail, cursors that come and go, and two contexts   *)
(* that overwrite each other's names in the statics, no descriptor and no  *)
(* blit object is left behind, and what the statics promise exists in the  *)
(* context that reads with it, unless an object was incomplete or the      *)
(* capturer was opened before (GetFBInfo, Capture, ensure_blit_fbo, Close).*)
NothingLeaks ==
  /\ fds = IF at = "closed" THEN {}
           ELSE {lastDMAFD["screen"], lastDMAFD["cursor"], got.fd} \ {0}
  /\ \A c \in Ctx : Cardinality(Objects(c)) <= 1
  /\ blitSize # 0 /\ at # "closed" =>
       \/ gl[UserOf(blitSize)][blit] = blitSize
       \/ faults \cap {"incomplete", "reopen"} # {}

(* The cursor blended into a frame is the one its plane showed for this    *)
(* frame, whatever failed before, unless the kernel gave the framebuffer   *)
(* id to another buffer since it was cached (CursorState.Capture).         *)
CursorOfPlane == at = "blend" /\ overlay # 0 => overlay = got.buf \/ recycled > 0

(* The capturer panics only after a cursor that could not be imported, for *)
(* which the next frame has no buffer, or after the screen became smaller  *)
(* than it was when the card was opened (ReadPixels, BlendCursor).         *)
PanicNeedsFault == at = "panicked" => faults \cap {"import", "resize"} # {}
=============================================================================
