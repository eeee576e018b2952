----------------------------- MODULE SceneProofs -----------------------------
(***************************************************************************)
(* Scene: for every set of messages, settings, images and clocks, and      *)
(* whatever the geometry hides, each draw call of a frame is fed what its  *)
(* shader reads, drawing, labels and picking judge by one view, and the    *)
(* Sun stands where the server's clock puts it.                            *)
(***************************************************************************)
EXTENDS Scene, TLAPS, SequenceTheorems, FiniteSetTheorems

-------------------------------------------------------------------------------
(* The sky.                                                                *)

LEMMA ClockInit == Init => ClockInv
<1> SUFFICES ASSUME Init PROVE ClockInv
  OBVIOUS
<1>1. now = 0 /\ epoch = [at |-> WallClock, base |-> None] /\ sky = RebuildSky(WallClock) /\ heard = None
  BY DEF Init
<1>2. WallClock \in Nat
  BY SceneAssumption
<1> QED  BY <1>1, <1>2 DEF ClockInv

\* A frame may anchor an epoch that no message has.
LEMMA ClockFrame ==
  ASSUME ClockInv, Frame
  PROVE  ClockInv' /\ epoch'.base # None /\ epoch'.at = epoch.at /\ epoch'.base = SceneBase
<1>1. /\ epoch' = [epoch EXCEPT !.base = SceneBase]
      /\ UNCHANGED <<sky, heard, now>>
  BY DEF Frame, boundVars
<1>2. DOMAIN epoch = {"at", "base"} /\ epoch.at \in Int /\ epoch.base \in Nat \cup {None} /\ now \in Nat
  BY DEF ClockInv
<1>3. SceneBase \in Nat /\ (epoch.base # None => SceneBase = epoch.base)
  BY <1>2 DEF SceneBase
<1>4. epoch'.at = epoch.at /\ epoch'.base = SceneBase /\ DOMAIN epoch' = {"at", "base"}
  BY <1>1, <1>2
<1>5. None \notin Int
  BY SceneAssumption
<1>6. heard # None =>
        /\ heard \in Nat /\ epoch'.base = heard
        /\ epoch.at \in ServerClock + heard - MaxDelay .. ServerClock + heard
  BY <1>3, <1>4, <1>5 DEF ClockInv
<1>7. sky = RebuildSky(epoch.at)
  BY DEF ClockInv
<1> QED  BY <1>1, <1>2, <1>3, <1>4, <1>5, <1>6, <1>7 DEF ClockInv

\* A message anchors the epoch at the time of its arrival.
LEMMA ClockState ==
  ASSUME ClockInv, NEW m \in Messages, OnState(m)
  PROVE  ClockInv'
<1>1. /\ epoch' = Epoch(m.delay) /\ sky' = RebuildSky(epoch'.at) /\ now' = now
      /\ heard' = IF m.delay = None THEN heard ELSE now
  BY DEF OnState
<1>2. CASE m.delay = None
  BY <1>1, <1>2 DEF Epoch, ClockInv
<1>3. CASE m.delay # None
  <2>1. m.delay \in 0 .. MaxDelay /\ ServerClock \in Nat /\ MaxDelay \in Nat /\ now \in Nat
    BY <1>3, SceneAssumption DEF ClockInv
  <2>2. epoch' = [at |-> ServerClock + now - m.delay, base |-> now] /\ heard' = now
    BY <1>1, <1>3 DEF Epoch
  <2>3. ServerClock + now - m.delay \in ServerClock + now - MaxDelay .. ServerClock + now
    BY <2>1
  <2> QED  BY <1>1, <2>1, <2>2, <2>3 DEF ClockInv
<1> QED  BY <1>2, <1>3

LEMMA ClockStep == ClockInv /\ [Next]_vars => ClockInv'
<1> SUFFICES ASSUME ClockInv, [Next]_vars PROVE ClockInv'
  OBVIOUS
<1>a. ASSUME UNCHANGED <<epoch, sky, heard, now>> PROVE ClockInv'
  BY <1>a DEF ClockInv
<1>1. CASE Tick
  <2>1. now' = now + 1 /\ UNCHANGED <<epoch, sky, heard>>
    BY <1>1 DEF Tick, skyVars
  <2> QED  BY <2>1 DEF ClockInv
<1>2. ASSUME NEW s, OnSettings(s) PROVE ClockInv'
  BY <1>2, <1>a DEF OnSettings, Act, skyVars
<1>3. CASE UserActs
  BY <1>3, <1>a DEF UserActs, Act, skyVars
<1>4. ASSUME NEW shape, Resize(shape) PROVE ClockInv'
  BY <1>4, <1>a DEF Resize, Act, skyVars
<1>5. ASSUME NEW k, OnLoad(k) \/ OnError(k) PROVE ClockInv'
  BY <1>5, <1>a DEF OnLoad, OnError, skyVars, boundVars
<1>6. CASE UNCHANGED vars
  BY <1>6, <1>a DEF vars, skyVars, boundVars
<1> QED  BY ClockFrame, ClockState, <1>1, <1>2, <1>3, <1>4, <1>5, <1>6 DEF Next

\* The sky is on the server's clock from the first message with a time on.
LEMMA SkyImplied == ClockInv /\ PictureInv => SkyOnServerTime
<1> SUFFICES ASSUME ClockInv, PictureInv, picture # None, heard # None
             PROVE  /\ picture.sun \in ServerClock + now - MaxDelay .. ServerClock + now
                    /\ \A b \in DOMAIN sky : picture.sun - sky[b] = now - heard
  BY DEF SkyOnServerTime
<1>1. /\ heard \in Nat /\ now \in Nat /\ epoch.at \in Int
      /\ epoch.at \in ServerClock + heard - MaxDelay .. ServerClock + heard
      /\ epoch.base = heard /\ sky = RebuildSky(epoch.at)
  BY DEF ClockInv
<1>2. picture.sun = epoch.at + now - heard
  BY <1>1 DEF PictureInv
<1>3. ServerClock \in Nat /\ MaxDelay \in Nat
  BY SceneAssumption
<1>4. \A b \in DOMAIN sky : sky[b] = epoch.at
  BY <1>1 DEF RebuildSky
<1> DEFINE at == epoch.at
           sun == picture.sun
<1> HIDE DEF at, sun
<1>5. sun = at + now - heard /\ at \in Int /\ at \in ServerClock + heard - MaxDelay .. ServerClock + heard
  BY <1>1, <1>2 DEF at, sun
<1>6. sun \in ServerClock + now - MaxDelay .. ServerClock + now /\ sun - at = now - heard
  BY <1>1, <1>3, <1>5
<1> QED  BY <1>4, <1>6 DEF at, sun

-------------------------------------------------------------------------------
(* The buffers.                                                            *)

StoreFields == {"objPos", "objCol", "objSize", "objIcon", "trail", "vel", "star", "planet"}

\* What each upload writes, and that it writes nothing else.
LEMMA Uploads ==
  ASSUME NEW s, DOMAIN s = StoreFields, NEW ids, NEW segs, NEW m
  PROVE  /\ LET u == UploadObjects(s, ids)
            IN  /\ DOMAIN u = StoreFields
                /\ u.objPos = ids /\ u.objCol = ids /\ u.objSize = ids /\ u.objIcon = ids
                /\ u.trail = s.trail /\ u.vel = s.vel /\ u.star = s.star /\ u.planet = s.planet
         /\ LET u == UploadTrails(s, segs)
            IN  /\ DOMAIN u = StoreFields
                /\ segs # {} => u.trail = segs
                /\ u.objPos = s.objPos /\ u.objCol = s.objCol /\ u.objSize = s.objSize
                /\ u.objIcon = s.objIcon /\ u.vel = s.vel /\ u.star = s.star /\ u.planet = s.planet
         /\ LET u == UploadVel(s, m)
            IN  /\ DOMAIN u = StoreFields
                /\ HasVel(m) => u.vel = {m.axis}
                /\ u.objPos = s.objPos /\ u.objCol = s.objCol /\ u.objSize = s.objSize
                /\ u.objIcon = s.objIcon /\ u.trail = s.trail /\ u.star = s.star /\ u.planet = s.planet
<1>1. LET u == UploadObjects(s, ids)
      IN  /\ DOMAIN u = StoreFields
          /\ u.objPos = ids /\ u.objCol = ids /\ u.objSize = ids /\ u.objIcon = ids
          /\ u.trail = s.trail /\ u.vel = s.vel /\ u.star = s.star /\ u.planet = s.planet
  BY DEF UploadObjects, StoreFields
<1>2. LET u == UploadTrails(s, segs)
      IN  /\ DOMAIN u = StoreFields
          /\ segs # {} => u.trail = segs
          /\ u.objPos = s.objPos /\ u.objCol = s.objCol /\ u.objSize = s.objSize
          /\ u.objIcon = s.objIcon /\ u.vel = s.vel /\ u.star = s.star /\ u.planet = s.planet
  BY DEF UploadTrails, StoreFields
<1>3. LET u == UploadVel(s, m)
      IN  /\ DOMAIN u = StoreFields
          /\ HasVel(m) => u.vel = {m.axis}
          /\ u.objPos = s.objPos /\ u.objCol = s.objCol /\ u.objSize = s.objSize
          /\ u.objIcon = s.objIcon /\ u.trail = s.trail /\ u.star = s.star /\ u.planet = s.planet
  BY DEF UploadVel, StoreFields
<1> QED  BY <1>1, <1>2, <1>3

\* There is nothing to draw before the first message.
LEMMA NothingYet ==
  ASSUME NEW st, NEW ref
  PROVE  Segments(<< >>, st, ref) = {} /\ Visible(None, st) = {}
<1>1. DOMAIN << >> = {}
  OBVIOUS
<1>2. Segments(<< >>, st, ref) = {}
  BY <1>1 DEF Segments
<1> QED  BY <1>2 DEF Visible

LEMMA FeedInit == Init => FeedInv
<1> SUFFICES ASSUME Init PROVE FeedInv
  OBVIOUS
<1>1. /\ snapshot = None /\ trails = << >> /\ trailBuffer = {} /\ renderObjects = {}
      /\ store = [objPos |-> {}, objCol |-> {}, objSize |-> {}, objIcon |-> {}, trail |-> {},
                  vel |-> {}, star |-> {"sky"}, planet |-> {"sky"}]
      /\ counts = [obj |-> 0, trail |-> 0, vel |-> 0]
  BY DEF Init, RendererInit
<1>2. canvas.proj = canvas.shape
  BY DEF Init
<1>3. BuffersCurrent
  BY <1>1, NothingYet DEF BuffersCurrent
<1>4. Cardinality({}) = 0 /\ 2 * 0 = 0
  BY FS_EmptySet
<1> QED  BY <1>1, <1>2, <1>3, <1>4 DEF FeedInv

\* A message uploads what it changes.
LEMMA FeedState ==
  ASSUME FeedInv, NEW m \in Messages, OnState(m)
  PROVE  FeedInv'
<1> DEFINE s1 == UploadObjects(store, renderObjects')
           s2 == UploadTrails(s1, trailBuffer')
           s3 == UploadVel(s2, m)
<1>1. /\ snapshot' = m /\ store' = s3 /\ UNCHANGED <<applied, canvas>>
      /\ lastSnapNow' = now /\ renderObjects' = Visible(m, applied)
      /\ trailBuffer' = Segments(trails', applied, now)
      /\ counts' = [obj |-> Cardinality(renderObjects'), trail |-> 2 * Cardinality(trailBuffer'),
                    vel |-> IF HasVel(m) THEN 2 ELSE 0]
  BY DEF OnState, SetSnapshot
<1>2. m # None
  BY SceneAssumption
<1>3. DOMAIN store = StoreFields /\ store.star = {"sky"} /\ store.planet = {"sky"}
  BY DEF FeedInv, StoreFields
<1> HIDE DEF s1, s2, s3
<1>4. /\ DOMAIN s1 = StoreFields /\ s1.objPos = renderObjects' /\ s1.objCol = renderObjects'
      /\ s1.objSize = renderObjects' /\ s1.objIcon = renderObjects'
      /\ s1.star = {"sky"} /\ s1.planet = {"sky"}
  BY <1>3, Uploads DEF s1
<1>5. /\ DOMAIN s2 = StoreFields /\ s2.objPos = renderObjects' /\ s2.objCol = renderObjects'
      /\ s2.objSize = renderObjects' /\ s2.objIcon = renderObjects'
      /\ s2.star = {"sky"} /\ s2.planet = {"sky"}
      /\ trailBuffer' # {} => s2.trail = trailBuffer'
  BY <1>4, Uploads DEF s2
<1>6. /\ DOMAIN s3 = StoreFields /\ s3.objPos = renderObjects' /\ s3.objCol = renderObjects'
      /\ s3.objSize = renderObjects' /\ s3.objIcon = renderObjects'
      /\ s3.star = {"sky"} /\ s3.planet = {"sky"}
      /\ trailBuffer' # {} => s3.trail = trailBuffer'
      /\ HasVel(m) => s3.vel = {m.axis}
  BY <1>5, Uploads DEF s3
<1>7. BuffersCurrent'
  BY <1>1 DEF BuffersCurrent
<1>8. canvas'.proj = canvas'.shape
  BY <1>1 DEF FeedInv
<1>9. counts' = [obj |-> Cardinality(renderObjects'), trail |-> 2 * Cardinality(trailBuffer'),
                 vel |-> IF snapshot' # None /\ HasVel(snapshot') THEN 2 ELSE 0]
  BY <1>1, <1>2
<1> QED  BY <1>1, <1>2, <1>6, <1>7, <1>8, <1>9 DEF FeedInv, StoreFields

\* So do new settings.
LEMMA FeedSettings ==
  ASSUME FeedInv, NEW st, OnSettings(st)
  PROVE  FeedInv'
<1> DEFINE s1 == UploadObjects(store, renderObjects')
           s2 == UploadTrails(s1, trailBuffer')
           new == NormalizeSettings(st)
<1>1. /\ applied' = new /\ store' = s2 /\ UNCHANGED <<snapshot, lastSnapNow, trails, canvas>>
      /\ renderObjects' = Visible(snapshot, new)
      /\ trailBuffer' = Segments(trails, new, lastSnapNow)
      /\ counts' = [counts EXCEPT !.obj = Cardinality(renderObjects'),
                                  !.trail = 2 * Cardinality(trailBuffer')]
  BY DEF OnSettings, SetSettings
<1>2. DOMAIN store = StoreFields /\ store.star = {"sky"} /\ store.planet = {"sky"}
  BY DEF FeedInv, StoreFields
<1> HIDE DEF s1, s2, new
<1>3. /\ DOMAIN s1 = StoreFields /\ s1.objPos = renderObjects' /\ s1.objCol = renderObjects'
      /\ s1.objSize = renderObjects' /\ s1.objIcon = renderObjects'
      /\ s1.star = {"sky"} /\ s1.planet = {"sky"} /\ s1.vel = store.vel
  BY <1>2, Uploads DEF s1
<1>4. /\ DOMAIN s2 = StoreFields /\ s2.objPos = renderObjects' /\ s2.objCol = renderObjects'
      /\ s2.objSize = renderObjects' /\ s2.objIcon = renderObjects'
      /\ s2.star = {"sky"} /\ s2.planet = {"sky"} /\ s2.vel = store.vel
      /\ trailBuffer' # {} => s2.trail = trailBuffer'
  BY <1>3, Uploads DEF s2
<1>5. BuffersCurrent'
  BY <1>1 DEF BuffersCurrent
<1>6. canvas'.proj = canvas'.shape
  BY <1>1 DEF FeedInv
<1>7. counts' = [obj |-> Cardinality(renderObjects'), trail |-> 2 * Cardinality(trailBuffer'),
                 vel |-> IF snapshot' # None /\ HasVel(snapshot') THEN 2 ELSE 0]
  BY <1>1 DEF FeedInv
<1>8. snapshot # None /\ HasVel(snapshot) => store.vel = {snapshot.axis}
  BY DEF FeedInv
<1>9. snapshot' = None \/ snapshot' \in Messages
  BY <1>1 DEF FeedInv
<1>10. \A b \in {"objPos", "objCol", "objSize", "objIcon"} : store'[b] = renderObjects'
  BY <1>1, <1>4
<1> QED  BY <1>1, <1>4, <1>5, <1>6, <1>7, <1>8, <1>9, <1>10 DEF FeedInv, StoreFields

LEMMA FeedStep == FeedInv /\ [Next]_vars => FeedInv'
<1> SUFFICES ASSUME FeedInv, [Next]_vars PROVE FeedInv'
  OBVIOUS
<1>a. ASSUME UNCHANGED <<snapshot, lastSnapNow, applied, trails, trailBuffer, renderObjects, store,
                         counts, canvas>>
      PROVE  FeedInv'
  BY <1>a DEF FeedInv, BuffersCurrent
<1>1. CASE Frame
  BY <1>1, <1>a DEF Frame, rendererVars, bufferVars
<1>2. CASE Tick
  BY <1>2, <1>a DEF Tick, rendererVars, bufferVars
<1>3. CASE UserActs
  BY <1>3, <1>a DEF UserActs, PointerUp, SetSelected, rendererVars, bufferVars
<1>4. ASSUME NEW shape, Resize(shape) PROVE FeedInv'
  <2>1. /\ canvas' = [shape |-> shape, proj |-> shape]
        /\ UNCHANGED <<snapshot, lastSnapNow, applied, trails, trailBuffer, renderObjects, store, counts>>
    BY <1>4 DEF Resize, rendererVars, bufferVars
  <2>2. BuffersCurrent'
    BY <2>1 DEF FeedInv, BuffersCurrent
  <2> QED  BY <2>1, <2>2 DEF FeedInv
<1>5. ASSUME NEW k, OnLoad(k) \/ OnError(k) PROVE FeedInv'
  BY <1>5, <1>a DEF OnLoad, OnError, rendererVars, bufferVars
<1>6. CASE UNCHANGED vars
  BY <1>6, <1>a DEF vars, rendererVars, bufferVars
<1> QED  BY FeedState, FeedSettings, <1>1, <1>2, <1>3, <1>4, <1>5, <1>6 DEF Next

-------------------------------------------------------------------------------
(* The context.                                                            *)

GlFields == {"unit", "texture", "blend", "depthMask", "view"}
Images == {k \in {"day", "night"} : earthTex[k] # None}

\* After the bindings of a frame each sampler reads its image or the atlas.
LEMMA Bindings ==
  ASSUME NEW g, DOMAIN g = GlFields, DOMAIN g.texture = 0 .. 2
  PROVE  LET b == BindTextures(g)
         IN  /\ DOMAIN b = GlFields /\ b.unit \in 0 .. 2 /\ DOMAIN b.texture = 0 .. 2
             /\ b.view = g.view
             /\ \A p \in Programs : \A s \in DOMAIN Sampled(b, p) :
                  Sampled(b, p)[s] = IF s \in Images THEN s ELSE "atlas"
<1> DEFINE image(k) == IF earthTex[k] # None THEN k ELSE "atlas"
           b1 == BindTexture(g, 0, image("day"))
           b2 == BindTexture(b1, 1, image("night"))
           b3 == BindTexture(b2, 2, "atlas")
           b  == [b3 EXCEPT !.unit = 0]
<1>1. /\ DOMAIN b1 = GlFields /\ DOMAIN b1.texture = 0 .. 2 /\ b1.view = g.view
      /\ b1.texture[0] = image("day")
  BY DEF BindTexture, GlFields
<1> HIDE DEF b1
<1>2. /\ DOMAIN b2 = GlFields /\ DOMAIN b2.texture = 0 .. 2 /\ b2.view = g.view
      /\ b2.texture[0] = image("day") /\ b2.texture[1] = image("night")
  BY <1>1 DEF BindTexture, GlFields
<1> HIDE DEF b2
<1>3. /\ DOMAIN b3 = GlFields /\ DOMAIN b3.texture = 0 .. 2 /\ b3.view = g.view
      /\ b3.texture[0] = image("day") /\ b3.texture[1] = image("night")
      /\ b3.texture[2] = "atlas"
  BY <1>2 DEF BindTexture, GlFields
<1> HIDE DEF b3
<1>4. /\ DOMAIN b = GlFields /\ DOMAIN b.texture = 0 .. 2 /\ b.view = g.view /\ b.unit = 0
      /\ b.texture[0] = image("day") /\ b.texture[1] = image("night")
      /\ b.texture[2] = "atlas"
  BY <1>3 DEF GlFields
<1>5. BindTextures(g) = b
  BY DEF BindTextures, b3, b2, b1
<1> HIDE DEF b
<1>6. ASSUME NEW p \in Programs, NEW s \in DOMAIN Sampled(b, p)
      PROVE  Sampled(b, p)[s] = IF s \in Images THEN s ELSE "atlas"
  <2>1. s \in {"day", "night", "atlas"} /\ Sampled(b, p)[s] = b.texture[Unit[s]]
    BY <1>6 DEF Sampled, Samplers, Programs, Attributes
  <2>2. CASE s = "day"
    BY <2>1, <2>2, <1>4 DEF Unit, Images
  <2>3. CASE s = "night"
    BY <2>1, <2>3, <1>4 DEF Unit, Images
  <2>4. CASE s = "atlas"
    BY <2>1, <2>4, <1>4 DEF Unit, Images
  <2> QED  BY <2>1, <2>2, <2>3, <2>4
<1> QED  BY <1>4, <1>5, <1>6

\* A program that is given the view draws with it.
LEMMA ViewReaches ==
  ASSUME NEW u, DOMAIN u = {"fisheye", "sat", "mvp"}, NEW view, view.fisheye \in BOOLEAN
  PROVE  /\ ShaderView(TransformUniforms(u, view)) = view
         /\ DOMAIN TransformUniforms(u, view) = {"fisheye", "sat", "mvp"}
BY DEF ShaderView, TransformUniforms

\* The largest power of two that fits.
LEMMA LargestPower ==
  ASSUME NEW n \in Nat, n >= 1
  PROVE  LargestPotLE(n) \in Powers /\ LargestPotLE(n) <= n /\ (n >= 2 => LargestPotLE(n) >= 2)
<1> DEFINE S == {p \in Powers : p <= n}
           w == IF n >= 4096 THEN 4096 ELSE IF n >= 2048 THEN 2048 ELSE IF n >= 1024 THEN 1024
                ELSE IF n >= 512 THEN 512 ELSE IF n >= 256 THEN 256 ELSE IF n >= 128 THEN 128
                ELSE IF n >= 64 THEN 64 ELSE IF n >= 32 THEN 32 ELSE IF n >= 16 THEN 16
                ELSE IF n >= 8 THEN 8 ELSE IF n >= 4 THEN 4 ELSE IF n >= 2 THEN 2 ELSE 1
<1>1. w \in S /\ \A y \in S : w >= y
  BY DEF Powers
<1> HIDE DEF w
<1>2. LargestPotLE(n) \in S /\ \A y \in S : LargestPotLE(n) >= y
  <2>1. LargestPotLE(n) = CHOOSE x \in S : \A y \in S : x >= y
    BY DEF LargestPotLE, Max
  <2> HIDE DEF S
  <2>2. \E x \in S : \A y \in S : x >= y
    BY <1>1
  <2> QED  BY <2>1, <2>2, Zenon
<1>3. n >= 2 => 2 \in S
  BY DEF Powers
<1> QED  BY <1>2, <1>3

LEMMA MaxSizeRange == MaxSize \in Nat /\ MaxSize >= 2
BY SceneAssumption DEF MaxSize, AtMost, PositiveInt

\* What a canvas of this size becomes fits the context, and a 2:1 image stays 2:1.
LEMMA SizeFits ==
  ASSUME NEW s \in ImageSizes
  PROVE  FitsEarth(PotSizeFor(s[1], s[2]))
<1> DEFINE cw == AtMost(PositiveInt(s[1], 1), MaxSize)
           ch == AtMost(PositiveInt(s[2], 1), MaxSize)
           size == PotSizeFor(s[1], s[2])
<1>1. s[1] \in Nat /\ s[2] \in Nat
  BY SceneAssumption
<1>2. /\ cw \in Nat /\ cw >= 1 /\ cw <= MaxSize /\ (s[1] >= 2 => cw >= 2)
      /\ ch \in Nat /\ ch >= 1 /\ ch <= MaxSize
  BY <1>1, MaxSizeRange DEF AtMost, PositiveInt
<1> DEFINE pw == LargestPotLE(cw)
           ph == LargestPotLE(ch)
<1>3. size = IF s[2] > 0 /\ s[1] = 2 * s[2] THEN <<pw, PositiveInt(pw \div 2, 1)>> ELSE <<pw, ph>>
  BY DEF PotSizeFor
<1> HIDE DEF cw, ch, size
<1>4. /\ pw \in Powers /\ pw <= MaxSize /\ (s[1] >= 2 => pw >= 2)
      /\ ph \in Powers /\ ph <= MaxSize
  <2>1. pw \in Powers /\ pw <= cw /\ (cw >= 2 => pw >= 2)
    BY <1>2, LargestPower
  <2>2. ph \in Powers /\ ph <= ch
    BY <1>2, LargestPower
  <2>3. Powers \subseteq Nat
    BY DEF Powers
  <2> HIDE DEF pw, ph
  <2> QED  BY <1>2, <2>1, <2>2, <2>3, MaxSizeRange
<1> HIDE DEF pw, ph
<1>5. ASSUME s[2] > 0 /\ s[1] = 2 * s[2] PROVE FitsEarth(size)
  <2>1. pw \div 2 \in Powers /\ pw \div 2 >= 1 /\ pw = 2 * (pw \div 2) /\ pw \div 2 <= MaxSize
    BY <1>1, <1>4, <1>5, MaxSizeRange DEF Powers
  <2>2. size[1] = pw /\ size[2] = pw \div 2
    BY <1>3, <1>5, <2>1 DEF PositiveInt
  <2> QED  BY <1>4, <2>1, <2>2 DEF FitsEarth
<1>6. ASSUME ~(s[2] > 0 /\ s[1] = 2 * s[2]) PROVE FitsEarth(size)
  <2>1. size[1] = pw /\ size[2] = ph
    BY <1>3, <1>6
  <2> QED  BY <1>4, <1>6, <2>1 DEF FitsEarth
<1> QED  BY <1>5, <1>6 DEF size

-------------------------------------------------------------------------------
(* The calls of a frame.                                                   *)

Want(when, call) == IF when /\ call.count > 0 THEN {call} ELSE {}

GratCall == DrawLines("grat", "grat", GratVertCount)
StarsCall == DrawPointset("stars", <<"star", "star", "star", "star">>, 1)
MoonCall == DrawMarker("moon")
PlanetsCall == DrawPointset("planets", <<"planet", "planet", "planet", "planet">>, 1)
SunCall == DrawMarker("sun")
TrailsCall == DrawLines("trails", "trail", counts.trail)
ObjectsCall == DrawPointset("objects", ObjectBuffers, counts.obj)
VelCall == DrawLines("vel", "vel", counts.vel)
SatCall == DrawMarker("sat")

\* What is drawn after the Earth.
Later(view) ==
  {} \cup Want(TRUE, GratCall) \cup Want(applied.showSky, StarsCall)
     \cup Want(applied.showSky, MoonCall) \cup Want(applied.showSky, PlanetsCall)
     \cup Want(TRUE, SunCall) \cup Want(applied.showTrails, TrailsCall)
     \cup Want(TRUE, ObjectsCall) \cup Want(ShowsOwn(view), VelCall)
     \cup Want(ShowsOwn(view) /\ SatRender # None, SatCall)

\* The Earth comes first, then each member of a set and nothing else.
Leads(s, D) ==
  /\ s \in Seq({DrawEarth} \cup D) /\ Len(s) >= 1 /\ s[1] = DrawEarth
  /\ \A i \in 2 .. Len(s) : s[i] \in D
  /\ \A d \in D : \E i \in 2 .. Len(s) : s[i] = d

LEMMA OneMore ==
  ASSUME NEW s, NEW D, Leads(s, D), NEW when, NEW call
  PROVE  Leads(s \o Draw(when, call), D \cup Want(when, call))
<1>1. CASE when /\ call.count > 0
  <2> DEFINE D2 == D \cup {call}
             s2 == s \o <<call>>
             n == Len(s)
  <2>1. s \in Seq({DrawEarth} \cup D2) /\ <<call>> \in Seq({DrawEarth} \cup D2) /\ n \in Nat /\ n >= 1
    BY DEF Leads
  <2>2. /\ s2 \in Seq({DrawEarth} \cup D2) /\ Len(s2) = n + 1
        /\ \A i \in 1 .. n : s2[i] = s[i]
        /\ s2[n + 1] = call
    BY <2>1
  <2> HIDE DEF s2
  <2>3. ASSUME NEW i \in 2 .. Len(s2) PROVE s2[i] \in D2
    <3>1. CASE i = n + 1
      BY <2>2, <3>1
    <3>2. CASE i # n + 1
      <4>1. i \in 2 .. n
        BY <2>1, <2>2, <3>2
      <4> QED  BY <4>1, <2>1, <2>2 DEF Leads
    <3> QED  BY <3>1, <3>2
  <2>4. ASSUME NEW d \in D2 PROVE \E i \in 2 .. Len(s2) : s2[i] = d
    <3>1. CASE d = call
      BY <2>1, <2>2, <3>1
    <3>2. CASE d \in D
      <4>1. PICK i \in 2 .. n : s[i] = d
        BY <3>2 DEF Leads
      <4> QED  BY <4>1, <2>1, <2>2
    <3> QED  BY <3>1, <3>2
  <2>5. s2[1] = DrawEarth /\ Len(s2) >= 1
    BY <2>1, <2>2 DEF Leads
  <2>6. Leads(s2, D2)
    BY <2>2, <2>3, <2>4, <2>5 DEF Leads
  <2>7. Draw(when, call) = <<call>> /\ Want(when, call) = {call}
    BY <1>1 DEF Draw, Want
  <2> QED  BY <2>6, <2>7 DEF s2
<1>2. CASE ~(when /\ call.count > 0)
  <2>1. Draw(when, call) = << >> /\ Want(when, call) = {}
    BY <1>2 DEF Draw, Want
  <2>2. s \in Seq({DrawEarth} \cup D)
    BY DEF Leads
  <2>3. s \o << >> = s
    BY <2>2
  <2> QED  BY <2>1, <2>3
<1> QED  BY <1>1, <1>2

\* frame() draws the Earth and then exactly what is to be drawn.
LEMMA CallsLead == ASSUME NEW view PROVE Leads(Calls(view), Later(view))
<1>1. Leads(<<DrawEarth>>, {})
  BY DEF Leads
<1> DEFINE s0 == <<DrawEarth>>
           s1 == s0 \o Draw(TRUE, GratCall)
           s2 == s1 \o Draw(applied.showSky, StarsCall)
           s3 == s2 \o Draw(applied.showSky, MoonCall)
           s4 == s3 \o Draw(applied.showSky, PlanetsCall)
           s5 == s4 \o Draw(TRUE, SunCall)
           s6 == s5 \o Draw(applied.showTrails, TrailsCall)
           s7 == s6 \o Draw(TRUE, ObjectsCall)
           s8 == s7 \o Draw(ShowsOwn(view), VelCall)
           s9 == s8 \o Draw(ShowsOwn(view) /\ SatRender # None, SatCall)
           d1 == {} \cup Want(TRUE, GratCall)
           d2 == d1 \cup Want(applied.showSky, StarsCall)
           d3 == d2 \cup Want(applied.showSky, MoonCall)
           d4 == d3 \cup Want(applied.showSky, PlanetsCall)
           d5 == d4 \cup Want(TRUE, SunCall)
           d6 == d5 \cup Want(applied.showTrails, TrailsCall)
           d7 == d6 \cup Want(TRUE, ObjectsCall)
           d8 == d7 \cup Want(ShowsOwn(view), VelCall)
           d9 == d8 \cup Want(ShowsOwn(view) /\ SatRender # None, SatCall)
<1>c. Calls(view) = s9
  BY DEF Calls, GratCall, StarsCall, MoonCall, PlanetsCall, SunCall, TrailsCall, ObjectsCall, VelCall, SatCall
<1>d. Later(view) = d9
  BY DEF Later
<1> HIDE DEF s9, d9
<1>e. Leads(s1, d1)
  BY <1>1, OneMore
<1> HIDE DEF s0, s1, d1
<1>f. Leads(s2, d2)
  BY <1>e, OneMore
<1> HIDE DEF s2, d2
<1>g. Leads(s3, d3)
  BY <1>f, OneMore
<1> HIDE DEF s3, d3
<1>h. Leads(s4, d4)
  BY <1>g, OneMore
<1> HIDE DEF s4, d4
<1>i. Leads(s5, d5)
  BY <1>h, OneMore
<1> HIDE DEF s5, d5
<1>j. Leads(s6, d6)
  BY <1>i, OneMore
<1> HIDE DEF s6, d6
<1>k. Leads(s7, d7)
  BY <1>j, OneMore
<1> HIDE DEF s7, d7
<1>l. Leads(s8, d8)
  BY <1>k, OneMore
<1> HIDE DEF s8, d8
<1>m. Leads(s9, d9)
  BY <1>l, OneMore DEF s9, d9
<1> QED  BY <1>c, <1>d, <1>m

\* What a call after the Earth can be, and when.
LEMMA LaterCalls ==
  ASSUME NEW view, NEW d \in Later(view)
  PROVE  /\ d.program \in Programs \ {"earth"} /\ d.count > 0
         /\ \/ d \in {GratCall, SunCall, ObjectsCall}
            \/ d \in {StarsCall, MoonCall, PlanetsCall} /\ applied.showSky
            \/ d = TrailsCall /\ applied.showTrails
            \/ d = VelCall /\ ShowsOwn(view)
            \/ d = SatCall /\ ShowsOwn(view) /\ SatRender # None
<1>1. /\ d.count > 0
      /\ \/ d \in {GratCall, SunCall, ObjectsCall}
         \/ d \in {StarsCall, MoonCall, PlanetsCall} /\ applied.showSky
         \/ d = TrailsCall /\ applied.showTrails
         \/ d = VelCall /\ ShowsOwn(view)
         \/ d = SatCall /\ ShowsOwn(view) /\ SatRender # None
  BY DEF Later, Want
<1>2. \A c \in {GratCall, SunCall, ObjectsCall, StarsCall, MoonCall, PlanetsCall, TrailsCall, VelCall,
                SatCall} : c.program \in Programs \ {"earth"}
  BY DEF GratCall, SunCall, ObjectsCall, StarsCall, MoonCall, PlanetsCall, TrailsCall, VelCall,
         SatCall, DrawLines, DrawPointset, DrawMarker, Call, Programs, Attributes
<1> QED  BY <1>1, <1>2

\* The first call draws the Earth, no other does.
LEMMA Order ==
  ASSUME NEW view
  PROVE  LET calls == Calls(view)
         IN  /\ DOMAIN calls = 1 .. Len(calls) /\ Len(calls) \in Nat /\ Len(calls) >= 1
             /\ calls[1] = DrawEarth
             /\ \A i \in DOMAIN calls :
                  /\ calls[i].program \in Programs
                  /\ (calls[i].program = "earth") = (i = 1)
                  /\ i # 1 => calls[i] \in Later(view)
<1> DEFINE calls == Calls(view)
<1>1. Leads(calls, Later(view))
  BY CallsLead
<1> HIDE DEF calls
<1>2. DOMAIN calls = 1 .. Len(calls) /\ Len(calls) \in Nat /\ Len(calls) >= 1 /\ calls[1] = DrawEarth
  BY <1>1 DEF Leads
<1>3. DrawEarth.program = "earth" /\ "earth" \in Programs
  BY DEF DrawEarth, Call, Programs, Attributes
<1>4. ASSUME NEW i \in DOMAIN calls, i # 1
      PROVE  calls[i] \in Later(view) /\ calls[i].program \in Programs \ {"earth"}
  <2>1. i \in 2 .. Len(calls)
    BY <1>2, <1>4
  <2>2. calls[i] \in Later(view)
    BY <1>1, <2>1 DEF Leads
  <2> QED  BY <2>2, LaterCalls
<1>5. \A i \in DOMAIN calls :
        /\ calls[i].program \in Programs
        /\ (calls[i].program = "earth") = (i = 1)
        /\ i # 1 => calls[i] \in Later(view)
  BY <1>2, <1>3, <1>4
<1> QED  BY <1>2, <1>5 DEF calls

-------------------------------------------------------------------------------
(* A frame.                                                                *)

LEMMA ContextInit == Init => ContextInv
<1> SUFFICES ASSUME Init PROVE ContextInv
  OBVIOUS
<1>1. gl = Setup /\ earthTex = [k \in {"day", "night"} |-> None]
  BY DEF Init
<1> QED  BY <1>1 DEF ContextInv, Setup

\* Each call of a frame is issued with the frame's view and its images, and what
\* it leaves in the context is in order.
LEMMA FrameIssues ==
  ASSUME ContextInv, Frame
  PROVE  /\ ContextInv'
         /\ picture'.view = ActiveView /\ picture'.overlay = DrawOverlay(ActiveView)
         /\ picture'.has = Images /\ picture'.sun = SceneNow
         /\ picture'.clear.depthCleared
         /\ DOMAIN picture'.issued = DOMAIN Calls(ActiveView)
         /\ \A i \in DOMAIN picture'.issued :
              LET d == picture'.issued[i]
              IN  /\ d.call = Calls(ActiveView)[i] /\ d.view = ActiveView
                  /\ \A s \in DOMAIN d.sampled :
                       d.sampled[s] = IF s \in Images THEN s ELSE "atlas"
                  /\ d.blend = (d.call.program # "earth")
                  /\ d.depthMask = (d.call.program = "earth")
<1> DEFINE view  == ActiveView
           start == [gl EXCEPT !.depthMask = TRUE]
           bound == BindTextures(start)
           calls == Calls(view)
           unis  == Uniforms(bound, calls, view)
<1>1. /\ gl' = Drawn(bound, unis, calls) /\ earthTex' = earthTex
      /\ picture' = [view |-> view, clear |-> Clear(start),
                     issued |-> [i \in DOMAIN calls |-> Issued(bound, unis, calls[i])],
                     overlay |-> DrawOverlay(view), sun |-> SceneNow, has |-> Images]
  BY DEF Frame, Images, textureVars
<1>2. view.fisheye \in BOOLEAN
  BY DEF ActiveView
<1>3. /\ DOMAIN start = GlFields /\ DOMAIN start.texture = 0 .. 2 /\ start.view = gl.view
      /\ start.depthMask = TRUE
  BY DEF ContextInv, GlFields
<1> HIDE DEF start
<1>4. /\ DOMAIN bound = GlFields /\ bound.unit \in 0 .. 2 /\ DOMAIN bound.texture = 0 .. 2
      /\ bound.view = gl.view
      /\ \A p \in Programs : \A s \in DOMAIN Sampled(bound, p) :
           Sampled(bound, p)[s] = IF s \in Images THEN s ELSE "atlas"
  BY <1>3, Bindings
<1> HIDE DEF bound, view
<1>5. \A p \in Programs : DOMAIN bound.view[p] = {"fisheye", "sat", "mvp"}
  BY <1>4 DEF ContextInv
<1>6. /\ \A i \in DOMAIN calls : calls[i].program \in Programs
      /\ DOMAIN calls = 1 .. Len(calls) /\ Len(calls) >= 1 /\ Len(calls) \in Nat
  BY Order
<1> HIDE DEF calls
<1>7. DOMAIN unis = Programs
  BY DEF Uniforms
<1>8. ASSUME NEW p \in Programs
      PROVE  /\ DOMAIN unis[p] = {"fisheye", "sat", "mvp"}
             /\ (\E i \in DOMAIN calls : calls[i].program = p) => ShaderView(unis[p]) = view
  <2>1. /\ DOMAIN TransformUniforms(bound.view[p], view) = {"fisheye", "sat", "mvp"}
        /\ ShaderView(TransformUniforms(bound.view[p], view)) = view
    BY <1>2, <1>5, ViewReaches DEF view
  <2>2. unis[p] = IF \E i \in DOMAIN calls : calls[i].program = p
                  THEN TransformUniforms(bound.view[p], view) ELSE bound.view[p]
    BY DEF Uniforms
  <2> QED  BY <2>1, <2>2, <1>5
<1> HIDE DEF unis
<1>9. ContextInv'
  <2>1. /\ DOMAIN gl' = GlFields /\ gl'.unit \in 0 .. 2 /\ DOMAIN gl'.texture = 0 .. 2
        /\ gl'.view = unis
    BY <1>1, <1>4 DEF Drawn, GlFields
  <2>2. \A p \in Programs : DOMAIN gl'.view[p] = {"fisheye", "sat", "mvp"}
    BY <2>1, <1>8
  <2>3. /\ DOMAIN earthTex' = {"day", "night"}
        /\ \A k \in {"day", "night"} : earthTex'[k] # None => FitsEarth(earthTex'[k])
    BY <1>1 DEF ContextInv
  <2> QED  BY <1>7, <2>1, <2>2, <2>3 DEF ContextInv, GlFields
<1>10. ASSUME NEW i \in DOMAIN calls
       PROVE  LET d == Issued(bound, unis, calls[i])
              IN  /\ d.call = calls[i] /\ d.view = view
                  /\ \A s \in DOMAIN d.sampled :
                       d.sampled[s] = IF s \in Images THEN s ELSE "atlas"
                  /\ d.blend = (d.call.program # "earth")
                  /\ d.depthMask = (d.call.program = "earth")
  <2> DEFINE c == calls[i]
  <2>1. c.program \in Programs
    BY <1>6
  <2>2. ShaderView(unis[c.program]) = view
    BY <2>1, <1>8
  <2> QED  BY <2>1, <2>2, <1>4 DEF Issued
<1>11. Clear(start).depthCleared
  BY <1>3 DEF Clear
<1> DEFINE pic == [view |-> view, clear |-> Clear(start),
                   issued |-> [i \in DOMAIN calls |-> Issued(bound, unis, calls[i])],
                   overlay |-> DrawOverlay(view), sun |-> SceneNow, has |-> Images]
<1>12. /\ pic.view = view /\ pic.overlay = DrawOverlay(view)
       /\ pic.has = Images /\ pic.sun = SceneNow
       /\ pic.clear.depthCleared
       /\ DOMAIN pic.issued = DOMAIN calls
       /\ \A i \in DOMAIN calls : pic.issued[i] = Issued(bound, unis, calls[i])
  BY <1>11
<1>13. picture' = pic
  BY <1>1
<1> HIDE DEF pic
<1> QED  BY <1>9, <1>10, <1>12, <1>13 DEF view, calls

LEMMA ContextStep == ContextInv /\ [Next]_vars => ContextInv'
<1> SUFFICES ASSUME ContextInv, [Next]_vars PROVE ContextInv'
  OBVIOUS
<1>a. ASSUME UNCHANGED <<gl, earthTex>> PROVE ContextInv'
  BY <1>a DEF ContextInv
<1>1. CASE Frame
  BY <1>1, FrameIssues
<1>2. CASE Tick
  BY <1>2, <1>a DEF Tick, textureVars
<1>3. ASSUME NEW m \in Messages, OnState(m) PROVE ContextInv'
  BY <1>3, <1>a DEF OnState, textureVars
<1>4. ASSUME NEW s \in Settings, OnSettings(s) PROVE ContextInv'
  BY <1>4, <1>a DEF OnSettings, Act, textureVars
<1>5. CASE UserActs
  BY <1>5, <1>a DEF UserActs, Act, textureVars
<1>6. ASSUME NEW shape \in Sizes, Resize(shape) PROVE ContextInv'
  BY <1>6, <1>a DEF Resize, Act, textureVars
<1>7. ASSUME NEW k \in {"day", "night"}, OnLoad(k) PROVE ContextInv'
  <2>1. PICK reached \in {"canvas", "upload", "end"} :
          /\ gl' = UploadTexture(gl, k, reached)
          /\ IF reached # "end" THEN UNCHANGED earthTex
             ELSE \E s \in ImageSizes : earthTex' = [earthTex EXCEPT ![k] = PotSizeFor(s[1], s[2])]
    BY <1>7 DEF OnLoad
  <2>2. /\ DOMAIN gl = GlFields /\ gl.unit \in 0 .. 2 /\ DOMAIN gl.texture = 0 .. 2
        /\ DOMAIN gl.view = Programs
        /\ \A p \in Programs : DOMAIN gl.view[p] = {"fisheye", "sat", "mvp"}
    BY DEF ContextInv, GlFields
  <2>3. /\ DOMAIN gl' = GlFields /\ gl'.unit \in 0 .. 2 /\ DOMAIN gl'.texture = 0 .. 2
        /\ gl'.view = gl.view
    BY <2>1, <2>2 DEF UploadTexture, GlFields
  <2>4. /\ DOMAIN earthTex' = {"day", "night"}
        /\ \A j \in {"day", "night"} : earthTex'[j] # None => FitsEarth(earthTex'[j])
    <3>1. CASE reached # "end"
      BY <2>1, <3>1 DEF ContextInv
    <3>2. CASE reached = "end"
      <4>1. PICK s \in ImageSizes : earthTex' = [earthTex EXCEPT ![k] = PotSizeFor(s[1], s[2])]
        BY <2>1, <3>2
      <4>2. FitsEarth(PotSizeFor(s[1], s[2]))
        BY SizeFits
      <4> DEFINE size == PotSizeFor(s[1], s[2])
      <4> HIDE DEF size
      <4>3. FitsEarth(size) /\ earthTex' = [earthTex EXCEPT ![k] = size]
        BY <4>1, <4>2 DEF size
      <4>4. DOMAIN earthTex = {"day", "night"}
        BY DEF ContextInv
      <4>5. earthTex'[k] = size /\ \A j \in {"day", "night"} \ {k} : earthTex'[j] = earthTex[j]
        BY <4>3, <4>4
      <4>6. ASSUME NEW j \in {"day", "night"}, earthTex'[j] # None PROVE FitsEarth(earthTex'[j])
        <5>1. CASE j = k
          BY <5>1, <4>3, <4>5
        <5>2. CASE j # k
          BY <5>2, <4>5, <4>6 DEF ContextInv
        <5> QED  BY <5>1, <5>2
      <4> QED  BY <4>3, <4>4, <4>6
    <3> QED  BY <3>1, <3>2
  <2> QED  BY <2>2, <2>3, <2>4 DEF ContextInv, GlFields
<1>8. ASSUME NEW k \in {"day", "night"}, OnError(k) PROVE ContextInv'
  BY <1>8, <1>a DEF OnError
<1>9. CASE UNCHANGED vars
  BY <1>9, <1>a DEF vars, textureVars
<1> QED  BY <1>1, <1>2, <1>3, <1>4, <1>5, <1>6, <1>7, <1>8, <1>9 DEF Next

\* What a frame is made from, but the epoch, it leaves alone.
LEMMA SameScene ==
  ASSUME UNCHANGED <<rendererVars, cameraVars, bufferVars, canvas>>
  PROVE  /\ ActiveView' = ActiveView
         /\ DrawOverlay(ActiveView)' = DrawOverlay(ActiveView)
         /\ Calls(ActiveView)' = Calls(ActiveView)
<1>1. UNCHANGED <<snapshot, applied, renderObjects, selectedId, camera, counts, canvas>>
  BY DEF rendererVars, cameraVars, bufferVars
<1>2. SatRender' = SatRender
  BY <1>1 DEF SatRender
<1>3. ActiveView' = ActiveView
  BY <1>1, <1>2 DEF ActiveView
<1>4. FindRender(selectedId)' = FindRender(selectedId)
  BY <1>1, <1>2 DEF FindRender
<1>5. Targets(ActiveView)' = Targets(ActiveView)
  BY <1>1, <1>2, <1>3 DEF Targets
<1>6. Marked(ActiveView)' = Marked(ActiveView)
  BY <1>3, <1>4 DEF Marked
<1>7. Labels(ActiveView)' = Labels(ActiveView)
  BY <1>1, <1>3, <1>5, <1>6 DEF Labels
<1>8. DrawOverlay(ActiveView)' = DrawOverlay(ActiveView)
  BY <1>1, <1>3, <1>6, <1>7 DEF DrawOverlay
<1>9. Calls(ActiveView)' = Calls(ActiveView)
  BY <1>1, <1>2, <1>3 DEF Calls
<1> QED  BY <1>3, <1>8, <1>9

LEMMA PictureFrame ==
  ASSUME ClockInv, ContextInv, Frame
  PROVE  PictureInv'
<1>1. UNCHANGED <<rendererVars, cameraVars, bufferVars, canvas, earthTex, now>>
  BY DEF Frame, textureVars, boundVars
<1>2. /\ ActiveView' = ActiveView
      /\ DrawOverlay(ActiveView)' = DrawOverlay(ActiveView)
      /\ Calls(ActiveView)' = Calls(ActiveView)
  BY <1>1, SameScene
<1>3. /\ epoch'.base # None /\ epoch'.at = epoch.at /\ epoch'.base = SceneBase
  BY ClockFrame
<1>4. picture'.sun = epoch'.at + now' - epoch'.base
  BY <1>1, <1>3, FrameIssues DEF SceneNow
<1>5. picture'.has = {k \in {"day", "night"} : earthTex'[k] # None}
  BY <1>1, FrameIssues DEF Images
<1>6. /\ picture'.view = ActiveView' /\ picture'.overlay = DrawOverlay(ActiveView)'
      /\ picture'.clear.depthCleared
      /\ DOMAIN picture'.issued = DOMAIN Calls(ActiveView)'
  BY <1>2, FrameIssues
<1>7. picture'.has = Images
  BY FrameIssues
<1>8. ASSUME NEW i \in DOMAIN picture'.issued
      PROVE  (LET d == picture.issued[i]
              IN  /\ d.call = Calls(ActiveView)[i] /\ d.view = ActiveView
                  /\ SamplesRight(d)
                  /\ d.blend = (d.call.program # "earth")
                  /\ d.depthMask = (d.call.program = "earth"))'
  <2> DEFINE d == picture.issued[i]
  <2>1. /\ d'.call = Calls(ActiveView)[i] /\ d'.view = ActiveView
        /\ \A s \in DOMAIN d'.sampled :
             d'.sampled[s] = IF s \in Images THEN s ELSE "atlas"
        /\ d'.blend = (d'.call.program # "earth")
        /\ d'.depthMask = (d'.call.program = "earth")
    BY FrameIssues
  <2>2. SamplesRight(d)'
    BY <2>1, <1>7 DEF SamplesRight
  <2> QED  BY <2>1, <2>2, <1>2
<1> QED  BY <1>3, <1>4, <1>5, <1>6, <1>8 DEF PictureInv

LEMMA PictureStep == ClockInv /\ ContextInv /\ PictureInv /\ [Next]_vars => PictureInv'
<1> SUFFICES ASSUME ClockInv, ContextInv, PictureInv, [Next]_vars PROVE PictureInv'
  OBVIOUS
<1>a. ASSUME picture' = None PROVE PictureInv'
  BY <1>a DEF PictureInv
<1>1. CASE Frame
  BY <1>1, PictureFrame
<1>2. CASE Tick \/ UserActs
  BY <1>2, <1>a DEF Tick, UserActs, Act
<1>3. ASSUME NEW m \in Messages, OnState(m) PROVE PictureInv'
  BY <1>3, <1>a DEF OnState
<1>4. ASSUME NEW s \in Settings, OnSettings(s) PROVE PictureInv'
  BY <1>4, <1>a DEF OnSettings, Act
<1>5. ASSUME NEW shape \in Sizes, Resize(shape) PROVE PictureInv'
  BY <1>5, <1>a DEF Resize, Act
<1>6. ASSUME NEW k \in {"day", "night"}, OnLoad(k) \/ OnError(k) PROVE PictureInv'
  BY <1>6, <1>a DEF OnLoad, OnError
<1>7. CASE UNCHANGED vars
  <2>1. UNCHANGED <<rendererVars, cameraVars, bufferVars, canvas, earthTex, now, epoch, picture>>
    BY <1>7 DEF vars, textureVars, boundVars, skyVars
  <2>2. /\ ActiveView' = ActiveView
        /\ DrawOverlay(ActiveView)' = DrawOverlay(ActiveView)
        /\ Calls(ActiveView)' = Calls(ActiveView)
    BY <2>1, SameScene
  <2>3. CASE picture = None
    BY <2>1, <2>3, <1>a
  <2>4. CASE picture # None
    <3>1. /\ picture'.view = ActiveView' /\ picture'.overlay = DrawOverlay(ActiveView)'
          /\ picture'.has = {k \in {"day", "night"} : earthTex'[k] # None}
          /\ picture'.clear.depthCleared
          /\ epoch'.base # None /\ picture'.sun = epoch'.at + now' - epoch'.base
          /\ DOMAIN picture'.issued = DOMAIN Calls(ActiveView)'
      BY <2>1, <2>2, <2>4 DEF PictureInv
    <3>2. ASSUME NEW i \in DOMAIN picture'.issued
          PROVE  (LET d == picture.issued[i]
                  IN  /\ d.call = Calls(ActiveView)[i] /\ d.view = ActiveView
                      /\ SamplesRight(d)
                      /\ d.blend = (d.call.program # "earth")
                      /\ d.depthMask = (d.call.program = "earth"))'
      <4> DEFINE d == picture.issued[i]
      <4>1. /\ d.call = Calls(ActiveView)[i] /\ d.view = ActiveView
            /\ SamplesRight(d)
            /\ d.blend = (d.call.program # "earth") /\ d.depthMask = (d.call.program = "earth")
        BY <2>1, <2>4 DEF PictureInv
      <4>2. SamplesRight(d)'
        BY <4>1, <2>1 DEF SamplesRight
      <4> QED  BY <4>1, <4>2, <2>1, <2>2
    <3> QED  BY <3>1, <3>2 DEF PictureInv
  <2> QED  BY <2>3, <2>4
<1> QED  BY <1>1, <1>2, <1>3, <1>4, <1>5, <1>6, <1>7 DEF Next

LEMMA PictureInit == Init => PictureInv
BY DEF Init, PictureInv

SceneInv == FeedInv /\ ContextInv /\ ClockInv /\ PictureInv

\* The buffers and the context are in order and a picture is that of its state.
THEOREM Invariant == Spec => []SceneInv
<1>1. Init => SceneInv
  BY FeedInit, ContextInit, ClockInit, PictureInit DEF SceneInv
<1>2. SceneInv /\ [Next]_vars => SceneInv'
  BY FeedStep, ContextStep, ClockStep, PictureStep DEF SceneInv
<1> QED  BY <1>1, <1>2, PTL DEF Spec

-------------------------------------------------------------------------------
(* What is drawn is fed.                                                   *)

LEMMA Multiples ==
  ASSUME NEW a \in Nat, NEW b \in Nat, NEW w \in Nat
  PROVE  /\ a * w \in Nat /\ (a + 1) * w = a * w + w
         /\ a <= b => a * w <= b * w
BY SMT

\* The triangles of the sphere use each vertex, and 16 bits hold their indices.
LEMMA SphereClosed == IndicesFit
<1> DEFINE W == Slices + 1
<1>1. Stacks \in Nat /\ Stacks >= 1 /\ Slices \in Nat /\ Slices >= 1
  BY GlAssumption
<1>2. W \in Nat /\ W >= 2 /\ Slices = W - 1
  BY <1>1
<1>3. (Stacks + 1) * W <= 65536 /\ (Stacks + 1) * W = Stacks * W + W /\ Stacks * W \in Nat
  BY <1>1, <1>2, GlAssumption, Multiples
<1>4. SphereVertices = 0 .. ((Stacks * W + W) - 1)
  BY <1>3 DEF SphereVertices
<1>5. ASSUME NEW c \in Cells
      PROVE  Corners(c) = {c[1] * W + c[2], c[1] * W + c[2] + 1, c[1] * W + c[2] + W,
                           c[1] * W + c[2] + W + 1}
  <2> DEFINE a == c[1] * W + c[2]
  <2>1. c[1] \in Nat /\ c[2] \in Nat
    BY <1>1 DEF Cells
  <2>2. a \in Nat
    BY <2>1, <1>2, Multiples
  <2>3. Corners(c) = {a, a + 1, a + Slices + 1, a + Slices + 2}
    BY DEF Corners
  <2> HIDE DEF a
  <2>4. a + Slices + 1 = a + W /\ a + Slices + 2 = a + W + 1
    BY <1>1, <2>2
  <2>5. Corners(c) = {a, a + 1, a + W, a + W + 1}
    BY <2>3, <2>4
  <2> QED  BY <2>5 DEF a
<1> HIDE DEF W
<1>6. ASSUME NEW c \in Cells, NEW i \in Corners(c) PROVE i % 65536 \in SphereVertices
  <2>1. c[1] \in Nat /\ c[1] <= Stacks - 1 /\ c[2] \in Nat /\ c[2] <= W - 2
    BY <1>1, <1>2 DEF Cells
  <2>2. c[1] * W \in Nat /\ c[1] * W + W <= Stacks * W
    <3>1. (c[1] + 1) * W <= Stacks * W /\ (c[1] + 1) * W = c[1] * W + W /\ c[1] * W \in Nat
      <4>1. c[1] + 1 \in Nat /\ c[1] + 1 <= Stacks
        BY <2>1, <1>1
      <4> QED  BY <4>1, <2>1, <1>1, <1>2, Multiples
    <3> QED  BY <3>1
  <2> DEFINE p == c[1] * W
             q == Stacks * W
  <2>3. i \in {p + c[2], p + c[2] + 1, p + c[2] + W, p + c[2] + W + 1}
    BY <1>5, <1>6
  <2>4. p \in Nat /\ q \in Nat /\ p + W <= q /\ q + W <= 65536
    BY <2>2, <1>3
  <2> HIDE DEF p, q
  <2>5. i \in Nat /\ i <= (q + W) - 1
    BY <2>1, <2>3, <2>4, <1>2
  <2>6. i < 65536
    BY <2>4, <2>5, <1>2
  <2>7. i % 65536 = i
    BY <2>5, <2>6
  <2>8. i \in 0 .. ((q + W) - 1)
    BY <2>4, <2>5, <1>2
  <2> QED  BY <2>7, <2>8, <1>4 DEF q
<1>7. ASSUME NEW v \in SphereVertices PROVE \E c \in Cells : v \in Corners(c) /\ v % 65536 = v
  <2> DEFINE q == v \div W
             r == v % W
             a == IF q < Stacks THEN q ELSE q - 1
             b == IF r < Slices THEN r ELSE r - 1
  <2>1. v \in Nat /\ v <= (Stacks * W + W) - 1
    BY <1>2, <1>3, <1>4
  <2>2. q \in Nat /\ r \in Nat /\ r <= W - 1 /\ v = q * W + r
    BY <1>2, <2>1
  <2> HIDE DEF q, r
  <2>3. q <= Stacks
    <3>1. SUFFICES ASSUME q >= Stacks + 1 PROVE FALSE
      BY <1>1, <2>2
    <3>2. (Stacks + 1) * W <= q * W
      BY <3>1, <1>1, <1>2, <2>2, Multiples
    <3>3. q * W \in Nat
      BY <2>2, <1>2, Multiples
    <3> QED  BY <3>2, <3>3, <2>1, <2>2, <1>2, <1>3
  <2>4. /\ a \in 0 .. Stacks - 1 /\ b \in 0 .. Slices - 1
        /\ r = b \/ r = b + 1
        /\ q = a \/ q = a + 1
    BY <1>1, <1>2, <2>2, <2>3
  <2> HIDE DEF a, b
  <2>5. a * W \in Nat /\ (q * W = a * W \/ q * W = a * W + W)
    BY <2>4, <1>1, <1>2, Multiples
  <2> DEFINE c == <<a, b>>
  <2>6. c \in Cells /\ c[1] = a /\ c[2] = b
    BY <2>4 DEF Cells
  <2> HIDE DEF c
  <2>7. Corners(c) = {a * W + b, a * W + b + 1, a * W + b + W, a * W + b + W + 1}
    BY <1>5, <2>6
  <2> DEFINE aw == a * W
             qw == q * W
  <2>8. aw \in Nat /\ (qw = aw \/ qw = aw + W) /\ v = qw + r
    BY <2>5, <2>2
  <2>9. Corners(c) = {aw + b, aw + b + 1, aw + b + W, aw + b + W + 1}
    BY <2>7
  <2> HIDE DEF aw, qw
  <2>10. v \in Corners(c)
    BY <2>4, <2>8, <2>9, <1>1, <1>2
  <2>11. v % 65536 = v
    <3>1. v < 65536
      BY <2>1, <1>2, <1>3
    <3> QED  BY <3>1, <2>1
  <2> QED  BY <2>6, <2>10, <2>11
<1>8. ASSUME NEW x \in SphereIndices PROVE x \in SphereVertices
  <2>1. PICK i \in UNION {Corners(c) : c \in Cells} : x = i % 65536
    BY DEF SphereIndices
  <2>2. PICK c \in Cells : i \in Corners(c)
    BY Zenon
  <2> QED  BY <2>1, <2>2, <1>6
<1>9. ASSUME NEW x \in SphereVertices PROVE x \in SphereIndices
  BY <1>7 DEF SphereIndices
<1> QED  BY <1>8, <1>9 DEF IndicesFit

\* Fewer rows are drawn than a message has.
LEMMA FiniteObjects ==
  ASSUME FeedInv
  PROVE  /\ IsFiniteSet(renderObjects) /\ Cardinality(renderObjects) \in Nat
         /\ renderObjects \subseteq Ids
<1>1. renderObjects = Visible(snapshot, applied)
  BY DEF FeedInv, BuffersCurrent
<1>2. CASE snapshot = None
  BY <1>1, <1>2, FS_EmptySet DEF Visible
<1>3. CASE snapshot # None
  <2>1. snapshot \in Messages
    BY <1>3 DEF FeedInv
  <2>2. snapshot \in Received /\ IsFiniteSet(DOMAIN snapshot.objects)
    BY <2>1, SceneAssumption
  <2>3. DOMAIN snapshot.objects \subseteq Ids
    <3>1. snapshot.objects \in UNION {[S -> Categories] : S \in SUBSET Ids}
      BY <2>2 DEF Received
    <3>2. PICK S \in SUBSET Ids : snapshot.objects \in [S -> Categories]
      BY <3>1
    <3> QED  BY <3>2
  <2>4. renderObjects \subseteq DOMAIN snapshot.objects
    BY <1>1, <1>3 DEF Visible, Foremost
  <2> QED  BY <2>2, <2>3, <2>4, FS_Subset, FS_CardinalityType
<1> QED  BY <1>2, <1>3

\* Each call of a frame finds its attributes.
LEMMA CallsFed ==
  ASSUME FeedInv, NEW view, NEW call \in {DrawEarth} \cup Later(view)
  PROVE  Fed(call)
<1>s. /\ \A b \in {"objPos", "objCol", "objSize", "objIcon"} : store[b] = renderObjects
      /\ store.star = {"sky"} /\ store.planet = {"sky"}
      /\ trailBuffer # {} => store.trail = trailBuffer
      /\ snapshot # None /\ HasVel(snapshot) => store.vel = {snapshot.axis}
      /\ counts.obj = Cardinality(renderObjects) /\ counts.trail = 2 * Cardinality(trailBuffer)
      /\ counts.vel = IF snapshot # None /\ HasVel(snapshot) THEN 2 ELSE 0
  BY DEF FeedInv
<1>h. /\ \A b \in StoreFields : Holds(b) = store[b]
      /\ Holds("grat") = Graticule /\ Holds("marker") = {0}
      /\ \A b \in {"earthPos", "earthNrm", "earthUv"} : Holds(b) = SphereVertices
  BY DEF Holds, StaticBuffers, StoreFields
<1>a. /\ Len(Attributes["earth"]) = 3 /\ Len(Attributes["line"]) = 2
      /\ Len(Attributes["points"]) = 4 /\ Len(Attributes["marker"]) = 1
  BY DEF Attributes
<1>c. \A x : Cardinality({x}) = 1
  BY FS_Singleton
<1>1. CASE call = DrawEarth
  <2>1. call.program = "earth" /\ call.buffers = <<"earthPos", "earthNrm", "earthUv">>
    BY <1>1 DEF DrawEarth, Call
  <2> QED  BY <2>1, <1>h, <1>a, SphereClosed DEF Fed
<1>2. ASSUME NEW b, NEW n, NEW what, call = DrawLines(what, b, n), n = 2 * Cardinality(Holds(b))
      PROVE  Fed(call)
  <2>1. call.program = "line" /\ call.buffers = <<b, b>> /\ call.count = n
    BY <1>2 DEF DrawLines, Call
  <2> QED  BY <2>1, <1>2, <1>a DEF Fed, PerThing
<1>3. ASSUME NEW bs, bs = <<bs[1], bs[2], bs[3], bs[4]>>, NEW n \in Nat, NEW what,
             call = DrawPointset(what, bs, n),
             n = Cardinality(Holds(bs[1])), \A i \in 1 .. 4 : Holds(bs[i]) = Holds(bs[1])
      PROVE  Fed(call)
  <2>1. call.program = "points" /\ call.buffers = bs /\ call.count = n
    BY <1>3 DEF DrawPointset, Call
  <2>2. Len(bs) = 4 /\ DOMAIN bs = 1 .. 4
    BY <1>3
  <2>3. n = 1 * n
    OBVIOUS
  <2> QED  BY <2>1, <2>2, <2>3, <1>3, <1>a DEF Fed, PerThing
<1>4. ASSUME NEW what, call = DrawMarker(what) PROVE Fed(call)
  <2>1. call.program = "marker" /\ call.buffers = <<"marker">> /\ call.count = 1
    BY <1>4 DEF DrawMarker, Call
  <2>2. Cardinality(Holds("marker")) = 1
    BY <1>h, <1>c, Zenon
  <2> QED  BY <2>1, <2>2, <1>a DEF Fed, PerThing
<1>5. CASE call = GratCall
  BY <1>2, <1>5, <1>h DEF GratCall, GratVertCount
<1>6. CASE call \in {StarsCall, PlanetsCall}
  <2>1. Holds("star") = {"sky"} /\ Holds("planet") = {"sky"}
    BY <1>s, <1>h DEF StoreFields
  <2>2. Cardinality(Holds("star")) = 1 /\ Cardinality(Holds("planet")) = 1
    BY <2>1, <1>c, Zenon
  <2> DEFINE stars == <<"star", "star", "star", "star">>
             planets == <<"planet", "planet", "planet", "planet">>
  <2>3. CASE call = StarsCall
    <3>1. call = DrawPointset("stars", stars, 1)
      BY <2>3 DEF StarsCall
    <3>2. stars[1] = "star" /\ stars[2] = "star" /\ stars[3] = "star" /\ stars[4] = "star"
      OBVIOUS
    <3> QED  BY <3>1, <3>2, <2>2, <1>3
  <2>4. CASE call = PlanetsCall
    <3>1. call = DrawPointset("planets", planets, 1)
      BY <2>4 DEF PlanetsCall
    <3>2. planets[1] = "planet" /\ planets[2] = "planet" /\ planets[3] = "planet" /\ planets[4] = "planet"
      OBVIOUS
    <3> QED  BY <3>1, <3>2, <2>2, <1>3
  <2> QED  BY <1>6, <2>3, <2>4
<1>7. CASE call \in {MoonCall, SunCall, SatCall}
  BY <1>4, <1>7 DEF MoonCall, SunCall, SatCall
<1>8. CASE call = ObjectsCall
  <2> DEFINE n == Cardinality(renderObjects)
  <2>1. call = DrawPointset("objects", ObjectBuffers, n)
    BY <1>8, <1>s DEF ObjectsCall
  <2>2. /\ ObjectBuffers[1] = "objPos" /\ ObjectBuffers[2] = "objCol"
        /\ ObjectBuffers[3] = "objSize" /\ ObjectBuffers[4] = "objIcon"
        /\ ObjectBuffers = <<"objPos", "objCol", "objSize", "objIcon">>
    BY DEF ObjectBuffers
  <2>3. \A i \in 1 .. 4 : Holds(ObjectBuffers[i]) = renderObjects
    BY <2>2, <1>s, <1>h DEF StoreFields
  <2>4. n \in Nat
    BY FiniteObjects
  <2>5. n = Cardinality(Holds(ObjectBuffers[1]))
    BY <2>3
  <2> HIDE DEF n
  <2> QED  BY <2>1, <2>2, <2>3, <2>4, <2>5, <1>3
<1>9. CASE call = TrailsCall /\ call.count > 0
  <2>1. call = DrawLines("trails", "trail", 2 * Cardinality(trailBuffer)) /\ 2 * Cardinality(trailBuffer) > 0
    BY <1>9, <1>s DEF TrailsCall, DrawLines, Call
  <2>2. trailBuffer # {}
    BY <2>1, FS_EmptySet
  <2>3. Holds("trail") = trailBuffer
    BY <2>2, <1>s, <1>h DEF StoreFields
  <2> QED  BY <2>1, <2>3, <1>2
<1>10. CASE call = VelCall /\ call.count > 0
  <2>1. call = DrawLines("vel", "vel", counts.vel) /\ counts.vel > 0
    BY <1>10 DEF VelCall, DrawLines, Call
  <2>2. snapshot # None /\ HasVel(snapshot) /\ counts.vel = 2
    BY <2>1, <1>s
  <2>3. Holds("vel") = {snapshot.axis}
    BY <2>2, <1>s, <1>h DEF StoreFields
  <2>4. Cardinality(Holds("vel")) = 1
    BY <2>3, <1>c, Zenon
  <2> QED  BY <2>1, <2>2, <2>4, <1>2
<1> QED  BY LaterCalls, <1>1, <1>5, <1>6, <1>7, <1>8, <1>9, <1>10

LEMMA FedImplied == FeedInv /\ ContextInv /\ PictureInv => DrawsFed
<1> SUFFICES ASSUME FeedInv, ContextInv, PictureInv, picture # None
             PROVE  /\ picture.clear.depthCleared
                    /\ \A i \in DOMAIN picture.issued :
                         LET d == picture.issued[i]
                         IN  /\ Fed(d.call)
                             /\ d.view = picture.view
                             /\ SamplesRight(d)
                             /\ d.depthMask = (i = 1) /\ d.blend = (i > 1)
                    /\ \A k \in picture.has : FitsEarth(earthTex[k])
  BY DEF DrawsFed
<1> DEFINE calls == Calls(ActiveView)
<1>1. /\ picture.clear.depthCleared /\ picture.view = ActiveView
      /\ picture.has = {k \in {"day", "night"} : earthTex[k] # None}
      /\ DOMAIN picture.issued = DOMAIN calls
  BY DEF PictureInv
<1>2. \A k \in picture.has : FitsEarth(earthTex[k])
  BY <1>1 DEF ContextInv
<1>3. ASSUME NEW i \in DOMAIN picture.issued
      PROVE  LET d == picture.issued[i]
             IN  /\ Fed(d.call)
                 /\ d.view = picture.view
                 /\ SamplesRight(d)
                 /\ d.depthMask = (i = 1) /\ d.blend = (i > 1)
  <2> DEFINE d == picture.issued[i]
  <2>1. /\ d.call = calls[i] /\ d.view = ActiveView /\ SamplesRight(d)
        /\ d.blend = (d.call.program # "earth") /\ d.depthMask = (d.call.program = "earth")
    BY DEF PictureInv
  <2> HIDE DEF d
  <2>2. /\ DOMAIN calls = 1 .. Len(calls) /\ Len(calls) \in Nat /\ i \in DOMAIN calls
        /\ (calls[i].program = "earth") = (i = 1)
        /\ i # 1 => calls[i] \in Later(ActiveView)
        /\ calls[1] = DrawEarth
    BY <1>1, Order
  <2> HIDE DEF calls
  <2>3. calls[i] \in {DrawEarth} \cup Later(ActiveView)
    BY <2>2
  <2>4. Fed(d.call)
    BY <2>1, <2>3, CallsFed
  <2>5. i \in Nat /\ i >= 1
    BY <2>2
  <2>6. (i # 1) = (i > 1)
    BY <2>5
  <2>7. d.depthMask = (i = 1) /\ d.blend = (i > 1)
    BY <2>1, <2>2, <2>6
  <2> QED  BY <2>1, <2>4, <2>7, <1>1 DEF d
<1> QED  BY <1>1, <1>2, <1>3

-------------------------------------------------------------------------------
(* One view.                                                               *)

\* What a picture shows is what was called for.
LEMMA Shown ==
  ASSUME PictureInv, picture # None, NEW what \in {"objects", "sat", "vel", "trails"}
  PROVE  IsDrawn(what) = (\E d \in Later(ActiveView) : d.what = what)
<1> DEFINE calls == Calls(ActiveView)
<1>1. /\ DOMAIN picture.issued = DOMAIN calls
      /\ \A i \in DOMAIN picture.issued : picture.issued[i].call = calls[i]
  BY DEF PictureInv
<1>2. /\ DOMAIN calls = 1 .. Len(calls) /\ calls[1] = DrawEarth /\ Len(calls) \in Nat
      /\ \A i \in DOMAIN calls : i # 1 => calls[i] \in Later(ActiveView)
  BY Order
<1>3. \A d \in Later(ActiveView) : \E i \in 2 .. Len(calls) : calls[i] = d
  BY CallsLead DEF Leads
<1> HIDE DEF calls
<1>4. DrawEarth.what # what
  BY DEF DrawEarth, Call
<1>5. ASSUME IsDrawn(what) PROVE \E d \in Later(ActiveView) : d.what = what
  <2>1. PICK i \in DOMAIN picture.issued : picture.issued[i].call.what = what
    BY <1>5 DEF IsDrawn
  <2>2. calls[i].what = what /\ i \in DOMAIN calls
    BY <2>1, <1>1
  <2>3. i # 1
    BY <2>2, <1>2, <1>4
  <2> QED  BY <2>2, <2>3, <1>2
<1>6. ASSUME NEW d \in Later(ActiveView), d.what = what PROVE IsDrawn(what)
  <2>1. PICK i \in 2 .. Len(calls) : calls[i] = d
    BY <1>3
  <2>2. i \in DOMAIN calls
    BY <2>1, <1>2
  <2> QED  BY <1>1, <1>6, <2>1, <2>2 DEF IsDrawn
<1> QED  BY <1>5, <1>6 DEF IsDrawn

LEMMA Names ==
  /\ GratCall.what = "grat" /\ StarsCall.what = "stars" /\ MoonCall.what = "moon"
  /\ PlanetsCall.what = "planets" /\ SunCall.what = "sun" /\ TrailsCall.what = "trails"
  /\ ObjectsCall.what = "objects" /\ VelCall.what = "vel" /\ SatCall.what = "sat"
  /\ ObjectsCall.count = counts.obj /\ VelCall.count = counts.vel
  /\ TrailsCall.count = counts.trail /\ SatCall.count = 1
BY DEF GratCall, SunCall, ObjectsCall, StarsCall, MoonCall, PlanetsCall, TrailsCall, VelCall,
       SatCall, DrawLines, DrawPointset, DrawMarker, Call

\* When each of four things is drawn.
LEMMA WhenShown ==
  ASSUME PictureInv, picture # None
  PROVE  /\ IsDrawn("objects") <=> counts.obj > 0
         /\ IsDrawn("sat") <=> ShowsOwn(ActiveView) /\ SatRender # None
         /\ IsDrawn("vel") => ShowsOwn(ActiveView) /\ counts.vel > 0
         /\ IsDrawn("trails") => counts.trail > 0
<1> DEFINE later == Later(ActiveView)
<1>1. \A d \in later :
        /\ d.count > 0
        /\ \/ d \in {GratCall, SunCall, ObjectsCall}
           \/ d \in {StarsCall, MoonCall, PlanetsCall} /\ applied.showSky
           \/ d = TrailsCall /\ applied.showTrails
           \/ d = VelCall /\ ShowsOwn(ActiveView)
           \/ d = SatCall /\ ShowsOwn(ActiveView) /\ SatRender # None
  BY LaterCalls
<1>2. counts.obj > 0 => ObjectsCall \in later
  BY Names DEF Later, Want
<1>3. ShowsOwn(ActiveView) /\ SatRender # None => SatCall \in later
  BY Names DEF Later, Want
<1> HIDE DEF later
<1>4. /\ IsDrawn("objects") = (\E d \in later : d.what = "objects")
      /\ IsDrawn("sat") = (\E d \in later : d.what = "sat")
      /\ IsDrawn("vel") = (\E d \in later : d.what = "vel")
      /\ IsDrawn("trails") = (\E d \in later : d.what = "trails")
  BY Shown DEF later
<1>5. \A d \in later : d.what = "objects" => d = ObjectsCall
  BY <1>1, Names
<1>6. \A d \in later : d.what = "sat" => ShowsOwn(ActiveView) /\ SatRender # None
  BY <1>1, Names
<1>7. \A d \in later : d.what = "vel" => d = VelCall /\ ShowsOwn(ActiveView)
  BY <1>1, Names
<1>8. \A d \in later : d.what = "trails" => d = TrailsCall
  BY <1>1, Names
<1>9. (\E d \in later : d.what = "objects") <=> counts.obj > 0
  BY <1>1, <1>2, <1>5, Names
<1>10. (\E d \in later : d.what = "sat") <=> ShowsOwn(ActiveView) /\ SatRender # None
  BY <1>3, <1>6, Names
<1>11. (\E d \in later : d.what = "vel") => ShowsOwn(ActiveView) /\ counts.vel > 0
  BY <1>1, <1>7, Names
<1>12. (\E d \in later : d.what = "trails") => counts.trail > 0
  BY <1>1, <1>8, Names
<1> QED  BY <1>4, <1>9, <1>10, <1>11, <1>12

\* The nearest of no more than n are all of them.
LEMMA AllForemost ==
  ASSUME NEW S \in SUBSET Ids, IsFiniteSet(S), NEW T \in SUBSET S, NEW n \in Nat, Cardinality(S) <= n
  PROVE  Foremost(T, n) = T
<1> SUFFICES ASSUME NEW x \in T PROVE Cardinality({y \in T : y < x}) < n
  BY DEF Foremost
<1>1. Ids \subseteq Int
  BY RendererAssumption
<1> DEFINE B == {y \in T : y < x}
           R == S \ {x}
<1>2. x \in S /\ x \in Int
  BY <1>1
<1>3. x \notin B
  BY <1>2
<1>4. B \subseteq R
  BY <1>3
<1> HIDE DEF B
<1>5. IsFiniteSet(R) /\ Cardinality(R) = Cardinality(S) - 1 /\ Cardinality(S) \in Nat
  BY <1>2, FS_RemoveElement, FS_CardinalityType
<1> HIDE DEF R
<1>6. Cardinality(B) <= Cardinality(R) /\ Cardinality(B) \in Nat /\ Cardinality(R) \in Nat
  BY <1>4, <1>5, FS_Subset, FS_CardinalityType
<1>7. Cardinality(B) < n
  BY <1>5, <1>6
<1> QED  BY <1>7 DEF B

LEMMA ViewImplied == FeedInv /\ PictureInv => OneView
<1> SUFFICES ASSUME FeedInv, PictureInv, picture # None PROVE OneView
  BY DEF OneView
<1> DEFINE v == ActiveView
           seen == (ObjectsDrawn \ Hidden(v)) \cap Projects(v)
           overlay == DrawOverlay(v)
<1>1. picture.view = v /\ picture.overlay = overlay
  BY DEF PictureInv
<1>2. /\ overlay.ring = Marked(v) /\ overlay.labels = Labels(v)
      /\ \A b \in DOMAIN overlay.marks : overlay.marks[b] = BodyMarks(v, b)
  BY DEF DrawOverlay
<1>3. v.fisheye \in BOOLEAN /\ v.shape = canvas.shape
  BY DEF ActiveView, FeedInv
<1>4. /\ IsFiniteSet(renderObjects) /\ Cardinality(renderObjects) \in Nat
      /\ renderObjects \subseteq Ids /\ SatKey \notin renderObjects
  BY FiniteObjects, RendererAssumption
<1>5. ObjectsDrawn = renderObjects
  <2>1. store.objPos = renderObjects /\ counts.obj = Cardinality(renderObjects)
    BY DEF FeedInv
  <2>2. CASE renderObjects = {}
    BY <2>1, <2>2 DEF ObjectsDrawn
  <2>3. CASE renderObjects # {}
    <3>1. Cardinality(renderObjects) # 0
      BY <1>4, <2>3, FS_EmptySet
    <3>2. counts.obj > 0
      BY <3>1, <1>4, <2>1
    <3> QED  BY <3>2, <2>1, WhenShown DEF ObjectsDrawn
  <2> QED  BY <2>2, <2>3
<1>6. SatRender # None <=> snapshot # None /\ snapshot.satellite
  <2>1. CASE snapshot = None
    BY <2>1 DEF SatRender
  <2>2. CASE snapshot # None
    <3>1. snapshot \in Received
      BY <2>2, SceneAssumption DEF FeedInv
    <3>2. snapshot.axis \in Directions
      BY <3>1 DEF Received
    <3>3. snapshot.axis # None
      BY <3>2, SceneAssumption
    <3> QED  BY <2>2, <3>3 DEF SatRender
  <2> QED  BY <2>1, <2>2
<1> HIDE DEF v
<1>7. Targets(v) \ {SatKey} = seen
  BY <1>4, <1>5 DEF Targets
<1>8. Labels(v) \ {SatKey} \subseteq ObjectsDrawn \cap Projects(v)
  BY <1>5 DEF Labels, Foremost, Marked, FindRender
<1>9. applied.showLabels /\ Cardinality(ObjectsDrawn) <= LabelCap => seen \subseteq Labels(v)
  <2>1. SUFFICES ASSUME applied.showLabels, Cardinality(ObjectsDrawn) <= LabelCap
                 PROVE  seen \subseteq Labels(v)
    OBVIOUS
  <2>2. LabelCap \in Nat
    BY SceneAssumption
  <2> DEFINE T == renderObjects \ Hidden(v)
  <2>3. T \in SUBSET renderObjects /\ renderObjects \in SUBSET Ids /\ Cardinality(renderObjects) <= LabelCap
    BY <1>4, <1>5, <2>1
  <2>4. Foremost(T, LabelCap) = T
    BY <1>4, <2>2, <2>3, AllForemost
  <2> QED  BY <2>1, <2>4, <1>5 DEF Labels
<1>10. ASSUME NEW b PROVE Cardinality(BodyMarks(v, b)) = 1
  <2>1. BodyMarks(v, b) = {"label"} \/ BodyMarks(v, b) = {"locator"}
    BY DEF BodyMarks, OnScreen
  <2> QED  BY <2>1, FS_Singleton, Zenon
<1>11. CASE v.fisheye
  <2>1. /\ applied.viewMode = "sat" /\ SatRender # None /\ v.eye = SatRender /\ v.up = SatUp(snapshot)
    BY <1>11 DEF v, ActiveView
  <2>2. v.eye = snapshot.axis
    BY <2>1 DEF SatRender
  <2>3. v.up # v.eye
    BY <2>1, <2>2 DEF SatUp
  <2>4. ~IsDrawn("sat") /\ ~IsDrawn("vel")
    BY <1>11, WhenShown DEF ShowsOwn, v
  <2>5. ASSUME IsDrawn("trails"), NEW seg \in store.trail PROVE seg[1] # SatKey
    <3>1. counts.trail > 0 /\ counts.trail = 2 * Cardinality(trailBuffer)
      BY <2>5, WhenShown DEF FeedInv
    <3>2. trailBuffer # {}
      BY <3>1, FS_EmptySet
    <3>3. seg \in Segments(trails, applied, lastSnapNow)
      BY <3>2, <2>5 DEF FeedInv, BuffersCurrent
    <3>4. \E k \in DOMAIN trails : k # SatKey /\ seg[1] = k
      BY <3>3, <2>1 DEF Segments
    <3> QED  BY <3>4
  <2>6. SatKey \notin Targets(v) \cup Labels(v) \cup Marked(v)
    <3>1. SatKey \notin Targets(v)
      BY <1>4, <1>11 DEF Targets
    <3>2. SatKey \notin Marked(v)
      BY <1>11 DEF Marked
    <3>3. SatKey \notin Labels(v)
      BY <3>1, <3>2, <1>4 DEF Labels, Foremost
    <3> QED  BY <3>1, <3>2, <3>3
  <2> QED  BY <1>1, <1>2, <1>3, <1>7, <1>8, <1>9, <1>10, <1>11, <2>3, <2>4, <2>5, <2>6 DEF OneView, v
<1>12. CASE ~v.fisheye
  <2>1. IsDrawn("sat") <=> snapshot # None /\ snapshot.satellite
    BY <1>6, <1>12, WhenShown DEF ShowsOwn, v
  <2>2. IsDrawn("vel") => store.vel = {snapshot.axis}
    <3>1. counts.vel = IF snapshot # None /\ HasVel(snapshot) THEN 2 ELSE 0
      BY DEF FeedInv
    <3>2. IsDrawn("vel") => snapshot # None /\ HasVel(snapshot)
      BY <3>1, WhenShown
    <3> QED  BY <3>2 DEF FeedInv
  <2>3. IsDrawn("sat") => SatKey \in Targets(v) \cup Hidden(v) \cup ({SatKey} \ Projects(v))
    BY <1>6, <1>12, <2>1 DEF Targets
  <2>4. IsDrawn("sat") = (snapshot # None /\ snapshot.satellite)
    BY <2>1 DEF IsDrawn
  <2> QED  BY <1>1, <1>2, <1>3, <1>7, <1>8, <1>9, <1>10, <1>12, <2>2, <2>3, <2>4 DEF OneView, v
<1> QED  BY <1>11, <1>12

-------------------------------------------------------------------------------
(* Scene's invariants.                                                     *)

\* Every draw call of a frame is fed, whatever ran before it.
THEOREM DrawsRight == Spec => []DrawsFed
<1>1. SceneInv => DrawsFed
  BY FedImplied DEF SceneInv
<1> QED  BY <1>1, Invariant, PTL

\* What is drawn, labelled and picked is judged by one view.
THEOREM SameView == Spec => []OneView
<1>1. SceneInv => OneView
  BY ViewImplied DEF SceneInv
<1> QED  BY <1>1, Invariant, PTL

\* The sky keeps the server's time.
THEOREM Sky == Spec => []SkyOnServerTime
<1>1. SceneInv => SkyOnServerTime
  BY SkyImplied DEF SceneInv
<1> QED  BY <1>1, Invariant, PTL

===============================================================================
