-------------------------------- MODULE Scene --------------------------------
(***************************************************************************)
(* What the renderer shows: createRenderer() of frontend/js/renderer.js    *)
(* with its drawing, its camera (module Camera), the WebGL context (module *)
(* Gl), the Earth images that textures.js loads meanwhile, and the time of *)
(* day of the sky.  Module TrailRenderer has what setSnapshot() and        *)
(* setSettings() derive; here they also upload it.                         *)
(*                                                                         *)
(* A frame, an event and an image's onload each run to completion, so each *)
(* is one action; they come in any order.  picture is what the last frame  *)
(* issued and labelled, until the next event.                              *)
(*                                                                         *)
(* Geometry is a view and what it hides: which objects the Earth covers    *)
(* and which points have a projection are functions of the view.           *)
(***************************************************************************)
EXTENDS TrailRenderer, Camera, Gl

CONSTANTS
  Messages,          \* external: state messages; delay is how late serverTime is, or None
  Settings,          \* external: what main.js passes to setSettings()
  MaxSeconds,        \* 60: trailSeconds is clamped to 0 .. MaxSeconds
  DefaultSeconds,    \* 20
  LabelCap,          \* 200
  Sizes,             \* external: shapes of the window
  Dprs,              \* external: window.devicePixelRatio, in quarters
  ImageSizes,        \* external: <<width, height>> of the Earth images
  GlMax,             \* external: MAX_TEXTURE_SIZE
  Hidden(_),         \* external: what the Earth covers, seen from a view
  Projects(_),       \* external: what has a projection in a view
  BodyAt(_, _),      \* external: where the Sun or the Moon is in a view
  WallClock,         \* external: Date.now() when the page is loaded
  ServerClock,       \* external: the server's clock at the same time
  MaxDelay,          \* external: how late a serverTime may arrive
  MaxNow,            \* bound: the page's clock
  MaxStates,         \* bound: messages received
  MaxActs            \* bound: actions of the user

\* The axes a satellite is on or moves along; it may be at the origin.
Directions == {"x", "y", "z", "origin"}

\* A message with what the view and the sky take from it.
Received ==
  [satellite : BOOLEAN, axis : Directions, vel : Directions \cup {None}, delay : Int \cup {None},
   objects : UNION {[S -> Categories] : S \in SUBSET Ids}, points : Seq([id : Ids, age : Int])]

ASSUME SceneAssumption ==
  /\ MaxSeconds \in Nat /\ DefaultSeconds \in 0 .. MaxSeconds /\ LabelCap \in Nat
  /\ Dprs \subseteq Nat \ {0} /\ ImageSizes \subseteq Nat \X Nat /\ GlMax \in Nat \ {1}
  /\ WallClock \in Nat /\ ServerClock \in Nat /\ MaxDelay \in Nat
  /\ Messages \subseteq Received
  /\ \A m \in Messages : m.delay # None => m.delay \in 0 .. MaxDelay
  /\ \A m \in Messages : IsFiniteSet(DOMAIN m.objects)
  /\ None \notin Messages /\ None \notin Int /\ None \notin Directions
  /\ MaxNow \in Nat /\ MaxStates \in Nat /\ MaxActs \in Nat

VARIABLES
  gl,        \* the context's state
  store,     \* what each buffer that is rewritten holds
  counts,    \* objCount, trailVertCount; 2 if velActive
  atlasSide, \* width and height of the atlas
  canvas,    \* the shape of the canvas and, in proj, of the projection
  images,    \* for each Earth image, whether it was answered
  earthTex,  \* earthTex.day, earthTex.night: None or the size of the texture
  epoch,     \* sceneEpochMs and its base, sceneEpochBaseNow
  sky,       \* the time that stars, planets and Moon were computed for
  picture,   \* history: what the last frame drew, None after any other event
  now,       \* performance.now()
  heard,     \* history: the page's time of the last message with a serverTime
  states, acts  \* bounds: messages received, actions of the user

bufferVars == <<store, counts>>
textureVars == <<images, earthTex>>
skyVars == <<epoch, sky, heard>>
boundVars == <<now, states, acts>>
vars == <<rendererVars, cameraVars, gl, bufferVars, atlasSide, canvas, textureVars, skyVars,
          picture, boundVars>>

-------------------------------------------------------------------------------
(* Settings.                                                               *)

Given(s, f, default) == IF f \in DOMAIN s THEN s[f] ELSE default

\* normalizeSettings().
NormalizeSettings(s) ==
  [showTrails   |-> Given(s, "showTrails", FALSE),
   trailSeconds |-> Clamp(Given(s, "trailSeconds", DefaultSeconds), 0, MaxSeconds),
   showLabels   |-> Given(s, "showLabels", FALSE),
   showSky      |-> Given(s, "showSky", TRUE),
   viewMode     |-> IF Given(s, "viewMode", "orbit") = "sat" THEN "sat" ELSE "orbit",
   categories   |-> [c \in Categories |-> Given(Given(s, "categories", << >>), c, TRUE)]]

-------------------------------------------------------------------------------
(* Views.                                                                  *)

\* rebuildSatellite(): the satellite to draw, by the axis it is on.
SatRender == IF snapshot # None /\ snapshot.satellite THEN snapshot.axis ELSE None

\* satViewMatrix(): up is the velocity unless that is along the line of sight,
\* else north, else +X; no matrix for a satellite at the origin.
SatUp(m) ==
  IF m.vel # None /\ m.vel # m.axis THEN m.vel
  ELSE IF m.axis # "z" THEN "z" ELSE "x"

\* computeActiveView().
ActiveView ==
  IF applied.viewMode = "sat" /\ SatRender # None /\ SatRender # "origin"
  THEN [fisheye |-> TRUE, eye |-> SatRender, up |-> SatUp(snapshot), shape |-> canvas.shape]
  ELSE [fisheye |-> FALSE, eye |-> camera, shape |-> canvas.proj]

\* findRenderById(): the satellite first.
FindRender(id) ==
  IF id = None THEN None
  ELSE IF SatRender # None /\ id = SatId THEN SatKey
  ELSE IF id \in renderObjects THEN id ELSE None

\* pick(): what a click can hit.  In the satellite's view the satellite is the
\* camera, not a target.
Targets(view) ==
  ((renderObjects \cup (IF SatRender # None /\ ~view.fisheye THEN {SatKey} ELSE {}))
     \ Hidden(view)) \cap Projects(view)

-------------------------------------------------------------------------------
(* The overlay.                                                            *)

\* The object the ring and the last label mark, whatever covers it.
Marked(view) ==
  (({FindRender(selectedId)} \ {None}) \cap Projects(view)) \ (IF view.fisheye THEN {SatKey} ELSE {})

\* Nearest objects first; here the order of the ids stands for the distance.
Labels(view) ==
  IF ~applied.showLabels THEN {}
  ELSE (Foremost(renderObjects \ Hidden(view), LabelCap) \cap Projects(view))
       \cup ({SatKey} \cap Targets(view)) \cup Marked(view)

\* A body's name stands by its disc up to a little outside the frame; else
\* drawBodyLocator() pins an arrow to the edge, unless the body is inside.
OnScreen(view, body) == BodyAt(view, body) \in {"inside", "margin"}
BodyMarks(view, body) ==
  (IF OnScreen(view, body) THEN {"label"} ELSE {})
  \cup (IF ~OnScreen(view, body) /\ BodyAt(view, body) # "inside" THEN {"locator"} ELSE {})

DrawOverlay(view) ==
  [ring |-> Marked(view), labels |-> Labels(view),
   marks |-> [b \in {"sun"} \cup (IF applied.showSky THEN {"moon"} ELSE {}) |-> BodyMarks(view, b)]]

-------------------------------------------------------------------------------
(* A frame.                                                                *)

ObjectBuffers == <<"objPos", "objCol", "objSize", "objIcon">>

\* Wrong: the satellite is drawn in its own view.
ShowsOwn_always(view) == TRUE

\* In the satellite's view neither its marker nor its velocity is drawn.
ShowsOwn(view) == ~view.fisheye

\* The order of frame(): what is nearer is painted later.
Calls(view) ==
  <<DrawEarth>>
    \o Draw(TRUE, DrawLines("grat", "grat", GratVertCount))
    \o Draw(applied.showSky, DrawPointset("stars", <<"star", "star", "star", "star">>, 1))
    \o Draw(applied.showSky, DrawMarker("moon"))
    \o Draw(applied.showSky, DrawPointset("planets", <<"planet", "planet", "planet", "planet">>, 1))
    \o Draw(TRUE, DrawMarker("sun"))
    \o Draw(applied.showTrails, DrawLines("trails", "trail", counts.trail))
    \o Draw(TRUE, DrawPointset("objects", ObjectBuffers, counts.obj))
    \o Draw(ShowsOwn(view), DrawLines("vel", "vel", counts.vel))
    \o Draw(ShowsOwn(view) /\ SatRender # None, DrawMarker("sat"))

\* Wrong: an Earth image is bound once, in the frame that first finds it.
BindTextures_once(g) ==
  LET bind(h, k, u) ==
        IF h.texture[u] = "null" THEN BindTexture(h, u, IF earthTex[k] # None THEN k ELSE "atlas")
        ELSE IF earthTex[k] # None /\ h.texture[u] = "atlas" THEN BindTexture(h, u, k) ELSE h
  IN  [BindTexture(bind(bind(g, "day", 0), "night", 1), 2, "atlas") EXCEPT !.unit = 0]

\* Wrong: the images are used when both have come.
BindTextures_both(g) ==
  LET image(k) == IF None \notin {earthTex["day"], earthTex["night"]} THEN k ELSE "atlas"
  IN  [BindTexture(BindTexture(BindTexture(g, 0, image("day")), 1, image("night")), 2, "atlas")
         EXCEPT !.unit = 0]

\* The atlas stands in for an image that is not there.
BindTextures(g) ==
  LET image(k) == IF earthTex[k] # None THEN k ELSE "atlas"
  IN  [BindTexture(BindTexture(BindTexture(g, 0, image("day")), 1, image("night")), 2, "atlas")
         EXCEPT !.unit = 0]

\* sceneNowMs(): the first frame anchors the epoch if no message has.
SceneBase == IF epoch.base = None THEN now ELSE epoch.base
SceneNow == epoch.at + now - SceneBase

Frame ==
  LET view  == ActiveView
      start == [gl EXCEPT !.depthMask = TRUE]
      bound == BindTextures(start)
      calls == Calls(view)
      unis  == Uniforms(bound, calls, view)
  IN  /\ gl' = Drawn(bound, unis, calls)
      /\ epoch' = [epoch EXCEPT !.base = SceneBase]
      /\ picture' = [view |-> view, clear |-> Clear(start), issued |-> [i \in DOMAIN calls |-> Issued(bound, unis, calls[i])],
                     overlay |-> DrawOverlay(view), sun |-> SceneNow,
                     \* uHasDay and uHasNight
                     has |-> {k \in {"day", "night"} : earthTex[k] # None}]
      /\ UNCHANGED <<rendererVars, cameraVars, bufferVars, atlasSide, canvas, textureVars,
                     sky, heard, boundVars>>

-------------------------------------------------------------------------------
(* Messages and settings.                                                  *)

\* Wrong: rebuildObjectBuffer() leaves the icons of the rows before.
UploadObjects_icons(s, ids) == [s EXCEPT !.objPos = ids, !.objCol = ids, !.objSize = ids]

\* The uploads of rebuildObjectBuffer().
UploadObjects(s, ids) ==
  [s EXCEPT !.objPos = ids, !.objCol = ids, !.objSize = ids, !.objIcon = ids]

\* rebuildTrailBuffer() returns before the upload when there is nothing to show.
UploadTrails(s, segments) == IF segments = {} THEN s ELSE [s EXCEPT !.trail = segments]

\* The velocity vector of rebuildSatellite().
HasVel(m) == m.satellite /\ m.vel # None
UploadVel(s, m) == IF HasVel(m) THEN [s EXCEPT !.vel = {m.axis}] ELSE s

\* rebuildSky(), at the raw epoch.
RebuildSky(t) == [stars |-> t, planets |-> t, moon |-> t]

\* Wrong: the base of the epoch stays that of the first message.
Epoch_unanchored(delay) ==
  IF delay = None THEN epoch
  ELSE [at |-> ServerClock + now - delay, base |-> IF epoch.base = None THEN now ELSE epoch.base]

\* setSnapshot(): a serverTime that is missing or invalid leaves the epoch alone;
\* one that comes late is the server's clock less its delay.
Epoch(delay) ==
  IF delay = None THEN epoch ELSE [at |-> ServerClock + now - delay, base |-> now]

OnState(m) ==
  /\ states < MaxStates /\ states' = states + 1
  /\ SetSnapshot(m, now)
  /\ store' = UploadVel(UploadTrails(UploadObjects(store, renderObjects'), trailBuffer'), m)
  /\ counts' = [obj |-> Cardinality(renderObjects'), trail |-> 2 * Cardinality(trailBuffer'),
                vel |-> IF HasVel(m) THEN 2 ELSE 0]
  /\ epoch' = Epoch(m.delay)
  /\ sky' = RebuildSky(epoch'.at)
  /\ heard' = IF m.delay = None THEN heard ELSE now
  /\ picture' = None
  /\ UNCHANGED <<cameraVars, gl, atlasSide, canvas, textureVars, now, acts>>

\* An action of the user that leaves all but the renderer's or camera's state.
Act ==
  /\ acts < MaxActs /\ acts' = acts + 1
  /\ picture' = None
  /\ UNCHANGED <<gl, atlasSide, textureVars, skyVars, now, states>>

\* applyRendererSettings() of main.js.
OnSettings(s) ==
  /\ Act
  /\ SetSettings(NormalizeSettings(s))
  /\ store' = UploadTrails(UploadObjects(store, renderObjects'), trailBuffer')
  /\ counts' = [counts EXCEPT !.obj = Cardinality(renderObjects'),
                              !.trail = 2 * Cardinality(trailBuffer')]
  /\ UNCHANGED <<cameraVars, canvas>>

-------------------------------------------------------------------------------
(* Pointer, wheel and window.                                              *)

\* The pointerup listeners: the camera's, then, unless the pointer strayed, a
\* pick of the object nearest to it, or of none, which is selected.
PointerUp ==
  /\ Release
  /\ \/ press.strayed /\ UNCHANGED rendererVars
     \/ /\ ~press.strayed
        /\ \E t \in Targets(ActiveView) \cup {None} : SetSelected(IF t = SatKey THEN SatId ELSE t)

UserActs ==
  /\ Act
  /\ \/ \E x \in Places : (PointerDown(x) \/ PointerMove(x)) /\ UNCHANGED rendererVars
     \/ PointerUp
     \/ Release /\ UNCHANGED rendererVars   \* pointercancel
     \/ \E step \in {-1, 1} : Wheel(step) /\ UNCHANGED rendererVars
  /\ UNCHANGED <<bufferVars, canvas>>

\* resize().
Resize(shape) ==
  /\ Act
  /\ canvas' = [shape |-> shape, proj |-> shape]
  /\ UNCHANGED <<rendererVars, cameraVars, bufferVars>>

-------------------------------------------------------------------------------
(* The Earth images: textures.js.                                          *)

Powers == {1, 2, 4, 8, 16, 32, 64, 128, 256, 512, 1024, 2048, 4096}
PositiveInt(n, fallback) == IF n >= 1 THEN n ELSE fallback
LargestPotLE(n) == Max({p \in Powers : p <= n})
AtMost(n, cap) == IF n < cap THEN n ELSE cap

MaxSize == AtMost(4096, PositiveInt(GlMax, 4096))

\* Wrong: each side is rounded down by itself, also of a 2:1 image.
PotSizeFor_plain(w, h) ==
  <<LargestPotLE(AtMost(PositiveInt(w, 1), MaxSize)), LargestPotLE(AtMost(PositiveInt(h, 1), MaxSize))>>

\* potSizeFor(): the height of a 2:1 image follows from the width.
PotSizeFor(w, h) ==
  LET potW == LargestPotLE(AtMost(PositiveInt(w, 1), MaxSize))
  IN  IF h > 0 /\ w = 2 * h THEN <<potW, PositiveInt(potW \div 2, 1)>>
      ELSE <<potW, LargestPotLE(AtMost(PositiveInt(h, 1), MaxSize))>>

\* onload: the upload succeeds, or fails before or after it has bound a texture.
OnLoad(k) ==
  /\ images[k] = "loading"
  /\ images' = [images EXCEPT ![k] = "answered"]
  /\ \E reached \in {"canvas", "upload", "end"} :
       /\ gl' = UploadTexture(gl, k, reached)
       /\ IF reached # "end" THEN UNCHANGED earthTex
          ELSE \E s \in ImageSizes : earthTex' = [earthTex EXCEPT ![k] = PotSizeFor(s[1], s[2])]
  /\ picture' = None
  /\ UNCHANGED <<rendererVars, cameraVars, bufferVars, atlasSide, canvas, skyVars, boundVars>>

\* onerror, or an exception of imageFactory() or of the assignment to src.
OnError(k) ==
  /\ images[k] = "loading"
  /\ images' = [images EXCEPT ![k] = "answered"]
  /\ picture' = None
  /\ UNCHANGED <<rendererVars, cameraVars, gl, bufferVars, atlasSide, canvas, earthTex, skyVars,
                 boundVars>>

Tick ==
  /\ now < MaxNow /\ now' = now + 1
  /\ picture' = None
  /\ UNCHANGED <<rendererVars, cameraVars, gl, bufferVars, atlasSide, canvas, textureVars, skyVars,
                 states, acts>>

-------------------------------------------------------------------------------

\* The side of the atlas: Math.round() of the ratio, at most 2, times 256.
AtlasSide(dpr) == 256 * ((AtMost(dpr, 8) + 2) \div 4)

\* createRenderer(), then the settings and the size that boot() gives it.
Init ==
  /\ \E s \in Settings : RendererInit(NormalizeSettings(s))
  /\ CameraInit
  /\ gl = Setup
  /\ store = [objPos |-> {}, objCol |-> {}, objSize |-> {}, objIcon |-> {}, trail |-> {}, vel |-> {},
              star |-> {"sky"}, planet |-> {"sky"}]
  /\ counts = [obj |-> 0, trail |-> 0, vel |-> 0]
  /\ \E dpr \in Dprs : atlasSide = AtlasSide(dpr)
  /\ \E shape \in Sizes : canvas = [shape |-> shape, proj |-> shape]
  /\ images = [k \in {"day", "night"} |-> "loading"]
  /\ earthTex = [k \in {"day", "night"} |-> None]
  /\ epoch = [at |-> WallClock, base |-> None]
  /\ sky = RebuildSky(WallClock)
  /\ picture = None
  /\ heard = None
  /\ now = 0 /\ states = 0 /\ acts = 0

Next ==
  \/ Frame
  \/ Tick
  \/ \E m \in Messages : OnState(m)
  \/ \E s \in Settings : OnSettings(s)
  \/ UserActs
  \/ \E shape \in Sizes : Resize(shape)
  \/ \E k \in {"day", "night"} : OnLoad(k) \/ OnError(k)

\* requestAnimationFrame() is called again by every frame, so after any event
\* there is a frame; a browser answers an image it fetches.
Fairness ==
  /\ []<>(picture # None)
  /\ \A k \in {"day", "night"} : WF_images(OnLoad(k) \/ OnError(k))

Spec == Init /\ [][Next]_vars
FairSpec == Spec /\ Fairness

-------------------------------------------------------------------------------
(* Properties.                                                             *)

Holds(b) == IF b \in DOMAIN StaticBuffers THEN StaticBuffers[b] ELSE store[b]

\* All attributes the program consumes are arrays of the same things, as many as
\* are drawn; the Earth's indices reach each of its vertices and no other.
Fed(call) ==
  LET first == Holds(call.buffers[1])
  IN  /\ Len(call.buffers) = Len(Attributes[call.program])
      /\ \A i \in DOMAIN call.buffers : Holds(call.buffers[i]) = first
      /\ IF call.program = "earth" THEN IndicesFit
         ELSE call.count = PerThing(call.program) * Cardinality(first)

\* A sampler that is read has its image, one that is not has a complete texture.
SamplesRight(d) ==
  \A s \in DOMAIN d.sampled :
    d.sampled[s] = IF s \in picture.has THEN s ELSE "atlas"

\* An image keeps its proportions if they are 2:1, and can have mipmaps.
FitsEarth(size) ==
  /\ {size[1], size[2]} \subseteq {p \in Powers : p <= MaxSize}
  /\ (\A s \in ImageSizes : s[2] > 0 /\ s[1] = 2 * s[2]) => size[1] = 2 * size[2]

\* Whatever ran before, uploads between two frames and draws of the other view
\* included, each draw call of a frame finds the arrays, the transform and the
\* textures that its shader reads, depth is cleared, and only the Earth, drawn
\* first, hides what is behind it (renderer.js:1068-1176, 1434-1499; the comment
\* at 1070-1071, "uFisheye must be set on every program each frame").
DrawsFed ==
  picture # None =>
    /\ picture.clear.depthCleared
    /\ \A i \in DOMAIN picture.issued :
         LET d == picture.issued[i]
         IN  /\ Fed(d.call)
             /\ d.view = picture.view
             /\ SamplesRight(d)
             /\ d.depthMask = (i = 1) /\ d.blend = (i > 1)
    /\ \A k \in picture.has : FitsEarth(earthTex[k])

IsDrawn(what) == \E i \in DOMAIN picture.issued : picture.issued[i].call.what = what
ObjectsDrawn == IF IsDrawn("objects") THEN store.objPos ELSE {}

\* What can be clicked, what is labelled and what is drawn are the same objects,
\* judged by one view, which has the canvas's shape and an up direction; of the
\* satellite nothing at all is seen from the satellite, not even its trail, and
\* everywhere else it is drawn and can be clicked (renderer.js:736-740, "so GPU,
\* labels and picking never disagree").
OneView ==
  picture # None =>
    LET v == picture.view
        seen == (ObjectsDrawn \ Hidden(v)) \cap Projects(v)
    IN  /\ v = ActiveView /\ v.shape = canvas.shape
        /\ Targets(v) \ {SatKey} = seen
        /\ picture.overlay.labels \ {SatKey} \subseteq ObjectsDrawn \cap Projects(v)
        /\ applied.showLabels /\ Cardinality(ObjectsDrawn) <= LabelCap
             => seen \subseteq picture.overlay.labels
        /\ \A b \in DOMAIN picture.overlay.marks : Cardinality(picture.overlay.marks[b]) = 1
        /\ IF v.fisheye
           THEN /\ v.up # v.eye
                /\ ~IsDrawn("sat") /\ ~IsDrawn("vel")
                /\ IsDrawn("trails") => \A seg \in store.trail : seg[1] # SatKey
                /\ SatKey \notin Targets(v) \cup picture.overlay.labels \cup picture.overlay.ring
           ELSE /\ IsDrawn("sat") = (snapshot # None /\ snapshot.satellite)
                /\ IsDrawn("vel") => store.vel = {snapshot.axis}
                /\ IsDrawn("sat") => SatKey \in Targets(v) \cup Hidden(v) \cup ({SatKey} \ Projects(v))

\* Once a message brought a serverTime the Sun stands where the server's clock
\* puts it, however long ago the message came and whatever the page's own clock
\* says, and stars, planets and Moon where that message put them; so the Sun is
\* ahead of them by the time since (renderer.js:796-807, 883-926, 1374-1383).
SkyOnServerTime ==
  picture # None /\ heard # None =>
    /\ picture.sun \in ServerClock + now - MaxDelay .. ServerClock + now
    /\ \A b \in DOMAIN sky : picture.sun - sky[b] = now - heard

\* An image is eventually on the Earth or has failed, and one that failed costs
\* no more than itself, but that the night needs the day (textures.js:147-178,
\* renderer.js:1085-1108 and EARTH_FS).
OnEarth(k) ==
  /\ picture # None
  /\ \A s \in {"day", k} : s \in picture.has /\ Head(picture.issued).sampled[s] = s
Failed(k) == images[k] = "answered" /\ earthTex[k] = None
ImagesAppear == \A k \in {"day", "night"} : (images[k] = "loading") ~> (OnEarth(k) \/ Failed(k) \/ Failed("day"))

\* renderer.js:677-684, "atlasScale keeps the canvas POT", "1 or 2 -> 256 or 512
\* px (POT)": whatever the device pixel ratio, sprites are sampled from an atlas
\* whose sides are a power of two.
AtlasIsPot ==
  picture # None =>
    \A i \in DOMAIN picture.issued :
      "atlas" \in DOMAIN picture.issued[i].sampled => atlasSide \in Powers

-------------------------------------------------------------------------------
(* Strengthening: what the three invariants above rest on.                   *)

\* The buffers hold what the renderer's state says, but that a buffer of which
\* nothing is drawn keeps what it had.
FeedInv ==
  /\ snapshot = None \/ snapshot \in Messages
  /\ BuffersCurrent
  /\ DOMAIN store = {"objPos", "objCol", "objSize", "objIcon", "trail", "vel", "star", "planet"}
  /\ \A b \in {"objPos", "objCol", "objSize", "objIcon"} : store[b] = renderObjects
  /\ store.star = {"sky"} /\ store.planet = {"sky"}
  /\ trailBuffer # {} => store.trail = trailBuffer
  /\ snapshot # None /\ HasVel(snapshot) => store.vel = {snapshot.axis}
  /\ counts = [obj |-> Cardinality(renderObjects), trail |-> 2 * Cardinality(trailBuffer),
               vel |-> IF snapshot # None /\ HasVel(snapshot) THEN 2 ELSE 0]
  /\ canvas.proj = canvas.shape

\* Whatever an upload or a frame left in the context, each unit can be bound anew
\* and each program given a view.
ContextInv ==
  /\ DOMAIN gl = {"unit", "texture", "blend", "depthMask", "view"}
  /\ gl.unit \in 0 .. 2 /\ DOMAIN gl.texture = 0 .. 2
  /\ DOMAIN gl.view = Programs
  /\ \A p \in Programs : DOMAIN gl.view[p] = {"fisheye", "sat", "mvp"}
  /\ DOMAIN earthTex = {"day", "night"}
  /\ \A k \in {"day", "night"} : earthTex[k] # None => FitsEarth(earthTex[k])

\* Base and value of the epoch are those of the last message with a time.
ClockInv ==
  /\ now \in Nat
  /\ DOMAIN epoch = {"at", "base"} /\ epoch.at \in Int /\ epoch.base \in Nat \cup {None}
  /\ sky = RebuildSky(epoch.at)
  /\ heard # None =>
       /\ heard \in Nat /\ epoch.base = heard
       /\ epoch.at \in ServerClock + heard - MaxDelay .. ServerClock + heard

\* A frame is that of the state it is shown with.
PictureInv ==
  picture # None =>
    /\ picture.view = ActiveView /\ picture.overlay = DrawOverlay(ActiveView)
    /\ picture.has = {k \in {"day", "night"} : earthTex[k] # None}
    /\ picture.clear.depthCleared
    /\ epoch.base # None /\ picture.sun = epoch.at + now - epoch.base
    /\ DOMAIN picture.issued = DOMAIN Calls(ActiveView)
    /\ \A i \in DOMAIN picture.issued :
         LET d == picture.issued[i]
         IN  /\ d.call = Calls(ActiveView)[i] /\ d.view = ActiveView
             /\ SamplesRight(d)
             /\ d.blend = (d.call.program # "earth") /\ d.depthMask = (d.call.program = "earth")

===============================================================================
