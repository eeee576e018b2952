---------------------------------- MODULE Gl ----------------------------------
(***************************************************************************)
(* The WebGL context as renderer.js uses it: four programs, static and     *)
(* rewritten buffers, three texture units, and the state that a draw call  *)
(* inherits from whatever ran before.  Uniforms belong to a program and    *)
(* stay what they were when it is used next; blending, the depth mask, the *)
(* active unit and the textures on the units belong to the context.  The   *)
(* state is a record that draw calls and uploads transform; module Scene   *)
(* holds it.                                                               *)
(*                                                                         *)
(* Of a vertex only its identity is kept: a buffer's content is the set of *)
(* the things it has vertices of.                                          *)
(***************************************************************************)
EXTENDS Integers, Sequences, FiniteSets, SequencesExt, Functions

CONSTANTS
  Stacks, Slices   \* 64, 96: the tessellation of the Earth

\* The indices are of 16 bits, which 64 and 96 need not know.
ASSUME GlAssumption ==
  /\ Stacks \in Nat \ {0} /\ Slices \in Nat \ {0}
  /\ (Stacks + 1) * (Slices + 1) <= 65536

-------------------------------------------------------------------------------
(* Programs and static geometry.                                           *)

\* program(): the attributes each program consumes, at locations 0, 1, ...
Attributes == [earth  |-> <<"aPos", "aNormal", "aUV">>,
               line   |-> <<"aPos", "aColor">>,
               points |-> <<"aPos", "aColor", "aSize", "aIcon">>,
               marker |-> <<"aVertex">>]
Programs == DOMAIN Attributes

\* Wrong: the duplicated last column of vertices is forgotten.
SphereVertices_open == 0 .. (Stacks + 1) * Slices - 1

\* buildSphere(): a ring has a vertex more than slices, for the seam of the image.
SphereVertices == 0 .. (Stacks + 1) * (Slices + 1) - 1

\* The two triangles of each cell; a Uint16Array keeps an index modulo 2^16.
Cells == (0 .. Stacks - 1) \X (0 .. Slices - 1)
Corners(c) ==
  LET a == c[1] * (Slices + 1) + c[2]
  IN  {a, a + 1, a + Slices + 1, a + Slices + 2}
SphereIndices == {i % 65536 : i \in UNION {Corners(c) : c \in Cells}}

\* drawElements() reaches every vertex of the mesh and none beyond it.
IndicesFit == SphereIndices = SphereVertices
SphereIndexCount == 6 * Cardinality(Cells)

\* buildGraticule(): circles of latitude but the poles, meridians from pole to
\* pole, each in segments of 6 degrees.
Graticule ==
  {<<<<15 * l, 6 * s>>, <<15 * l, 6 * s + 6>>>> : l \in -5 .. 5, s \in 0 .. 59}
  \cup {<<<<6 * s, 15 * m>>, <<6 * s + 6, 15 * m>>>> : s \in -15 .. 14, m \in 0 .. 23}
GratVertCount == 2 * Cardinality(Graticule)

\* The buffers that are filled once.
StaticBuffers ==
  [earthPos |-> SphereVertices, earthNrm |-> SphereVertices, earthUv |-> SphereVertices,
   grat |-> Graticule, marker |-> {0}]

\* The vertices a draw call of this mode needs for n things.
PerThing(program) == IF program = "line" THEN 2 ELSE 1

-------------------------------------------------------------------------------
(* The context's state, and what changes it.                               *)

\* Sampler uniforms, set once: uDay, uNight and uAtlas.
Unit == [day |-> 0, night |-> 1, atlas |-> 2]
Samplers == [earth |-> {"day", "night"}, line |-> {}, points |-> {"atlas"}, marker |-> {"atlas"}]

\* A transform that was never set.
NoView == [fisheye |-> FALSE]

\* createRenderer(): the atlas was bound on unit 0 to be uploaded.
Setup ==
  [unit |-> 0,
   texture |-> [u \in 0 .. 2 |-> IF u = 0 THEN "atlas" ELSE "null"],
   blend |-> FALSE, depthMask |-> TRUE,
   view |-> [p \in Programs |-> [fisheye |-> FALSE, sat |-> NoView, mvp |-> NoView]]]

BindTexture(g, u, t) == [g EXCEPT !.unit = u, !.texture[u] = t]

\* uploadTexture() of textures.js, on the unit that happens to be active.  If it
\* throws, what it had bound stays bound; `reached' is how far it came.
UploadTexture(g, t, reached) ==
  CASE reached = "canvas" -> g
    [] reached = "upload" -> [g EXCEPT !.texture[g.unit] = "partial"]
    [] reached = "end"    -> [g EXCEPT !.texture[g.unit] = "null"]

\* Wrong: the uniforms of the orbit view leave uFisheye alone.
TransformUniforms_sticky(u, view) ==
  IF view.fisheye THEN [u EXCEPT !.fisheye = TRUE, !.sat = view]
  ELSE [u EXCEPT !.mvp = view]

\* setTransformUniforms(): those of the view that is not drawn keep old values.
TransformUniforms(u, view) ==
  IF view.fisheye THEN [u EXCEPT !.fisheye = TRUE, !.sat = view]
  ELSE [u EXCEPT !.fisheye = FALSE, !.mvp = view]

\* The view the vertex shaders draw with: main() of each *_VS.
ShaderView(u) == IF u.fisheye THEN u.sat ELSE u.mvp

\* A draw call of renderer.js: program, buffers by location, number of vertices.
Call(what, program, buffers, count) ==
  [what |-> what, program |-> program, buffers |-> buffers, count |-> count]

\* drawEarth().
DrawEarth == Call("earth", "earth", <<"earthPos", "earthNrm", "earthUv">>, SphereIndexCount)

\* drawLines(): position and colour are interleaved in one buffer.
DrawLines(what, buffer, count) == Call(what, "line", <<buffer, buffer>>, count)

\* drawPointset() and drawPoints().
DrawPointset(what, buffers, count) == Call(what, "points", buffers, count)

\* drawMarker(): the position is a uniform, the one vertex a dummy.
DrawMarker(what) == Call(what, "marker", <<"marker">>, 1)

\* The helpers return early when there is nothing to draw, but drawEarth().
Draw(when, call) == IF when /\ call.count > 0 THEN <<call>> ELSE << >>

\* What the sampler uniforms of a program read when it is drawn.
Sampled(g, program) == [s \in Samplers[program] |-> g.texture[Unit[s]]]

\* The transform uniforms after these calls.
Uniforms(g, calls, view) ==
  [p \in Programs |-> IF \E i \in DOMAIN calls : calls[i].program = p
                      THEN TransformUniforms(g.view[p], view) ELSE g.view[p]]

\* What a call is drawn with.  drawEarth() alone writes depth and does not blend.
Issued(g, uniforms, call) ==
  [call |-> call, view |-> ShaderView(uniforms[call.program]),
   sampled |-> Sampled(g, call.program),
   blend |-> call.program # "earth", depthMask |-> call.program = "earth"]

\* The state after these calls.
Drawn(g, uniforms, calls) ==
  [g EXCEPT !.view = uniforms, !.blend = Last(calls).program # "earth",
            !.depthMask = Last(calls).program = "earth"]

\* gl.clear(): depth is cleared only where the depth mask lets it be written.
Clear(g) == [what |-> "clear", depthCleared |-> g.depthMask]

===============================================================================
