------------------------------ MODULE PageProofs ------------------------------
(***************************************************************************)
(* Page: for every set of hosts, messages, stored settings and site        *)
(* configurations, and whatever the user does, the copies of the settings  *)
(* agree, the panels show the renderer's data, and the trails are well     *)
(* fed.                                                                     *)
(***************************************************************************)
EXTENDS Page, TLAPS, SequenceTheorems, NaturalsInduction, WellFoundedInduction

-------------------------------------------------------------------------------
(* Settings.                                                               *)

Fields == {"showTrails", "trailSeconds", "viewMode", "categories", "host"}

\* A record of settings is a function on the five names with valid values.
LEMMA SettingsFields ==
  ASSUME NEW r
  PROVE  r \in SettingsRecord <=>
           /\ r = [f \in Fields |-> r[f]]
           /\ r["showTrails"] \in BOOLEAN
           /\ r["trailSeconds"] \in 0 .. MaxSeconds
           /\ r["viewMode"] \in {"orbit", "sat"}
           /\ r["categories"] \in [Categories -> BOOLEAN]
           /\ r["host"] \in Hosts \cup {""}
  BY DEF SettingsRecord, Fields

\* clampInt() returns a number of the range, given one to fall back to.
LEMMA ClampIntRange ==
  ASSUME NEW hi \in Nat, NEW v \in Int \cup {None}, NEW fallback \in 0 .. hi
  PROVE  /\ ClampInt(v, 0, hi, fallback) \in 0 .. hi
         /\ v \in 0 .. hi /\ v # None => ClampInt(v, 0, hi, fallback) = v
  BY DEF ClampInt

\* applyPatch() keeps settings valid, whatever it is given.
LEMMA ApplyPatchValid ==
  ASSUME NEW base \in SettingsRecord, NEW p, Patch(p)
  PROVE  ApplyPatch(base, p) \in SettingsRecord
<1> DEFINE r == ApplyPatch(base, p)
<1>1. /\ base = [f \in Fields |-> base[f]]
      /\ base["showTrails"] \in BOOLEAN
      /\ base["trailSeconds"] \in 0 .. MaxSeconds
      /\ base["viewMode"] \in {"orbit", "sat"}
      /\ base["categories"] \in [Categories -> BOOLEAN]
      /\ base["host"] \in Hosts \cup {""}
  BY SettingsFields
<1>2. DOMAIN base = Fields
  BY <1>1
<1>3. r = [f \in Fields |-> IF f \in DOMAIN p THEN Coerced(f, base[f], p[f]) ELSE base[f]]
  BY <1>2 DEF ApplyPatch
<1>4. \A f \in Fields : r[f] = IF f \in DOMAIN p THEN Coerced(f, base[f], p[f]) ELSE base[f]
  BY <1>3
<1>5. r = [f \in Fields |-> r[f]]
  BY <1>3
<1> HIDE DEF r
<1>6. r["showTrails"] \in BOOLEAN
  <2>1. r["showTrails"] = IF "showTrails" \in DOMAIN p THEN p["showTrails"] ELSE base["showTrails"]
    BY <1>4 DEF Fields, Coerced
  <2> QED  BY <1>1, <2>1 DEF Patch
<1>7. r["trailSeconds"] \in 0 .. MaxSeconds
  <2>1. r["trailSeconds"] = IF "trailSeconds" \in DOMAIN p
                            THEN ClampInt(p["trailSeconds"], 0, MaxSeconds, base["trailSeconds"])
                            ELSE base["trailSeconds"]
    BY <1>4 DEF Fields, Coerced
  <2> DEFINE v == p["trailSeconds"]
             old == base["trailSeconds"]
  <2>2. ("trailSeconds" \in DOMAIN p => v \in Int \cup {None}) /\ old \in 0 .. MaxSeconds
    BY <1>1 DEF Patch
  <2>3. MaxSeconds \in Nat
    BY PageAssumption
  <2> HIDE DEF v, old
  <2>4. "trailSeconds" \in DOMAIN p => ClampInt(v, 0, MaxSeconds, old) \in 0 .. MaxSeconds
    BY <2>2, <2>3, ClampIntRange
  <2> QED  BY <2>1, <2>2, <2>4 DEF v, old
<1>8. r["viewMode"] \in {"orbit", "sat"}
  <2>1. r["viewMode"] \in {base["viewMode"], "orbit", "sat"}
    BY <1>4 DEF Fields, Coerced
  <2> QED  BY <1>1, <2>1
<1>9. r["categories"] \in [Categories -> BOOLEAN]
  <2>1. CASE "categories" \in DOMAIN p
    <3>1. r["categories"] = [c \in Categories |-> IF c \in DOMAIN p["categories"] THEN p["categories"][c]
                                                  ELSE base["categories"][c]]
      BY <1>4, <2>1 DEF Fields, Coerced
    <3>2. \A c \in Categories : base["categories"][c] \in BOOLEAN
      BY <1>1
    <3>3. \A c \in Categories : (IF c \in DOMAIN p["categories"] THEN p["categories"][c]
                                 ELSE base["categories"][c]) \in BOOLEAN
      BY <2>1, <3>2 DEF Patch
    <3> QED  BY <3>1, <3>3
  <2>2. CASE "categories" \notin DOMAIN p
    BY <1>1, <1>4, <2>2 DEF Fields
  <2> QED  BY <2>1, <2>2
<1>10. r["host"] \in Hosts \cup {""}
  <2>1. r["host"] = IF "host" \in DOMAIN p THEN p["host"] ELSE base["host"]
    BY <1>4 DEF Fields, Coerced
  <2> QED  BY <1>1, <2>1 DEF Patch
<1>11. r \in SettingsRecord
  BY <1>5, <1>6, <1>7, <1>8, <1>9, <1>10, SettingsFields
<1> QED  BY <1>11 DEF r

\* Settings that were stored load as they are, over any defaults.
LEMMA StoredWins ==
  ASSUME NEW base \in SettingsRecord, NEW st \in SettingsRecord
  PROVE  ApplyPatch(base, st) = st
<1>1. /\ st = [f \in Fields |-> st[f]]
      /\ st["showTrails"] \in BOOLEAN
      /\ st["trailSeconds"] \in 0 .. MaxSeconds
      /\ st["viewMode"] \in {"orbit", "sat"}
      /\ st["categories"] \in [Categories -> BOOLEAN]
      /\ st["host"] \in Hosts \cup {""}
  BY SettingsFields
<1>2. /\ base = [f \in Fields |-> base[f]]
      /\ base["trailSeconds"] \in 0 .. MaxSeconds
  BY SettingsFields
<1>3. DOMAIN base = Fields /\ DOMAIN st = Fields
  BY <1>1, <1>2
<1>4. \A f \in Fields : Coerced(f, base[f], st[f]) = st[f]
  <2>1. Coerced("showTrails", base["showTrails"], st["showTrails"]) = st["showTrails"]
    BY DEF Coerced
  <2>2. Coerced("trailSeconds", base["trailSeconds"], st["trailSeconds"]) = st["trailSeconds"]
    <3> DEFINE v == st["trailSeconds"]
               old == base["trailSeconds"]
    <3>1. v \in 0 .. MaxSeconds /\ old \in 0 .. MaxSeconds
      BY <1>1, <1>2
    <3>a. MaxSeconds \in Nat /\ None \notin Int
      BY PageAssumption
    <3>2. Coerced("trailSeconds", old, v) = ClampInt(v, 0, MaxSeconds, old)
      BY DEF Coerced
    <3> HIDE DEF v, old
    <3>3. ClampInt(v, 0, MaxSeconds, old) = v
      BY <3>1, <3>a, ClampIntRange
    <3> QED  BY <3>2, <3>3 DEF v, old
  <2>3. Coerced("viewMode", base["viewMode"], st["viewMode"]) = st["viewMode"]
    BY <1>1 DEF Coerced
  <2>4. Coerced("categories", base["categories"], st["categories"]) = st["categories"]
    <3>1. Coerced("categories", base["categories"], st["categories"])
            = [c \in Categories |-> IF c \in DOMAIN st["categories"] THEN st["categories"][c]
                                    ELSE base["categories"][c]]
      BY DEF Coerced
    <3> QED  BY <1>1, <3>1
  <2>5. Coerced("host", base["host"], st["host"]) = st["host"]
    BY DEF Coerced
  <2> QED  BY <2>1, <2>2, <2>3, <2>4, <2>5 DEF Fields
<1>5. ApplyPatch(base, st) = [f \in Fields |-> st[f]]
  BY <1>3, <1>4 DEF ApplyPatch
<1> QED  BY <1>1, <1>5

\* A record of settings is itself a patch that is understood.
LEMMA SettingsArePatch ==
  ASSUME NEW st \in SettingsRecord
  PROVE  Patch(st)
<1>1. /\ st["showTrails"] \in BOOLEAN
      /\ st["trailSeconds"] \in Int \cup {None}
      /\ st["categories"] \in [Categories -> BOOLEAN]
      /\ st["host"] \in Hosts \cup {""}
  <2>1. st["trailSeconds"] \in 0 .. MaxSeconds
    BY SettingsFields
  <2>2. st["trailSeconds"] \in Int
    BY <2>1
  <2> QED  BY <2>2, SettingsFields
<1>2. \A c \in DOMAIN st["categories"] : st["categories"][c] \in BOOLEAN
  BY <1>1
<1> QED  BY <1>1, <1>2 DEF Patch

\* Settings in which nothing was changed are valid.
LEMMA DefaultsValid == DEFAULTS \in SettingsRecord
<1>a. MaxSeconds \in Nat
  BY PageAssumption
<1>1. MaxSeconds \in 0 .. MaxSeconds
  BY <1>a
<1> QED  BY <1>1 DEF DEFAULTS, SettingsRecord

\* The defaults are valid whatever config.toml says, read or not.
LEMMA SiteDefaultsValid ==
  ASSUME NEW s \in Sites, NEW read \in BOOLEAN
  PROVE  SiteDefaults(s, read) \in SettingsRecord
<1>1. Patch(s)
  BY PageAssumption
<1>2. /\ DOMAIN LoadSiteConfig(s) \subseteq DOMAIN s \cap {"host", "showTrails", "trailSeconds"}
      /\ \A f \in DOMAIN LoadSiteConfig(s) : LoadSiteConfig(s)[f] = s[f]
  BY DEF LoadSiteConfig, Restrict
<1>3. Patch(LoadSiteConfig(s))
  BY <1>1, <1>2, Zenon DEF Patch
<1> QED  BY <1>3, DefaultsValid, ApplyPatchValid DEF SiteDefaults

\* Loading yields valid settings, and the stored ones if they had been saved.
LEMMA LoadValid ==
  ASSUME NEW stored \in Stored \cup SettingsRecord, NEW base \in SettingsRecord
  PROVE  /\ Load(stored, base) \in SettingsRecord
         /\ stored \in SettingsRecord => Load(stored, base) = stored
<1>1. CASE stored \in SettingsRecord
  <2>1. stored # None
    BY <1>1, PageAssumption
  <2>2. Load(stored, base) = stored
    BY <1>1, <2>1, StoredWins DEF Load
  <2> QED  BY <1>1, <2>2
<1>2. CASE stored \notin SettingsRecord /\ stored = None
  BY <1>2 DEF Load
<1>3. CASE stored \notin SettingsRecord /\ stored # None
  <2>1. Patch(stored)
    BY <1>3, PageAssumption
  <2> QED  BY <1>3, <2>1, ApplyPatchValid DEF Load
<1> QED  BY <1>1, <1>2, <1>3

\* The endpoint is that of one of the hosts.
LEMMA ResolveHost ==
  ASSUME NEW st \in SettingsRecord
  PROVE  Resolve(st) \in Hosts
<1>1. st["host"] \in Hosts \cup {""}
  BY SettingsFields
<1>2. OwnHost \in Hosts
  BY PageAssumption
<1> QED  BY <1>1, <1>2 DEF Resolve

-------------------------------------------------------------------------------
(* Agreement of the copies.  Most of SettingsAgree is an invariant only     *)
(* because the settings are valid everywhere: a load of valid settings      *)
(* changes nothing.                                                         *)

AgreeInv ==
  /\ CopiesInv
  /\ applied = current
  /\ link = Resolve(current) /\ urlShown = link
  /\ modalOpen => form = current

LEMMA AgreeImplies == AgreeInv => SettingsAgree
<1> SUFFICES ASSUME AgreeInv PROVE SettingsAgree
  OBVIOUS
<1>1. ASSUME saved, NEW s \in Sites, NEW read \in BOOLEAN
      PROVE  Load(storage, SiteDefaults(s, read)) = current
  <2>1. storage = current /\ storage \in SettingsRecord
    BY <1>1 DEF AgreeInv, CopiesInv
  <2> QED  BY <2>1, SiteDefaultsValid, LoadValid
<1>2. viewShown.button = current.viewMode
  BY DEF AgreeInv, CopiesInv, ViewOf
<1> QED  BY <1>1, <1>2 DEF AgreeInv, SettingsAgree

LEMMA AgreeInit == Init => AgreeInv
<1> SUFFICES ASSUME Init PROVE AgreeInv
  OBVIOUS
<1>1. defaults \in SettingsRecord
  BY SiteDefaultsValid DEF Init
<1>2. current \in SettingsRecord
  BY <1>1, LoadValid DEF Init
<1>3. /\ storage \in Stored /\ saved = FALSE /\ model = None /\ viewShown = ViewOf(current, model)
      /\ applied = current /\ link = Resolve(current) /\ urlShown = link /\ form = current
  BY DEF Init, RendererInit
<1> QED  BY <1>1, <1>2, <1>3 DEF AgreeInv, CopiesInv

\* A page load keeps what the last one stored.
LEMMA AgreeReload ==
  ASSUME AgreeInv, NEW read \in BOOLEAN, Reload(read), site \in Sites
  PROVE  AgreeInv'
<1> DEFINE base == SiteDefaults(site, read)
           st   == Load(storage, base)
<1>1. base \in SettingsRecord
  BY SiteDefaultsValid
<1>2. st \in SettingsRecord /\ (saved => st = storage)
  BY <1>1, LoadValid DEF AgreeInv, CopiesInv
<1>3. /\ Boot(st, base) /\ applied' = st
      /\ UNCHANGED <<storage, saved>>
  BY DEF Reload
<1> HIDE DEF base, st
<1>4. /\ defaults' = base /\ current' = st /\ applied' = st /\ model' = None
      /\ viewShown' = ViewOf(st, None) /\ link' = Resolve(st) /\ urlShown' = Resolve(st)
      /\ form' = st
  BY <1>3 DEF Boot
<1>5. CopiesInv'
  <2>1. storage \in Stored \cup SettingsRecord /\ (saved => storage = st)
    BY <1>2 DEF AgreeInv, CopiesInv
  <2> QED  BY <1>1, <1>2, <1>3, <1>4, <2>1 DEF CopiesInv
<1> QED  BY <1>4, <1>5 DEF AgreeInv

\* Replacing the settings reaches every copy.
LEMMA AgreeReplace ==
  ASSUME AgreeInv, NEW st \in SettingsRecord, NEW stores \in BOOLEAN, Replace(st, stores),
         UNCHANGED <<defaults, model, modalOpen>>
  PROVE  AgreeInv'
<1>1. /\ current' = st /\ saved' = stores /\ storage' = IF stores THEN st ELSE storage
      /\ applied' = st /\ viewShown' = ViewOf(st, model)
      /\ form' = IF modalOpen THEN st ELSE form
  BY DEF Replace, SetSettings
<1>2. link' = Resolve(st) /\ urlShown' = link'
  BY DEF Replace, Relink, AgreeInv
<1> QED  BY <1>1, <1>2 DEF AgreeInv, CopiesInv

LEMMA AgreeStep == AgreeInv /\ site \in Sites /\ [Next]_vars => (AgreeInv /\ site \in Sites)'
<1> SUFFICES ASSUME AgreeInv, site \in Sites, [Next]_vars PROVE (AgreeInv /\ site \in Sites)'
  OBVIOUS
<1>a. ASSUME UNCHANGED <<storage, saved, current, defaults, model, viewShown, applied, link, urlShown,
                         modalOpen, form>>
      PROVE  AgreeInv'
  BY <1>a DEF AgreeInv, CopiesInv
<1>s. ASSUME UNCHANGED site PROVE site' \in Sites
  BY <1>s
<1>1. ASSUME NEW b \in BOOLEAN, Reload(b) PROVE AgreeInv' /\ UNCHANGED site
  BY <1>1, AgreeReload DEF Reload
<1>2. ASSUME NEW b \in BOOLEAN, ResetDefaults(b) PROVE AgreeInv' /\ UNCHANGED site
  <2>1. Replace(defaults, b) /\ UNCHANGED <<defaults, model, modalOpen, site>>
    BY <1>2 DEF ResetDefaults, dataVars
  <2> QED  BY <2>1, AgreeReplace DEF AgreeInv, CopiesInv
<1>3. ASSUME NEW s \in Sites, EditSite(s) PROVE AgreeInv' /\ site' \in Sites
  <2>1. site' = s /\ UNCHANGED <<storage, saved, current, defaults, model, viewShown, applied, link, urlShown,
                         modalOpen, form>>
    BY <1>3 DEF EditSite, rendererVars, storeVars, panelVars, dataVars
  <2> QED  BY <1>a, <2>1
<1>4. ASSUME NEW p \in Patches, NEW b \in BOOLEAN, Update(p, b) PROVE AgreeInv' /\ UNCHANGED site
  <2>1. Replace(ApplyPatch(current, p), b) /\ UNCHANGED <<defaults, model, modalOpen, site>>
    BY <1>4 DEF Update, dataVars
  <2>2. Patch(p)
    BY PageAssumption
  <2>3. ApplyPatch(current, p) \in SettingsRecord
    BY <2>2, ApplyPatchValid DEF AgreeInv, CopiesInv
  <2> QED  BY <2>1, <2>3, AgreeReplace
<1>5. CASE Reconnect
  BY <1>5 DEF Reconnect, rendererVars, storeVars, dataVars, AgreeInv, CopiesInv
<1>6. CASE ToggleModal
  BY <1>6 DEF ToggleModal, rendererVars, storeVars, dataVars, AgreeInv, CopiesInv
<1>7. ASSUME NEW c, SetFilter(c) PROVE AgreeInv' /\ UNCHANGED site
  BY <1>7, <1>a DEF SetFilter, rendererVars, storeVars, panelVars
<1>8. ASSUME NEW id, Select(id) PROVE AgreeInv' /\ UNCHANGED site
  BY <1>8, <1>a DEF Select, SetSelected, storeVars, panelVars
<1>9. ASSUME NEW m \in MessagesOf[link], OnState(m) PROVE AgreeInv' /\ UNCHANGED site
  <2>1. link \in Hosts
    BY ResolveHost DEF AgreeInv, CopiesInv
  <2>2. /\ model' = m /\ viewShown' = ViewOf(current, m)
        /\ UNCHANGED <<storage, saved, current, defaults, applied, link, urlShown, modalOpen, form, site>>
    BY <1>9 DEF OnState, SetSnapshot, storeVars
  <2> QED  BY <2>1, <2>2 DEF AgreeInv, CopiesInv
<1>10. ASSUME NEW st, OnStatus(st) PROVE AgreeInv' /\ UNCHANGED site
  BY <1>10 DEF OnStatus, rendererVars, storeVars, dataVars, AgreeInv, CopiesInv
<1>11. CASE Tick \/ TimePasses
  BY <1>11, <1>a DEF Tick, TimePasses, rendererVars, storeVars, panelVars, dataVars
<1>12. CASE UNCHANGED vars
  BY <1>12, <1>a DEF vars, rendererVars, storeVars, panelVars, dataVars, pageVars
<1> QED
  <2>1. Reconnect \/ ToggleModal => UNCHANGED site
    BY DEF Reconnect, ToggleModal
  <2>2. Tick \/ TimePasses \/ UNCHANGED vars => UNCHANGED site
    BY DEF Tick, TimePasses, vars, pageVars
  <2> QED  BY <2>1, <2>2, <1>s, <1>1, <1>2, <1>3, <1>4, <1>5, <1>6, <1>7, <1>8, <1>9, <1>10, <1>11, <1>12
           DEF Next, User

\* The copies agree in every state.
LEMMA AgreeAlways == Spec => [](AgreeInv /\ site \in Sites)
<1>1. Init => AgreeInv /\ site \in Sites
  BY AgreeInit DEF Init
<1> QED  BY <1>1, AgreeStep, PTL DEF Spec

\* Whatever order settings, loads, resets and connection events come in, every
\* copy of the settings agrees, and what was saved is what the next load finds
\* whatever config.toml says by then.
THEOREM Agreement == Spec => []SettingsAgree
  BY AgreeAlways, AgreeImplies, PTL

-------------------------------------------------------------------------------
(* The panels.  That the badge is right follows from the agreement of the   *)
(* settings; the rest is preserved call by call.                            *)

PanelInv ==
  /\ model = snapshot /\ uiSelected = selectedId
  /\ table = IF model = None THEN EmptyTable ELSE RenderList(model, filter, uiSelected)
  /\ BuffersCurrent

LEMMA PanelImplies == AgreeInv /\ PanelInv => PanelCurrent
<1> SUFFICES ASSUME AgreeInv, PanelInv PROVE PanelCurrent
  OBVIOUS
<1>1. model # None => model.satellite \in BOOLEAN
  <2> SUFFICES ASSUME model # None PROVE model.satellite \in BOOLEAN
    OBVIOUS
  <2>1. PICK h \in Hosts : model \in MessagesOf[h]
    BY DEF AgreeInv, CopiesInv
  <2>2. model \in Message
    BY <2>1, PageAssumption
  <2> QED  BY <2>2 DEF Message
<1>2. viewShown.badge = (IF current.viewMode # "sat" THEN "hidden"
                         ELSE IF model # None /\ model.satellite THEN "nadir" ELSE "awaiting")
  BY DEF AgreeInv, CopiesInv, ViewOf
<1>3. Fisheye <=> current.viewMode = "sat" /\ model # None /\ model.satellite
  BY DEF Fisheye, AgreeInv, PanelInv
<1>4. (viewShown.badge = "nadir") <=> Fisheye
  BY <1>1, <1>2, <1>3
<1>5. Fisheye \in BOOLEAN
  BY <1>1 DEF Fisheye, PanelInv
<1> QED  BY <1>4, <1>5 DEF PanelInv, PanelCurrent

\* There is nothing to draw before the first message.
LEMMA NothingYet ==
  ASSUME NEW st, NEW ref
  PROVE  Segments(<< >>, st, ref) = {} /\ Visible(None, st) = {}
<1>1. DOMAIN << >> = {}
  OBVIOUS
<1>2. Segments(<< >>, st, ref) = {}
  BY <1>1 DEF Segments
<1> QED  BY <1>2 DEF Visible

LEMMA PanelInit == Init => PanelInv
<1> SUFFICES ASSUME Init PROVE PanelInv
  OBVIOUS
<1>1. BuffersCurrent
  BY NothingYet DEF Init, RendererInit, BuffersCurrent
<1> QED  BY <1>1 DEF Init, RendererInit, PanelInv

\* Replacing the settings rebuilds the buffers and leaves the data alone.
LEMMA PanelReplace ==
  ASSUME PanelInv, NEW st, SetSettings(st), UNCHANGED <<model, table, filter, uiSelected>>
  PROVE  PanelInv'
<1>1. /\ applied' = st /\ UNCHANGED <<snapshot, lastSnapNow, trails, selectedId>>
      /\ renderObjects' = Visible(snapshot, st)
      /\ trailBuffer' = Segments(trails, st, lastSnapNow)
  BY DEF SetSettings
<1>2. BuffersCurrent'
  BY <1>1 DEF BuffersCurrent
<1> QED  BY <1>1, <1>2 DEF PanelInv

LEMMA PanelStep == AgreeInv /\ PanelInv /\ [Next]_vars => PanelInv'
<1> SUFFICES ASSUME AgreeInv, PanelInv, [Next]_vars PROVE PanelInv'
  OBVIOUS
<1>a. ASSUME UNCHANGED <<rendererVars, model, table, filter, uiSelected>> PROVE PanelInv'
  BY <1>a DEF rendererVars, PanelInv, BuffersCurrent
<1>b. ASSUME UNCHANGED rendererVars PROVE BuffersCurrent'
  BY <1>b DEF rendererVars, PanelInv, BuffersCurrent
<1>1. ASSUME NEW b \in BOOLEAN, Reload(b) PROVE PanelInv'
  <2>1. /\ snapshot' = None /\ trails' = << >> /\ trailBuffer' = {} /\ renderObjects' = {}
        /\ selectedId' = None /\ model' = None /\ uiSelected' = None /\ table' = EmptyTable
    BY <1>1 DEF Reload, Boot
  <2>2. BuffersCurrent'
    BY <2>1, NothingYet DEF BuffersCurrent
  <2> QED  BY <2>1, <2>2 DEF PanelInv
<1>2. ASSUME NEW b \in BOOLEAN, ResetDefaults(b) PROVE PanelInv'
  BY <1>2, PanelReplace DEF ResetDefaults, Replace, dataVars
<1>3. ASSUME NEW s \in Sites, EditSite(s) PROVE PanelInv'
  BY <1>3, <1>a DEF EditSite, dataVars
<1>4. ASSUME NEW p \in Patches, NEW b \in BOOLEAN, Update(p, b) PROVE PanelInv'
  BY <1>4, PanelReplace DEF Update, Replace, dataVars
<1>5. CASE Reconnect \/ ToggleModal
  BY <1>5, <1>a DEF Reconnect, ToggleModal, dataVars
<1>6. ASSUME NEW c, SetFilter(c) PROVE PanelInv'
  <2>1. /\ filter' = c /\ table' = IF model = None THEN table ELSE RenderList(model, c, uiSelected)
        /\ UNCHANGED <<rendererVars, model, uiSelected>>
    BY <1>6 DEF SetFilter
  <2>2. UNCHANGED <<snapshot, selectedId>>
    BY <2>1 DEF rendererVars
  <2> QED  BY <1>b, <2>1, <2>2 DEF PanelInv
<1>7. ASSUME NEW id, Select(id) PROVE PanelInv'
  <2>1. /\ uiSelected' = id /\ selectedId' = id
        /\ table' = [table EXCEPT !.marked = table.rows \cap {id}]
        /\ UNCHANGED <<model, filter, snapshot, lastSnapNow, applied, trails, trailBuffer, renderObjects>>
    BY <1>7 DEF Select, SetSelected
  <2>2. CASE model = None
    <3>1. table' = EmptyTable
      BY <2>1, <2>2 DEF PanelInv, EmptyTable
    <3> QED  BY <2>1, <2>2, <3>1 DEF PanelInv, BuffersCurrent
  <2>3. CASE model # None
    <3>1. table = RenderList(model, filter, uiSelected)
      BY <2>3 DEF PanelInv
    <3>2. table' = RenderList(model, filter, id)
      BY <2>1, <3>1 DEF RenderList
    <3> QED  BY <2>1, <2>3, <3>2 DEF PanelInv, BuffersCurrent
  <2> QED  BY <2>2, <2>3
<1>8. ASSUME NEW m \in MessagesOf[link], OnState(m) PROVE PanelInv'
  <2>1. link \in Hosts
    BY ResolveHost DEF AgreeInv, CopiesInv
  <2>2. m # None
    BY <2>1, PageAssumption
  <2>3. /\ model' = m /\ table' = RenderList(m, filter, uiSelected)
        /\ UNCHANGED <<uiSelected, filter, selectedId, applied>>
        /\ snapshot' = m /\ lastSnapNow' = now
        /\ renderObjects' = Visible(m, applied) /\ trailBuffer' = Segments(trails', applied, now)
    BY <1>8 DEF OnState, SetSnapshot
  <2>4. BuffersCurrent'
    BY <2>3 DEF BuffersCurrent
  <2> QED  BY <2>2, <2>3, <2>4 DEF PanelInv
<1>9. ASSUME NEW st, OnStatus(st) PROVE PanelInv'
  BY <1>9, <1>a DEF OnStatus, dataVars
<1>10. CASE Tick \/ TimePasses \/ UNCHANGED vars
  BY <1>10, <1>a DEF Tick, TimePasses, vars, dataVars, pageVars
<1> QED  BY <1>1, <1>2, <1>3, <1>4, <1>5, <1>6, <1>7, <1>8, <1>9, <1>10 DEF Next, User

\* The panels and the renderer, told separately, show the same data and the same
\* selection in every state, and the buffers are those of the last message and
\* the settings.
THEOREM Panels == Spec => []PanelCurrent
<1>1. AgreeInv /\ site \in Sites /\ PanelInv /\ [Next]_vars => PanelInv'
  BY PanelStep
<1> QED  BY <1>1, PanelInit, PanelImplies, AgreeAlways, PTL DEF Spec

-------------------------------------------------------------------------------
(* The trails.                                                             *)

\* A non-empty set of naturals has a least element.
LEMMA LeastElement ==
  ASSUME NEW T \in SUBSET Nat, T # {}
  PROVE  \E x \in T : \A y \in T : x <= y
<1>1. PICK x \in T : \A y \in T : ~(<<y, x>> \in OpToRel(<, Nat))
  BY NatLessThanWellFounded, WFMin, Zenon
<1>2. \A y \in T : ~(y < x)
  BY <1>1 DEF OpToRel
<1> QED  BY <1>2

\* appendTrails() takes the points one by one: there is a function that gives
\* the trails after each, the one that AddPoints chooses.
LEMMA PointByPoint ==
  ASSUME NEW tr, NEW objs, NEW points, Len(points) \in Nat, NEW t
  PROVE  \E after :
           /\ after[0] = tr
           /\ \A n \in 1 .. Len(points) : after[n] = AddPoint(after[n - 1], objs, points[n], t)
           /\ AddPoints(tr, objs, points, t) = after[Len(points)]
<1> DEFINE Step(f, n) == IF n = 0 THEN tr ELSE AddPoint(f[n - 1], objs, points[n], t)
           Good(f, m) == f = [n \in 0 .. m |-> Step(f, n)]
           L == Len(points)
           T == {m \in 0 .. L : ~ \E f : Good(f, m)}
<1>1. \E f : Good(f, L)
  <2> SUFFICES ASSUME ~ \E f : Good(f, L) PROVE FALSE
    OBVIOUS
  <2>1. L \in T
    OBVIOUS
  <2>2. T \in SUBSET Nat
    OBVIOUS
  <2> HIDE DEF T
  <2>3. PICK m \in T : \A y \in T : m <= y
    BY <2>1, <2>2, LeastElement
  <2>4. m \in 0 .. L /\ ~ \E f : Good(f, m)
    BY <2>3 DEF T
  <2>5. CASE m = 0
    <3>1. Good([n \in 0 .. 0 |-> tr], 0)
      OBVIOUS
    <3> QED  BY <2>4, <2>5, <3>1
  <2>6. CASE m # 0
    <3>1. m - 1 \in 0 .. L /\ ~(m <= m - 1)
      BY <2>4, <2>6
    <3>2. m - 1 \notin T
      BY <2>3, <3>1
    <3>3. PICK f : Good(f, m - 1)
      BY <3>1, <3>2 DEF T
    <3> DEFINE g == [n \in 0 .. m |-> Step(f, n)]
    <3>4. \A n \in 0 .. m - 1 : g[n] = f[n]
      <4>1. \A n \in 0 .. m - 1 : f[n] = Step(f, n)
        BY <3>3
      <4>2. \A n \in 0 .. m - 1 : n \in 0 .. m
        BY <2>4, <2>6
      <4> QED  BY <4>1, <4>2
    <3>5. \A n \in 0 .. m : Step(g, n) = Step(f, n)
      <4> SUFFICES ASSUME NEW n \in 0 .. m PROVE Step(g, n) = Step(f, n)
        OBVIOUS
      <4>1. n # 0 => n - 1 \in 0 .. m - 1
        BY <2>4
      <4> HIDE DEF g
      <4> QED  BY <3>4, <4>1
    <3>6. Good(g, m)
      <4> HIDE DEF Step
      <4> QED  BY <3>5
    <3> QED  BY <2>4, <3>6
  <2> QED  BY <2>5, <2>6
<1> DEFINE F == CHOOSE f : Good(f, L)
<1>2. Good(F, L)
  BY <1>1
<1>3. AddPoints(tr, objs, points, t) = F[L]
  BY DEF AddPoints
<1> HIDE DEF F
<1>4. F[0] = tr
  <2>1. 0 \in 0 .. L
    OBVIOUS
  <2> QED  BY <1>2, <2>1
<1>5. \A n \in 1 .. L : F[n] = AddPoint(F[n - 1], objs, points[n], t)
  <2>1. \A n \in 1 .. L : n \in 0 .. L /\ n # 0
    OBVIOUS
  <2> QED  BY <1>2, <2>1
<1> QED  BY <1>3, <1>4, <1>5

\* push() and shift() keep a trail ordered and within its cap, when the new
\* sample is none of the past and no position follows a point.
LEMMA Pushed ==
  ASSUME NEW s, NEW x \in Sample, NEW t \in Nat, NEW cap \in Nat \ {0},
         Ordered(s, t), Len(s) <= cap,
         s # << >> => Last(s).t <= x.t /\ (Last(s).point => x.point),
         x.point \/ x.t <= t
  PROVE  /\ Ordered(Capped(Append(s, x), cap), t)
         /\ Len(Capped(Append(s, x), cap)) \in 1 .. cap
         /\ Last(Capped(Append(s, x), cap)) = x
<1> DEFINE n == Len(s)
           q == Append(s, x)
<1>1. s \in Seq(Sample) /\ n \in Nat
  BY DEF Ordered
<1>2. /\ q \in Seq(Sample) /\ Len(q) = n + 1 /\ q[n + 1] = x
      /\ \A i \in 1 .. n : q[i] = s[i]
  BY <1>1
<1>3. \A i \in 1 .. n : s[i].point \/ s[i].t <= t
  BY DEF Ordered
<1>4. \A i \in 2 .. n : s[i - 1].t <= s[i].t /\ (s[i - 1].point => s[i].point)
  BY DEF Ordered
<1>5. n # 0 => s[n].t <= x.t /\ (s[n].point => x.point)
  BY <1>1 DEF Last
<1> HIDE DEF n, q
<1>6. Ordered(q, t)
  <2>1. ASSUME NEW i \in 2 .. Len(q)
        PROVE  q[i - 1].t <= q[i].t /\ (q[i - 1].point => q[i].point)
    <3>1. CASE i = n + 1
      <4>1. i - 1 = n /\ n \in 1 .. n /\ n # 0
        BY <1>1, <1>2, <2>1, <3>1
      <4>2. q[i - 1] = s[n] /\ q[i] = x
        BY <1>2, <3>1, <4>1
      <4> QED  BY <1>5, <4>1, <4>2
    <3>2. CASE i # n + 1
      <4>1. i \in 2 .. n /\ i - 1 \in 1 .. n /\ i \in 1 .. n
        BY <1>1, <1>2, <2>1, <3>2
      <4> QED  BY <1>2, <1>4, <4>1
    <3> QED  BY <3>1, <3>2
  <2>2. ASSUME NEW i \in 1 .. Len(q)
        PROVE  q[i].point \/ q[i].t <= t
    <3>1. CASE i = n + 1
      BY <1>2, <3>1
    <3>2. CASE i # n + 1
      <4>1. i \in 1 .. n
        BY <1>1, <1>2, <2>2, <3>2
      <4> QED  BY <1>2, <1>3, <4>1
    <3> QED  BY <3>1, <3>2
  <2> QED  BY <1>2, <2>1, <2>2 DEF Ordered
<1>7. CASE ~(Len(q) > cap)
  <2>1. Capped(q, cap) = q
    BY <1>7 DEF Capped
  <2>2. Len(q) \in 1 .. cap /\ Last(q) = x
    BY <1>1, <1>2, <1>7 DEF Last
  <2> QED  BY <1>6, <2>1, <2>2 DEF q
<1>8. CASE Len(q) > cap
  <2> DEFINE z == Tail(q)
  <2>1. Capped(q, cap) = z
    BY <1>8 DEF Capped
  <2>2. q # << >>
    BY <1>1, <1>2
  <2>3. z \in Seq(Sample) /\ Len(z) = n /\ \A i \in 1 .. n : z[i] = q[i + 1]
    BY <1>1, <1>2, <2>2
  <2>4. n = cap
    BY <1>1, <1>2, <1>8 DEF n
  <2> HIDE DEF z
  <2>5. z[n] = x /\ n \in 1 .. n
    BY <1>1, <1>2, <2>3, <2>4
  <2>6. Last(z) = x
    BY <2>3, <2>5 DEF Last
  <2>7. Ordered(z, t)
    <3>1. ASSUME NEW i \in 2 .. Len(z)
          PROVE  z[i - 1].t <= z[i].t /\ (z[i - 1].point => z[i].point)
      <4>1. /\ i \in 1 .. n /\ i - 1 \in 1 .. n /\ i + 1 \in 2 .. Len(q)
            /\ (i - 1) + 1 = i /\ (i + 1) - 1 = i
        <5>1. i \in 2 .. n /\ Len(q) = n + 1
          BY <1>2, <2>3, <3>1
        <5> QED  BY <1>1, <5>1
      <4>2. z[i - 1] = q[(i + 1) - 1] /\ z[i] = q[i + 1]
        BY <2>3, <4>1
      <4> QED  BY <1>6, <4>1, <4>2 DEF Ordered
    <3>2. ASSUME NEW i \in 1 .. Len(z)
          PROVE  z[i].point \/ z[i].t <= t
      <4>1. i \in 1 .. n /\ i + 1 \in 1 .. Len(q)
        BY <1>1, <1>2, <2>3, <3>2
      <4>2. z[i] = q[i + 1]
        BY <2>3, <4>1
      <4> QED  BY <1>6, <4>1, <4>2 DEF Ordered
    <3> QED  BY <2>3, <3>1, <3>2 DEF Ordered
  <2>8. Len(z) \in 1 .. cap
    BY <1>1, <2>3, <2>4
  <2> QED  BY <2>1, <2>6, <2>7, <2>8 DEF q
<1> QED  BY <1>7, <1>8

LEMMA NothingOrdered ==
  ASSUME NEW t
  PROVE  Ordered(<< >>, t) /\ Len(<< >>) = 0
  BY DEF Ordered

\* One trail point keeps every trail well fed.
LEMMA PointFed ==
  ASSUME NEW tr, NEW objs, NEW p \in [id : Ids, age : Int], NEW t \in Nat, WellFed(tr, t)
  PROVE  WellFed(AddPoint(tr, objs, p, t), t)
<1> DEFINE old == IF p.id \in DOMAIN tr THEN tr[p.id].s ELSE << >>
           x   == [t |-> t - p.age, point |-> TRUE]
           q   == Capped(Append(old, x), SERVER_TRAIL_CAP)
           cat == PointCat(tr, objs, p.id)
           new == [cat |-> cat, server |-> TRUE, s |-> q]
<1>1. /\ SERVER_TRAIL_CAP \in Nat \ {0} /\ TRAIL_CAP \in Nat /\ TRAIL_CAP <= SERVER_TRAIL_CAP
  BY RendererAssumption
<1>2. Ordered(old, t) /\ Len(old) \in Nat /\ Len(old) <= SERVER_TRAIL_CAP
  <2>1. CASE p.id \in DOMAIN tr
    <3>1. FedTrail(tr[p.id], t) /\ old = tr[p.id].s
      BY <2>1 DEF WellFed
    <3>2. Ordered(old, t) /\ Len(old) \in 1 .. (IF tr[p.id].server THEN SERVER_TRAIL_CAP ELSE TRAIL_CAP)
      BY <3>1 DEF FedTrail
    <3> HIDE DEF old
    <3> QED  BY <1>1, <3>2
  <2>2. CASE p.id \notin DOMAIN tr
    BY <1>1, <2>2, NothingOrdered
  <2> QED  BY <2>1, <2>2
<1>3. x \in Sample /\ x.point = TRUE /\ x.t = t - p.age
  BY DEF Sample
<1>4. ASSUME ~Overtaken(old, t - p.age)
      PROVE  FedTrail(new, t)
  <2> HIDE DEF old, x
  <2>1. old # << >> => Last(old).t <= x.t /\ (Last(old).point => x.point)
    <3> SUFFICES ASSUME old # << >> PROVE Last(old).t <= x.t
      BY <1>3
    <3>1. ~(t - p.age <= Last(old).t)
      BY <1>4 DEF Overtaken
    <3>2. old \in Seq(Sample) /\ Len(old) \in 1 .. Len(old)
      BY <1>2 DEF Ordered
    <3>3. Last(old) \in Sample
      BY <3>2 DEF Last
    <3>4. Last(old).t \in Int /\ x.t \in Int
      BY <1>3, <3>3 DEF Sample
    <3> QED  BY <1>3, <3>1, <3>4
  <2>2. Ordered(q, t) /\ Len(q) \in 1 .. SERVER_TRAIL_CAP /\ Last(q) = x
    BY <1>1, <1>2, <1>3, <2>1, Pushed
  <2> HIDE DEF q
  <2> QED  BY <1>3, <2>2 DEF FedTrail
<1>5. CASE cat = None \/ Overtaken(old, t - p.age)
  BY <1>5 DEF AddPoint
<1>6. CASE ~(cat = None \/ Overtaken(old, t - p.age))
  <2>1. AddPoint(tr, objs, p, t) = [k \in DOMAIN tr \cup {p.id} |-> IF k = p.id THEN new ELSE tr[k]]
    BY <1>6 DEF AddPoint
  <2>2. FedTrail(new, t)
    BY <1>4, <1>6
  <2> HIDE DEF new
  <2> QED  BY <2>1, <2>2 DEF WellFed
<1> QED  BY <1>5, <1>6

\* So do all the points of a message.
LEMMA PointsFed ==
  ASSUME NEW tr, NEW objs, NEW points \in Seq([id : Ids, age : Int]), NEW t \in Nat, WellFed(tr, t)
  PROVE  WellFed(AddPoints(tr, objs, points, t), t)
<1>1. Len(points) \in Nat
  OBVIOUS
<1>2. PICK after :
        /\ after[0] = tr
        /\ \A n \in 1 .. Len(points) : after[n] = AddPoint(after[n - 1], objs, points[n], t)
        /\ AddPoints(tr, objs, points, t) = after[Len(points)]
  BY <1>1, PointByPoint
<1> DEFINE T == {n \in 0 .. Len(points) : ~WellFed(after[n], t)}
<1>3. T = {}
  <2> SUFFICES ASSUME T # {} PROVE FALSE
    OBVIOUS
  <2>1. T \in SUBSET Nat
    OBVIOUS
  <2> HIDE DEF T
  <2>2. PICK n \in T : \A y \in T : n <= y
    BY <2>1, LeastElement
  <2>3. n \in 0 .. Len(points) /\ ~WellFed(after[n], t)
    BY <2>2 DEF T
  <2>4. n # 0
    BY <1>2, <2>3
  <2>5. n \in 1 .. Len(points) /\ n - 1 \in 0 .. Len(points) /\ ~(n <= n - 1)
    BY <1>1, <2>3, <2>4
  <2>6. WellFed(after[n - 1], t)
    BY <2>2, <2>5 DEF T
  <2>7. points[n] \in [id : Ids, age : Int]
    BY <2>5, ElementOfSeq
  <2>8. after[n] = AddPoint(after[n - 1], objs, points[n], t)
    BY <1>2, <2>5
  <2> QED  BY <2>3, <2>6, <2>7, <2>8, PointFed
<1>4. Len(points) \in 0 .. Len(points)
  BY <1>1
<1> QED  BY <1>2, <1>3, <1>4

\* The positions of a snapshot are later than those before, and only go where
\* no point has been.
LEMMA PositionsFed ==
  ASSUME NEW tr, NEW cats, NEW t \in Nat, WellFed(tr, t)
  PROVE  WellFed(AddPositions(tr, cats, t), t)
<1> DEFINE x == [t |-> t, point |-> FALSE]
           Old(k) == IF k \in DOMAIN tr THEN tr[k].s ELSE << >>
           New(k) == [cat |-> cats[k], server |-> FALSE, s |-> Capped(Append(Old(k), x), TRAIL_CAP)]
<1>1. TRAIL_CAP \in Nat \ {0}
  BY RendererAssumption
<1>2. x \in Sample /\ x.point = FALSE /\ x.t = t
  BY DEF Sample
<1>3. ASSUME NEW k, ~ServerFed(tr, k)
      PROVE  FedTrail(New(k), t)
  <2> DEFINE old == Old(k)
             q == Capped(Append(old, x), TRAIL_CAP)
  <2>1. /\ Ordered(old, t) /\ Len(old) \in Nat /\ Len(old) <= TRAIL_CAP
        /\ old # << >> => ~Last(old).point
    <3>1. CASE k \in DOMAIN tr
      <4>1. FedTrail(tr[k], t) /\ ~tr[k].server /\ old = tr[k].s
        BY <1>3, <3>1 DEF WellFed, ServerFed
      <4> HIDE DEF old
      <4>2. Ordered(old, t) /\ Len(old) \in 1 .. TRAIL_CAP /\ tr[k].server = Last(old).point
        BY <4>1 DEF FedTrail
      <4>3. ~Last(old).point
        BY <4>1, <4>2
      <4> QED  BY <1>1, <4>2, <4>3
    <3>2. CASE k \notin DOMAIN tr
      BY <1>1, <3>2, NothingOrdered
    <3> QED  BY <3>1, <3>2
  <2> HIDE DEF old, x
  <2>2. old # << >> => Last(old).t <= x.t /\ (Last(old).point => x.point)
    <3> SUFFICES ASSUME old # << >> PROVE Last(old).t <= x.t
      BY <2>1
    <3>1. Len(old) \in 1 .. Len(old)
      BY <2>1 DEF Ordered
    <3>2. old[Len(old)].point \/ old[Len(old)].t <= t
      BY <2>1, <3>1 DEF Ordered
    <3> QED  BY <1>2, <2>1, <3>2 DEF Last
  <2>a. x \in Sample /\ (x.point \/ x.t <= t)
    BY <1>2
  <2>b. Ordered(old, t) /\ Len(old) <= TRAIL_CAP
    BY <2>1
  <2>3. Ordered(q, t) /\ Len(q) \in 1 .. TRAIL_CAP /\ Last(q) = x
    BY <1>1, <2>a, <2>b, <2>2, Pushed
  <2>4. New(k).s = q /\ New(k).server = FALSE
    BY DEF old
  <2> HIDE DEF q, New
  <2> QED  BY <1>2, <2>3, <2>4 DEF FedTrail
<1>4. AddPositions(tr, cats, t) =
        [k \in DOMAIN tr \cup DOMAIN cats |-> IF k \in DOMAIN cats /\ ~ServerFed(tr, k) THEN New(k) ELSE tr[k]]
  BY DEF AddPositions
<1> HIDE DEF New
<1>5. ASSUME NEW k \in DOMAIN tr \cup DOMAIN cats
      PROVE  FedTrail(IF k \in DOMAIN cats /\ ~ServerFed(tr, k) THEN New(k) ELSE tr[k], t)
  <2>1. CASE k \in DOMAIN cats /\ ~ServerFed(tr, k)
    BY <1>3, <2>1
  <2>2. CASE ~(k \in DOMAIN cats /\ ~ServerFed(tr, k))
    <3>1. k \in DOMAIN tr
      BY <1>5, <2>2 DEF ServerFed
    <3> QED  BY <2>2, <3>1 DEF WellFed
  <2> QED  BY <2>1, <2>2
<1> QED  BY <1>4, <1>5 DEF WellFed

\* A message keeps every trail well fed.
LEMMA MessageFed ==
  ASSUME NEW tr, NEW m \in Message, NEW t \in Nat, WellFed(tr, t)
  PROVE  WellFed(AppendTrails(tr, m, t), t)
<1> DEFINE a == AddPoints(tr, m.objects, m.points, t)
           b == AddPositions(a, Positions(m), t)
<1>1. m.points \in Seq([id : Ids, age : Int])
  BY DEF Message
<1>2. WellFed(a, t)
  BY <1>1, PointsFed
<1> HIDE DEF a
<1>3. WellFed(b, t)
  BY <1>2, PositionsFed
<1>4. AppendTrails(tr, m, t) = Prune(b, t)
  BY DEF AppendTrails, a
<1> HIDE DEF b
<1>5. WellFed(Prune(b, t), t)
  BY <1>3 DEF Prune, Restrict, WellFed
<1> QED  BY <1>4, <1>5

\* Trails stay well fed as time passes.
LEMMA Later ==
  ASSUME NEW tr, NEW t \in Nat, WellFed(tr, t)
  PROVE  WellFed(tr, t + 1)
<1> SUFFICES ASSUME NEW k \in DOMAIN tr PROVE FedTrail(tr[k], t + 1)
  BY DEF WellFed
<1>1. FedTrail(tr[k], t)
  BY DEF WellFed
<1>2. ASSUME NEW i \in 1 .. Len(tr[k].s) PROVE tr[k].s[i].point \/ tr[k].s[i].t <= t + 1
  <2>1. tr[k].s \in Seq(Sample)
    BY <1>1 DEF FedTrail, Ordered
  <2>2. tr[k].s[i] \in Sample
    BY <2>1
  <2>3. tr[k].s[i].t \in Int
    BY <2>2 DEF Sample
  <2>4. tr[k].s[i].point \/ tr[k].s[i].t <= t
    BY <1>1 DEF FedTrail, Ordered
  <2> QED  BY <2>3, <2>4
<1> QED  BY <1>1, <1>2 DEF FedTrail, Ordered

LEMMA TrailsStep == AgreeInv /\ TrailsInv /\ [Next]_vars => TrailsInv'
<1> SUFFICES ASSUME AgreeInv, TrailsInv, [Next]_vars PROVE TrailsInv'
  OBVIOUS
<1>a. ASSUME UNCHANGED <<trails, now>> PROVE TrailsInv'
  BY <1>a DEF TrailsInv
<1>1. ASSUME NEW b \in BOOLEAN, Reload(b) PROVE TrailsInv'
  <2>1. trails' = << >> /\ now' = now
    BY <1>1 DEF Reload
  <2>2. DOMAIN << >> = {}
    OBVIOUS
  <2> QED  BY <2>1, <2>2 DEF TrailsInv, WellFed
<1>2. ASSUME NEW m \in MessagesOf[link], OnState(m) PROVE TrailsInv'
  <2>1. link \in Hosts
    BY ResolveHost DEF AgreeInv, CopiesInv
  <2>2. m \in Message
    BY <2>1, PageAssumption
  <2>3. trails' = AppendTrails(trails, m, now) /\ now' = now
    BY <1>2 DEF OnState, SetSnapshot
  <2> QED  BY <2>2, <2>3, MessageFed DEF TrailsInv
<1>3. CASE TimePasses
  <2>1. now' = now + 1 /\ trails' = trails
    BY <1>3 DEF TimePasses, rendererVars
  <2> QED  BY <2>1, Later DEF TrailsInv
<1>4. ASSUME NEW b \in BOOLEAN, ResetDefaults(b) \/ \E p \in Patches : Update(p, b) PROVE TrailsInv'
  BY <1>4, <1>a DEF ResetDefaults, Update, Replace, SetSettings
<1>5. ASSUME (\E s \in Sites : EditSite(s)) \/ Reconnect \/ ToggleModal \/ Tick \/ UNCHANGED vars
      PROVE  TrailsInv'
  BY <1>5, <1>a DEF EditSite, Reconnect, ToggleModal, Tick, vars, rendererVars, pageVars
<1>6. ASSUME NEW c, SetFilter(c) PROVE TrailsInv'
  BY <1>6, <1>a DEF SetFilter, rendererVars
<1>7. ASSUME NEW id, Select(id) PROVE TrailsInv'
  BY <1>7, <1>a DEF Select, SetSelected
<1>8. ASSUME NEW st, OnStatus(st) PROVE TrailsInv'
  BY <1>8, <1>a DEF OnStatus, rendererVars
<1> QED  BY <1>1, <1>2, <1>3, <1>4, <1>5, <1>6, <1>7, <1>8 DEF Next, User

LEMMA TrailsImply == TrailsInv => TrailsWellFed
<1> SUFFICES ASSUME TrailsInv, NEW k \in DOMAIN trails, NEW tr, tr = trails[k]
             PROVE  /\ Len(tr.s) \in 1 .. (IF tr.server THEN SERVER_TRAIL_CAP ELSE TRAIL_CAP)
                    /\ tr.server = Last(tr.s).point
                    /\ \A i \in 2 .. Len(tr.s) :
                         /\ tr.s[i - 1].t <= tr.s[i].t
                         /\ tr.s[i - 1].point => tr.s[i].point
  BY DEF TrailsWellFed
<1>1. FedTrail(tr, now)
  BY DEF TrailsInv, WellFed
<1> QED  BY <1>1 DEF FedTrail, Ordered

\* A trail is never empty nor longer than its cap, its times never go back, and
\* from the first trail point on it holds trail points only, whatever the order
\* and the ages of the points that messages bring.
THEOREM Trails == Spec => []TrailsWellFed
<1>1. Init => TrailsInv
  <2> SUFFICES ASSUME Init PROVE TrailsInv
    OBVIOUS
  <2>1. now = 0 /\ trails = << >>
    BY DEF Init, RendererInit
  <2>2. DOMAIN << >> = {}
    OBVIOUS
  <2> QED  BY <2>1, <2>2 DEF TrailsInv, WellFed
<1>2. AgreeInv /\ site \in Sites /\ TrailsInv /\ [Next]_vars => TrailsInv'
  BY TrailsStep
<1> QED  BY <1>1, <1>2, TrailsImply, AgreeAlways, PTL DEF Spec

===============================================================================
