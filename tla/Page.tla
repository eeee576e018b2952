--------------------------------- MODULE Page ---------------------------------
(***************************************************************************)
(* The browser page: main.js wires the settings store (settings.js), the   *)
(* model (model.js), the panels (ui.js), the renderer (TrailRenderer) and  *)
(* the connection (net.js, module Connection).  Each event handler runs to *)
(* completion, with every listener it calls, so each is one action.        *)
(*                                                                         *)
(* Of the connection the page sees the last endpoint it asked for, the     *)
(* status, and states of that endpoint while the status is "open"; module  *)
(* Connection shows that it gets no others.  host and port are one setting *)
(* here; showLabels and showSky travel like showTrails and are left out,   *)
(* and so is what the panels copy from a message without a decision.       *)
(***************************************************************************)
EXTENDS TrailRenderer

CONSTANTS
  Hosts,       \* values of the setting host other than ''
  OwnHost,     \* window.location.hostname
  MaxSeconds,  \* 60: trailSeconds is clamped to 0 .. MaxSeconds
  ListCap,     \* 1000: rows of the object table
  StaleAfter,  \* STALE_THRESHOLD_S, 3
  MessagesOf,  \* external: the state messages the server at each host sends
  Stored,      \* what localStorage may hold: a blob or None, nothing usable
  Sites,       \* what config.toml may say: a record of some settings, valid or not
  Patches,     \* external: what the user's controls pass to update()
  MaxNow,      \* bound: the page's clock
  LastFrame,   \* bound: nothing arrives and no page is loaded later
  MaxFrames,   \* bound: frames received
  MaxActs      \* bound: actions of the user

\* The settings: clampInt(), Boolean() and the tests of applyPatch() leave no
\* other values.
SettingsRecord ==
  [showTrails : BOOLEAN,
   trailSeconds : 0 .. MaxSeconds,
   viewMode : {"orbit", "sat"},
   categories : [Categories -> BOOLEAN],
   host : Hosts \cup {""}]

\* A patch, its values as Number() and Boolean() have converted them; a host
\* that is no string is ignored and left out.
Patch(p) ==
  /\ "showTrails" \in DOMAIN p => p["showTrails"] \in BOOLEAN
  /\ "trailSeconds" \in DOMAIN p => p["trailSeconds"] \in Int \cup {None}
  /\ "categories" \in DOMAIN p =>
       \A c \in DOMAIN p["categories"] : p["categories"][c] \in BOOLEAN
  /\ "host" \in DOMAIN p => p["host"] \in Hosts \cup {""}

ASSUME PageAssumption ==
  /\ OwnHost \in Hosts /\ "" \notin Hosts
  /\ MaxSeconds \in Nat /\ ListCap \in Nat /\ StaleAfter \in Nat
  /\ \A h \in Hosts : MessagesOf[h] \subseteq Message /\ None \notin MessagesOf[h]
  /\ \A p \in (Stored \ {None}) \cup Sites \cup Patches : Patch(p)
  /\ None \notin SettingsRecord /\ None \notin Int
  /\ MaxNow \in Nat /\ LastFrame \in 0 .. MaxNow /\ MaxFrames \in Nat /\ MaxActs \in Nat

VARIABLES
  storage,      \* localStorage[STORAGE_KEY]
  saved,        \* history: the last persist() succeeded
  site,         \* config.toml on the web server
  defaults,     \* effectiveDefaults
  current,      \* current, the settings
  model,        \* the model's fields: None or the last message
  appliedAt,    \* lastAppliedAtMs
  link,         \* currentHost, currentPort; the endpoint the connection was given
  status,       \* statusText
  urlShown,     \* wsUrl
  uiSelected,   \* ui.js selectedId
  filter,       \* currentFilter
  table,        \* the object table: rows, those marked selected, the total
  viewShown,    \* the view buttons and the badge
  modalOpen,    \* the settings modal is not hidden
  form,         \* the fields of the settings form
  stale,        \* staleWarning is not hidden
  now,          \* performance.now()
  frames, acts  \* bounds: frames received, actions of the user

storeVars == <<storage, saved, current>>
panelVars == <<urlShown, viewShown, form>>
dataVars == <<model, appliedAt, table>>
pageVars == <<site, defaults, link, status, uiSelected, filter, modalOpen, stale, now, frames, acts>>
vars == <<rendererVars, storeVars, panelVars, dataVars, pageVars>>

-------------------------------------------------------------------------------
(* Settings.                                                               *)

DEFAULTS == [showTrails |-> FALSE, trailSeconds |-> MaxSeconds, viewMode |-> "orbit",
             categories |-> [c \in Categories |-> TRUE], host |-> ""]

\* clampInt(); None stands for what is not a finite number.
ClampInt(v, lo, hi, fallback) ==
  IF v = None THEN fallback ELSE IF v < lo THEN lo ELSE IF v > hi THEN hi ELSE v

\* applyPatch() for one key.
Coerced(f, old, v) ==
  CASE f = "showTrails"   -> v
    [] f = "trailSeconds" -> ClampInt(v, 0, MaxSeconds, old)
    [] f = "viewMode"     -> IF v \in {"orbit", "sat"} THEN v ELSE old
    [] f = "categories"   -> [c \in Categories |-> IF c \in DOMAIN v THEN v[c] ELSE old[c]]
    [] f = "host"         -> v

\* applyPatch(): keys it does not know are ignored.
ApplyPatch(base, patch) ==
  [f \in DOMAIN base |-> IF f \in DOMAIN patch THEN Coerced(f, base[f], patch[f]) ELSE base[f]]

\* loadSiteConfig(): the keys that config.toml may set, where the value is valid;
\* others are dropped, not clamped.
LoadSiteConfig(s) ==
  Restrict(s, {f \in DOMAIN s \cap {"host", "showTrails", "trailSeconds"} :
                 f = "trailSeconds" => s[f] \in 0 .. MaxSeconds})

\* mergeSiteDefaults(); nothing is merged if config.toml cannot be read.
SiteDefaults(s, read) == IF read THEN ApplyPatch(DEFAULTS, LoadSiteConfig(s)) ELSE DEFAULTS

\* normalize(loadStored(storage), base).
Load(stored, base) == IF stored = None THEN base ELSE ApplyPatch(base, stored)

\* resolveHost() of main.js.
Resolve(st) == IF st.host = "" THEN OwnHost ELSE st.host

-------------------------------------------------------------------------------
(* Panels.                                                                 *)

\* getListRows(): the rows with the lowest ids, and how many there are.
ListRows(msg, f) ==
  LET all == {id \in DOMAIN msg.objects : f = None \/ msg.objects[id] = f}
  IN  [rows |-> Foremost(all, ListCap),
       total |-> Cardinality(all)]

\* renderList(): new rows, marked as they are made.
RenderList(msg, f, sel) ==
  LET list == ListRows(msg, f)
  IN  [rows |-> list.rows, total |-> list.total, marked |-> list.rows \cap {sel}]

EmptyTable == [rows |-> {}, total |-> 0, marked |-> {}]

\* updateViewToggle() and updateViewBadge().
ViewOf(st, msg) ==
  [button |-> st.viewMode,
   badge |-> IF st.viewMode # "sat" THEN "hidden"
             ELSE IF msg # None /\ msg.satellite THEN "nadir" ELSE "awaiting"]

-------------------------------------------------------------------------------
(* Loading the page.                                                       *)

\* boot() with the settings st, up to connect(); config.toml read as `site'.
Boot(st, base) ==
  /\ defaults' = base /\ current' = st
  /\ model' = None /\ appliedAt' = None
  /\ link' = Resolve(st) /\ status' = "connecting" /\ urlShown' = Resolve(st)
  /\ uiSelected' = None /\ filter' = None /\ table' = EmptyTable
  /\ viewShown' = ViewOf(st, None)
  /\ modalOpen' = FALSE /\ form' = st /\ stale' = FALSE

Init ==
  /\ storage \in Stored /\ saved = FALSE /\ site \in Sites
  /\ now = 0 /\ frames = 0 /\ acts = 0
  /\ defaults = SiteDefaults(site, TRUE)
  /\ current = Load(storage, defaults)
  /\ RendererInit(current)
  /\ model = None /\ appliedAt = None
  /\ link = Resolve(current) /\ status = "connecting" /\ urlShown = link
  /\ uiSelected = None /\ filter = None /\ table = EmptyTable
  /\ viewShown = ViewOf(current, None)
  /\ modalOpen = FALSE /\ form = current /\ stale = FALSE

\* The user loads the page anew.
Reload(siteRead) ==
  /\ now <= LastFrame /\ acts < MaxActs
  /\ LET base == SiteDefaults(site, siteRead)
         st   == Load(storage, base)
     IN  /\ Boot(st, base)
         /\ snapshot' = None /\ lastSnapNow' = 0 /\ applied' = st
         /\ trails' = << >> /\ trailBuffer' = {} /\ renderObjects' = {} /\ selectedId' = None
  /\ acts' = acts + 1
  /\ UNCHANGED <<storage, saved, site, now, frames>>

\* The operator edits config.toml.
EditSite(s) ==
  /\ acts < MaxActs
  /\ s # site /\ site' = s
  /\ acts' = acts + 1
  /\ UNCHANGED <<rendererVars, storeVars, panelVars, dataVars, defaults, link, status,
                 uiSelected, filter, modalOpen, stale, now, frames>>

-------------------------------------------------------------------------------
(* Settings store and its listeners.                                       *)

\* Wrong: the connection is moved, the label of its address is left behind.
Relink_silently(st) ==
  IF Resolve(st) # link
  THEN link' = Resolve(st) /\ status' = "connecting" /\ UNCHANGED urlShown
  ELSE UNCHANGED <<link, status, urlShown>>

\* setEndpoint(), if the endpoint is another one; it reports "connecting".
Relink(st) ==
  IF Resolve(st) # link
  THEN link' = Resolve(st) /\ status' = "connecting" /\ urlShown' = Resolve(st)
  ELSE UNCHANGED <<link, status, urlShown>>

\* current is replaced, persist() stores it if it can, and in either case the
\* listeners of ui.js and main.js are called.
Replace(st, stores) ==
  /\ current' = st
  /\ storage' = IF stores THEN st ELSE storage
  /\ saved' = stores
  /\ form' = IF modalOpen THEN st ELSE form
  /\ viewShown' = ViewOf(st, model)
  /\ SetSettings(st)
  /\ Relink(st)

\* A control of the settings form, a view button or the key v.
Update(patch, stores) ==
  /\ acts < MaxActs /\ acts' = acts + 1
  /\ modalOpen \/ "viewMode" \in DOMAIN patch
  /\ Replace(ApplyPatch(current, patch), stores)
  /\ UNCHANGED <<dataVars, site, defaults, uiSelected, filter, modalOpen, stale, now, frames>>

\* The button "Reset to defaults".
ResetDefaults(stores) ==
  /\ acts < MaxActs /\ acts' = acts + 1
  /\ modalOpen
  /\ Replace(defaults, stores)
  /\ UNCHANGED <<dataVars, site, defaults, uiSelected, filter, modalOpen, stale, now, frames>>

\* The button "Reconnect".
Reconnect ==
  /\ acts < MaxActs /\ acts' = acts + 1
  /\ modalOpen
  /\ link' = Resolve(current) /\ status' = "connecting" /\ urlShown' = Resolve(current)
  /\ UNCHANGED <<rendererVars, storeVars, viewShown, form, dataVars, site, defaults,
                 uiSelected, filter, modalOpen, stale, now, frames>>

-------------------------------------------------------------------------------
(* Other controls.                                                         *)

\* The settings modal is opened, with syncSettingsForm(), or closed.
ToggleModal ==
  /\ modalOpen' = ~modalOpen
  /\ form' = IF modalOpen THEN form ELSE current
  /\ UNCHANGED <<rendererVars, storeVars, urlShown, viewShown, dataVars, site, defaults, link,
                 status, uiSelected, filter, stale, now, frames, acts>>

\* A chip is clicked: the list is made again if there is one.
SetFilter(f) ==
  /\ acts < MaxActs /\ acts' = acts + 1
  /\ filter' = f
  /\ table' = IF model = None THEN table ELSE RenderList(model, f, uiSelected)
  /\ UNCHANGED <<rendererVars, storeVars, panelVars, model, appliedAt, site, defaults, link,
                 status, uiSelected, modalOpen, stale, now, frames>>

\* Both components are told of a selection, whichever of them it was made in: a
\* row of the table, or what pick() found under the pointer.
Select(id) ==
  /\ acts < MaxActs /\ acts' = acts + 1
  /\ id \in table.rows \cup Pickable
  /\ uiSelected' = id
  /\ table' = [table EXCEPT !.marked = table.rows \cap {id}]
  /\ SetSelected(id)
  /\ UNCHANGED <<storeVars, panelVars, model, appliedAt, site, defaults, link, status, filter,
                 modalOpen, stale, now, frames>>

-------------------------------------------------------------------------------
(* Events of the connection and of the clock.                              *)

\* onState(): the model, the renderer and the panels, in this order.
OnState(msg) ==
  /\ status = "open" /\ frames < MaxFrames /\ now <= LastFrame
  /\ frames' = frames + 1
  /\ model' = msg /\ appliedAt' = now
  /\ SetSnapshot(msg, now)
  /\ table' = RenderList(msg, filter, uiSelected)
  /\ viewShown' = ViewOf(current, msg)
  /\ UNCHANGED <<storeVars, urlShown, form, site, defaults, link, status, uiSelected, filter,
                 modalOpen, stale, now, acts>>

\* onStatus().
OnStatus(st) ==
  /\ st # status /\ (status = "closed" => st = "connecting")
  /\ st = "connecting" => status = "closed"
  /\ status' = st /\ urlShown' = link
  /\ UNCHANGED <<rendererVars, storeVars, viewShown, form, dataVars, site, defaults, link,
                 uiSelected, filter, modalOpen, stale, now, frames, acts>>

\* Wrong: an open connection is never called stalled.
Stalled_ifClosed == model # None /\ status # "open" /\ now - appliedAt > StaleAfter

Stalled == model # None /\ now - appliedAt > StaleAfter

\* tick(), every second.
Tick ==
  /\ stale' = Stalled
  /\ UNCHANGED <<rendererVars, storeVars, panelVars, dataVars, site, defaults, link, status,
                 uiSelected, filter, modalOpen, now, frames, acts>>

TimePasses ==
  /\ now < MaxNow
  /\ now' = now + 1
  /\ UNCHANGED <<rendererVars, storeVars, panelVars, dataVars, site, defaults, link, status,
                 uiSelected, filter, modalOpen, stale, frames, acts>>

-------------------------------------------------------------------------------
\* The user and the operator.
User ==
  \/ \E b \in BOOLEAN : Reload(b) \/ ResetDefaults(b)
  \/ \E s \in Sites : EditSite(s)
  \/ \E p \in Patches, b \in BOOLEAN : Update(p, b)
  \/ Reconnect \/ ToggleModal
  \/ \E c \in Categories \cup {None} : SetFilter(c)
  \/ \E id \in Ids \cup {SatId, None} : Select(id)

Next ==
  \/ User
  \/ \E m \in MessagesOf[link] : OnState(m)
  \/ \E st \in {"connecting", "open", "closed"} : OnStatus(st)
  \/ Tick
  \/ TimePasses

Spec == Init /\ [][Next]_vars

\* Time passes and the browser fires the interval timer.
FairSpec == Spec /\ WF_vars(Tick) /\ WF_vars(TimePasses)

-------------------------------------------------------------------------------
(* Properties.                                                             *)

\* Whatever order settings, loads, resets and connection events come in, every
\* copy of the settings agrees: the renderer's, the view buttons', the open
\* form's, the endpoint of the connection and its label (main.js:133-154, ui.js:
\* 288-293); and, unless localStorage refused the last change, the next load
\* starts with them whatever config.toml has come to say (frontend/config.toml:9-11).
SettingsAgree ==
  /\ applied = current /\ viewShown.button = current.viewMode
  /\ link = Resolve(current) /\ urlShown = link
  /\ modalOpen => form = current
  /\ saved => \A s \in Sites, read \in BOOLEAN : Load(storage, SiteDefaults(s, read)) = current

\* The panels and the renderer, told separately, show the same data and the same
\* selection at any time: the table is that of the last message under the filter,
\* with the selected row marked, the buffers are those of the last message and
\* the settings, and the badge announces the satellite's view exactly while the
\* renderer takes it (ui.js:181-190, renderer.js:1371-1432).
PanelCurrent ==
  /\ model = snapshot /\ uiSelected = selectedId
  /\ table = IF model = None THEN EmptyTable ELSE RenderList(model, filter, uiSelected)
  /\ (viewShown.badge = "nadir") = Fisheye
  /\ BuffersCurrent

\* When messages stop, as they do after LastFrame, the page says so in the end
\* and goes on saying so, if it ever had one (docs/PROTOCOL_WS.md:106-108).
StaleNoticed == <>[](model # None => stale)

-------------------------------------------------------------------------------
(* Strengthening: with the properties above, what every step preserves.     *)

\* The settings are valid wherever they are kept, and what was saved last is
\* what they are.
CopiesInv ==
  /\ current \in SettingsRecord /\ defaults \in SettingsRecord
  /\ storage \in Stored \cup SettingsRecord
  /\ saved => storage = current
  /\ viewShown = ViewOf(current, model)
  /\ model = None \/ \E h \in Hosts : model \in MessagesOf[h]

\* Samples of positions are none of the future, so that the next one is not
\* earlier; trail points may be.
TrailsInv == now \in Nat /\ WellFed(trails, now)

===============================================================================
