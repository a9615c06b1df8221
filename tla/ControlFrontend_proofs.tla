------------------------ MODULE ControlFrontend_proofs ------------------------
(***************************************************************************)
(* Theorems about ControlFrontend, for any groups, projects, runs and       *)
(* bounds, and whichever query is followed: nothing is left of a user who   *)
(* has signed out (SignInv), how the values of an edit form come to stand   *)
(* under another group (PageInv), what a user has changed is refetched      *)
(* (OwnInv), and types (RestOK with the others).                            *)
(***************************************************************************)
EXTENDS ControlFrontend, SequenceTheorems, TLAPS

Entry == [data : {"none", "current", "old"},
          flight : {"idle", "asked", "current", "old", "refused"},
          tries : 0 .. 1, error : BOOLEAN, missed : BOOLEAN]

CacheOK == cache \in [{useMe, bound.key} -> Entry]

LEMMA AskedEntry ==
    ASSUME NEW e \in Entry
    PROVE  /\ Asked(e) \in Entry /\ Asked(e).data = e.data /\ Asked(e).flight = "asked"
           /\ Asked(e).error = (e.error /\ e.data # "none")
<1> DEFINE b == e.error /\ e.data # "none"
           e1 == [e EXCEPT !.flight = "asked"]
<1>1. e1 \in Entry /\ e1.data = e.data /\ e1.flight = "asked"
  BY DEF Entry
<1> HIDE DEF e1
<1> DEFINE e2 == [e1 EXCEPT !.tries = 0]
<1>2. e2 \in Entry /\ e2.data = e.data /\ e2.flight = "asked"
  BY <1>1 DEF Entry
<1>3. b \in BOOLEAN
  OBVIOUS
<1> HIDE DEF b, e2
<1> DEFINE e3 == [e2 EXCEPT !.error = b]
<1>4. e3 \in Entry /\ e3.data = e.data /\ e3.flight = "asked" /\ e3.error = b
  BY <1>2, <1>3 DEF Entry
<1> HIDE DEF e3
<1>5. e3 = Asked(e)
  BY Zenon DEF e1, e2, e3, b, Asked
<1> QED
  BY <1>4, <1>5, Zenon DEF b

LEMMA OutdatedEntry ==
    ASSUME NEW e \in Entry
    PROVE  /\ Outdated(e) \in Entry /\ (Outdated(e).data = "none" <=> e.data = "none")
           /\ e.flight \in {"idle", "asked", "refused"} => Outdated(e).flight = e.flight
           /\ Outdated(e).error = e.error
<1> DEFINE d == IF e.data = "current" THEN "old" ELSE e.data
           f == IF e.flight = "current" THEN "old" ELSE e.flight
<1>1. /\ d \in {"none", "current", "old"} /\ (d = "none" <=> e.data = "none")
      /\ f \in {"idle", "asked", "current", "old", "refused"}
      /\ e.flight \in {"idle", "asked", "refused"} => f = e.flight
  BY DEF Entry
<1> HIDE DEF d, f
<1> DEFINE e1 == [e EXCEPT !.data = d]
<1>2. e1 \in Entry /\ e1.data = d /\ e1.flight = e.flight /\ e1.error = e.error
  BY <1>1 DEF Entry
<1> HIDE DEF e1
<1> DEFINE e2 == [e1 EXCEPT !.flight = f]
<1>3. e2 \in Entry /\ e2.data = d /\ e2.flight = f /\ e2.error = e.error
  BY <1>1, <1>2 DEF Entry
<1> HIDE DEF e2
<1>4. e2 = Outdated(e)
  BY Zenon DEF e1, e2, d, f, Outdated
<1> QED
  BY <1>1, <1>3, <1>4, Zenon

LEMMA FetchedEntry ==
    ASSUME NEW e \in Entry
    PROVE  /\ Fetched(e) \in Entry /\ Fetched(e).data = e.data
           /\ e.flight = "idle" => Fetched(e) = Asked(e)
           /\ e.flight # "idle" => Fetched(e).flight = e.flight /\ Fetched(e).error = e.error
<1>1. CASE e.flight = "idle"
  BY <1>1, AskedEntry DEF Fetched
<1>2. CASE e.flight # "idle"
  <2> DEFINE b == e.missed \/ e.flight = "old"
  <2>1. b \in BOOLEAN
    OBVIOUS
  <2>2. Fetched(e) = [e EXCEPT !.missed = b]
    BY <1>2, Zenon DEF Fetched
  <2> HIDE DEF b
  <2> DEFINE g == [e EXCEPT !.missed = b]
  <2>3. g \in Entry /\ g.data = e.data /\ g.flight = e.flight /\ g.error = e.error
    BY <2>1 DEF Entry
  <2> HIDE DEF g
  <2>4. g = Fetched(e)
    BY <2>2, Zenon DEF g
  <2> QED
    BY <1>2, <2>3, <2>4, Zenon
<1> QED  BY <1>1, <1>2

(* What can happen to an entry of the cache keeps its type, does not load
   what is not loaded, and does not touch what the gate looks at. *)
Keeps(e, f) ==
    /\ f \in Entry
    /\ e.data = "none" => f.data = "none"
    /\ e.flight \in {"idle", "asked", "refused"} => f.flight \in {"idle", "asked", "refused"}
    /\ Passes(f) <=> Passes(e)

LEMMA EntrySteps ==
    ASSUME NEW e \in Entry, NEW q
    PROVE  /\ Keeps(e, e) /\ Keeps(e, Asked(e)) /\ Keeps(e, Fetched(e))
           /\ Keeps(e, Mounted(q, e)) /\ Keeps(e, Refetched(e)) /\ Keeps(e, Outdated(e))
<1>1. Keeps(e, e) /\ Keeps(e, Asked(e))
  BY AskedEntry, Zenon DEF Keeps, Passes
<1>2. Keeps(e, Outdated(e))
  BY OutdatedEntry, Zenon DEF Keeps, Passes
<1>3. Keeps(e, Fetched(e))
  BY <1>1, FetchedEntry, Zenon DEF Keeps, Passes
<1>4. Mounted(q, e) \in {e, Fetched(e)} /\ Refetched(e) \in {Asked(e), Fetched(e)}
  BY Zenon DEF Mounted, Refetched
<1> QED  BY <1>1, <1>2, <1>3, <1>4

-----------------------------------------------------------------------------
(* The locations are those of the routes, or the login page with one of them
   to go back to. *)
LocationOK == loc \in Locations \cup {Login(l) : l \in Locations}

(* An edit form is open only on a page that is on the screen. *)
FormInv == edit # None => Open(cache, loc, frozen)

(* Since the user signed out there is no session, nothing is loaded and no
   answer with data is on its way; the gate lets nothing through but the page
   that was open. *)
Clear(e) == e.data = "none" /\ e.flight \in {"idle", "asked", "refused"}

SignInv ==
    left # None =>
       /\ session = "out"
       /\ \A q \in {useMe, bound.key} : Clear(cache[q])
       /\ frozen = "page" /\ ~AtLogin(loc) => Path(loc) = Path(left)

PageInv == CacheOK /\ LocationOK /\ FormInv

LEMMA LocationKinds ==
    ASSUME NEW l \in Locations
    PROVE  /\ l[1] \notin {"login", "nothing"}
           /\ l[1] = "group" => l \in GroupPages /\ l[2] \in Group /\ l = GroupAt(l[2])
           /\ l[1] = "projects" => l[2] \in Filters
           /\ l[1] \in {"project", "jobs", "runs", "run", "nodes", "dsns"} => l[2] \in Project
           /\ l[1] \in {"overview", "groups", "group", "projects", "project", "jobs", "runs",
                        "run", "nodes", "dsns"}
BY DEF Locations, Overview, Groups, GroupPages, GroupAt, Projects, ProjectPages, ProjectAt,
       JobsOf, RunsOf, NodesOf, DsnsOf, RunPages, RunAt

LEMMA KnownLocations ==
    /\ Overview \in Locations /\ Groups \in Locations
    /\ \A g \in Group : GroupAt(g) \in Locations
    /\ \A f \in Filters : Projects(f) \in Locations
    /\ \A p \in Project : /\ ProjectAt(p) \in Locations /\ JobsOf(p) \in Locations
                          /\ RunsOf(p) \in Locations /\ NodesOf(p) \in Locations
                          /\ DsnsOf(p) \in Locations
                          /\ \A r \in Run : RunAt(p, r) \in Locations
BY DEF Locations, GroupPages, ProjectPages, RunPages

(* Every link leads to a location. *)
LEMMA FixedTargets ==
    ASSUME NEW S, NEW link \in Fixed(S)
    PROVE  link.to \in S
BY DEF Fixed

LEMMA RowsTargets ==
    ASSUME NEW S, NEW key, NEW link \in Rows(key, S)
    PROVE  link.to \in S
BY DEF Rows

LEMMA Links ==
    ASSUME NEW l \in Locations, NEW page \in {TopBar, Sidebar(projectId(l)), Route(l)},
           NEW link \in page.links
    PROVE  link.to \in Locations
<1> USE KnownLocations, LocationKinds, FixedTargets, RowsTargets
<1>1. CASE page = TopBar
  BY <1>1 DEF TopBar, Page
<1>2. CASE page = Sidebar(projectId(l))
  <2>1. projectId(l) # "" => projectId(l) \in Project
    BY DEF projectId
  <2>2. page.links = Fixed(IF projectId(l) = "" THEN {Overview, Groups, Projects("all")}
                           ELSE {ProjectAt(projectId(l)), JobsOf(projectId(l)), RunsOf(projectId(l)),
                                 NodesOf(projectId(l)), DsnsOf(projectId(l)), Projects("all")})
    BY <1>2 DEF Sidebar, Page
  <2>3. Projects("all") \in Locations
    BY DEF Filters
  <2>4. CASE projectId(l) = ""
    <3>1. link.to \in {Overview, Groups, Projects("all")}
      BY <2>2, <2>4
    <3> QED
      BY <2>3, <3>1
  <2>5. CASE projectId(l) # ""
    <3>1. link.to \in {ProjectAt(projectId(l)), JobsOf(projectId(l)), RunsOf(projectId(l)),
                       NodesOf(projectId(l)), DsnsOf(projectId(l)), Projects("all")}
      BY <2>2, <2>5
    <3> QED
      BY <2>1, <2>3, <2>5, <3>1
  <2> QED
    BY <2>4, <2>5
<1>3. CASE page = Route(l)
  <2>1. CASE l[1] = "overview"
    <3>1. page.links = Fixed({Projects("all")}) \cup Rows(useProjects("all"), ProjectPages)
      BY <1>3, <2>1 DEF Route, GlobalOverviewPage, Page
    <3> QED
      BY <3>1 DEF Filters, ProjectPages
  <2>2. CASE l[1] = "groups"
    <3>1. page.links = GroupNodeRow \cup Rows(useProjects("root"), ProjectPages)
      BY <1>3, <2>2 DEF Route, GroupsListPage, Page
    <3> QED
      BY <3>1 DEF GroupNodeRow, GroupPages, ProjectPages
  <2>3. CASE l[1] = "group"
    <3>1. page.links = Breadcrumbs(l[2]) \cup Subgroups(l[2]) \cup ProjectsIn(l[2])
      BY <1>3, <2>3 DEF Route, GroupDetailPage, Page
    <3> QED
      BY <3>1 DEF Breadcrumbs, Subgroups, ProjectsIn, GroupPages, ProjectPages
  <2>4. CASE l[1] = "projects"
    <3>1. page.links = Fixed({Projects("all"), Projects("root")})
            \cup Rows(useGroups, {Projects(g) : g \in Group})
            \cup Rows(useProjects(l[2]), ProjectPages \cup GroupPages)
      BY <1>3, <2>4 DEF Route, ProjectsListPage, Page
    <3>2. /\ {Projects("all"), Projects("root")} \subseteq Locations
          /\ {Projects(g) : g \in Group} \subseteq Locations
          /\ ProjectPages \cup GroupPages \subseteq Locations
      BY DEF Filters, GroupPages, ProjectPages
    <3> QED
      BY <3>1, <3>2
  <2>5. CASE l[1] = "project"
    <3>1. page.links = Fixed({RunsOf(l[2])}) \cup Rows(useProjectRuns(l[2], "8"), RunPages(l[2]))
      BY <1>3, <2>5 DEF Route, ProjectOverviewPage, Page
    <3> QED
      BY <2>5, <3>1 DEF RunPages
  <2>6. CASE l[1] = "runs"
    <3>1. page.links = Rows(useProjectRuns(l[2], "100"), RunPages(l[2]))
      BY <1>3, <2>6 DEF Route, RunsPage, Page
    <3> QED
      BY <2>6, <3>1 DEF RunPages
  <2>7. CASE l[1] = "run"
    <3>1. page.links = Fixed({RunsOf(l[2])})
      BY <1>3, <2>7 DEF Route, RunDetailPage, Page
    <3> QED
      BY <2>7, <3>1
  <2>8. CASE l[1] \in {"jobs", "nodes", "dsns"}
    <3>1. page.links = {}
      BY <1>3, <2>8 DEF Route, JobsPage, NodesPage, DsnsPage, Page
    <3> QED
      BY <3>1
  <2> QED
    BY <2>1, <2>2, <2>3, <2>4, <2>5, <2>6, <2>7, <2>8
<1> QED
  BY <1>1, <1>2, <1>3

-----------------------------------------------------------------------------
(* A rendering: what it makes of the cache, and what has to be so for an edit
   form to survive it. *)
LEMMA Rendering ==
    ASSUME CacheOK, bound' = bound,
           NEW c \in [{useMe, bound.key} -> Entry], NEW l, NEW f, NEW p, NEW ed,
           Render(c, l, f, p, ed)
    PROVE  /\ loc' = l /\ frozen' = f /\ CacheOK'
           /\ \A q \in {useMe, bound.key} : Keeps(c[q], cache'[q])
           /\ Open(cache', l, f) <=> Open(c, l, f)
           /\ edit' # None => /\ edit' = ed
                              /\ Shown(cache, loc, frozen) = Shown(c, l, f)
<1>1. /\ loc' = l /\ frozen' = f
      /\ edit' # None => edit' = ed /\ Shown(cache, loc, frozen) = Shown(c, l, f)
  BY DEF Render, Form
<1>2. \A q \in {useMe, bound.key} : cache'[q] \in {c[q], Mounted(q, c[q])}
  BY DEF Render
<1>3. \A q \in {useMe, bound.key} : Keeps(c[q], cache'[q])
  BY <1>2, EntrySteps
<1>4. CacheOK'
  <2>1. DOMAIN cache' = {useMe, bound.key} /\ cache' = [q \in DOMAIN cache' |-> cache'[q]]
    BY DEF Render
  <2>2. \A q \in {useMe, bound.key} : cache'[q] \in Entry
    BY <1>3 DEF Keeps
  <2> QED
    BY <2>1, <2>2 DEF CacheOK, useMe
<1>5. Open(cache', l, f) <=> Open(c, l, f)
  BY <1>3, Zenon DEF Open, Keeps
<1> QED
  BY <1>1, <1>3, <1>4, <1>5

(* The three facts about a step that does not render: the page stays. *)
LEMMA Unrendered ==
    ASSUME PageInv, CacheOK', UNCHANGED <<loc, frozen, edit>>,
           Passes(cache'[useMe]) <=> Passes(cache[useMe])
    PROVE  PageInv' /\ (Stray(loc, edit)' => Stray(loc, edit))
<1>1. Open(cache, loc, frozen)' <=> Open(cache, loc, frozen)
  BY Zenon DEF Open
<1>2. LocationOK'
  BY DEF PageInv, LocationOK
<1> QED
  BY <1>1, <1>2, Zenon DEF PageInv, FormInv, Stray

(* And about one that does: an open form has come with its page. *)
StraysByLink ==
    Stray(loc, edit)' => \/ Stray(loc, edit)
                         \/ loc = GroupAt(edit) /\ loc' \in GroupPages

LEMMA Rerendered ==
    ASSUME PageInv, bound' = bound,
           NEW c \in [{useMe, bound.key} -> Entry],
           NEW l \in Locations \cup {Login(m) : m \in Locations},
           NEW f, NEW p, NEW ed \in {edit, None},
           Render(c, l, f, p, ed)
    PROVE  PageInv' /\ StraysByLink
<1>1. /\ loc' = l /\ frozen' = f /\ CacheOK'
      /\ Open(cache', l, f) <=> Open(c, l, f)
      /\ edit' # None => /\ edit' = edit
                         /\ Shown(cache, loc, frozen) = Shown(c, l, f)
  BY Rendering DEF PageInv
<1>2. LocationOK'
  BY <1>1 DEF LocationOK
<1>3. ASSUME edit' # None
      PROVE  /\ edit' = edit /\ Open(cache, loc, frozen) /\ Open(c, l, f) /\ l[1] = loc[1]
             /\ loc \in Locations /\ l \in Locations
  <2>1. edit' = edit /\ Open(cache, loc, frozen)
    BY <1>1, <1>3 DEF PageInv, FormInv
  <2>2. loc \in Locations /\ Shown(cache, loc, frozen) = loc[1]
    BY <2>1 DEF PageInv, LocationOK, Open, Shown, AtLogin, Login
  <2>3. loc[1] \notin {"login", "nothing"} /\ Shown(c, l, f) = loc[1]
    BY <1>1, <1>3, <2>2, LocationKinds
  <2>4. Open(c, l, f) /\ l[1] = loc[1]
    BY <2>3 DEF Shown
  <2> QED
    BY <2>1, <2>2, <2>4 DEF Open, AtLogin, Login
<1>4. FormInv'
  BY <1>1, <1>3 DEF FormInv
<1>5. StraysByLink
  <2> SUFFICES ASSUME Stray(loc, edit)', ~Stray(loc, edit)
               PROVE  loc = GroupAt(edit) /\ loc' \in GroupPages
    BY DEF StraysByLink
  <2>1. edit' # None
    BY DEF Stray
  <2>2. loc = GroupAt(edit)
    BY <1>3, <2>1 DEF Stray
  <2>3. l[1] = "group"
    BY <1>3, <2>1, <2>2 DEF GroupAt
  <2> QED
    BY <1>1, <1>3, <2>1, <2>2, <2>3, LocationKinds
<1> QED
  BY <1>1, <1>2, <1>4, <1>5 DEF PageInv

-----------------------------------------------------------------------------
(* The steps that do not render, by what they do to the cache: an answer is
   made, an entry is replaced, or some are marked. *)
LEMMA FlightEntry ==
    ASSUME NEW e \in Entry, NEW x \in {"idle", "asked", "current", "old", "refused"}
    PROVE  LET g == [e EXCEPT !.flight = x]
           IN  g \in Entry /\ g.data = e.data /\ g.flight = x /\ g.error = e.error
BY DEF Entry

LEMMA ServedCache ==
    ASSUME CacheOK, bound' = bound, NEW q \in DOMAIN cache,
           NEW x \in {"idle", "asked", "current", "old", "refused"},
           cache' = [cache EXCEPT ![q].flight = x]
    PROVE  /\ CacheOK'
           /\ \A k \in {useMe, bound.key} : /\ cache'[k].data = cache[k].data
                                            /\ cache'[k].error = cache[k].error
           /\ cache'[q].flight = x /\ \A k \in {useMe, bound.key} \ {q} : cache'[k] = cache[k]
<1> DEFINE g == [cache[q] EXCEPT !.flight = x]
<1>1. q \in {useMe, bound.key} /\ cache[q] \in Entry
  BY DEF CacheOK
<1>2. g \in Entry /\ g.data = cache[q].data /\ g.flight = x /\ g.error = cache[q].error
  BY <1>1, FlightEntry
<1>3. cache' = [cache EXCEPT ![q] = g]
  OBVIOUS
<1> HIDE DEF g
<1> QED
  BY <1>1, <1>2, <1>3 DEF CacheOK, useMe

LEMMA MappedCache ==
    ASSUME CacheOK, bound' = bound, DOMAIN cache' = DOMAIN cache,
           cache' = [q \in DOMAIN cache |-> cache'[q]],
           \A q \in {useMe, bound.key} : Keeps(cache[q], cache'[q])
    PROVE  CacheOK' /\ (Passes(cache'[useMe]) <=> Passes(cache[useMe]))
<1>1. Passes(cache'[useMe]) <=> Passes(cache[useMe])
  BY Zenon DEF Keeps
<1>2. \A q \in {useMe, bound.key} : cache'[q] \in Entry
  BY DEF Keeps
<1> QED
  BY <1>1, <1>2 DEF CacheOK, useMe

LEMMA MarkedCache ==
    ASSUME NEW D, NEW c \in [D -> Entry], NEW keys
    PROVE  /\ Mark(c, keys) \in [D -> Entry]
           /\ \A q \in D : Keeps(c[q], Mark(c, keys)[q])
<1>1. \A q \in D : Mark(c, keys)[q] \in {c[q], Outdated(c[q])}
  BY DEF Mark
<1>2. \A q \in D : Keeps(c[q], Mark(c, keys)[q])
  BY <1>1, EntrySteps
<1>3. Mark(c, keys) = [q \in D |-> Mark(c, keys)[q]]
  BY DEF Mark
<1>4. \A q \in D : Mark(c, keys)[q] \in Entry
  BY <1>2 DEF Keeps
<1> QED
  BY <1>2, <1>3, <1>4

LEMMA MissedEntry ==
    ASSUME NEW e \in Entry, NEW b \in BOOLEAN
    PROVE  LET g == [e EXCEPT !.missed = b]
           IN  /\ Keeps(e, g) /\ g.missed = b
               /\ g.data = e.data /\ g.flight = e.flight /\ g.error = e.error
<1> DEFINE g == [e EXCEPT !.missed = b]
<1>1. /\ g \in Entry /\ g.missed = b
      /\ g.data = e.data /\ g.flight = e.flight /\ g.error = e.error
  BY DEF Entry
<1> HIDE DEF g
<1>2. Keeps(e, g)
  BY <1>1, Zenon DEF Keeps, Passes
<1> QED
  BY <1>1, <1>2 DEF g

(* The entry when an answer, or its failure, has arrived. *)
Arrived(q, e) ==
    IF e.flight = "refused"
    THEN IF e.tries < Retries(q) THEN [e EXCEPT !.flight = "asked", !.tries = 1]
         ELSE [e EXCEPT !.flight = "idle", !.error = TRUE]
    ELSE [data |-> e.flight, flight |-> "idle", tries |-> 0, error |-> FALSE,
          missed |-> e.missed /\ e.flight = "old"]

LEMMA ArrivedEntry ==
    ASSUME NEW e \in Entry, NEW q, e.flight \in {"current", "old", "refused"}
    PROVE  /\ Arrived(q, e) \in Entry
           /\ e.flight = "refused" => /\ Arrived(q, e).data = e.data
                                      /\ Arrived(q, e).flight \in {"idle", "asked"}
<1>1. CASE e.flight = "refused" /\ e.tries < Retries(q)
  <2> DEFINE e1 == [e EXCEPT !.flight = "asked"]
  <2>1. e1 \in Entry /\ e1.data = e.data /\ e1.flight = "asked"
    BY DEF Entry
  <2> HIDE DEF e1
  <2> DEFINE e2 == [e1 EXCEPT !.tries = 1]
  <2>2. e2 \in Entry /\ e2.data = e.data /\ e2.flight = "asked"
    BY <2>1 DEF Entry
  <2> HIDE DEF e2
  <2>3. e2 = Arrived(q, e)
    BY <1>1, Zenon DEF e1, e2, Arrived
  <2> QED
    BY <2>2, <2>3
<1>2. CASE e.flight = "refused" /\ ~(e.tries < Retries(q))
  <2> DEFINE e1 == [e EXCEPT !.flight = "idle"]
  <2>1. e1 \in Entry /\ e1.data = e.data /\ e1.flight = "idle"
    BY DEF Entry
  <2> HIDE DEF e1
  <2> DEFINE e2 == [e1 EXCEPT !.error = TRUE]
  <2>2. e2 \in Entry /\ e2.data = e.data /\ e2.flight = "idle"
    BY <2>1 DEF Entry
  <2> HIDE DEF e2
  <2>3. e2 = Arrived(q, e)
    BY <1>2, Zenon DEF e1, e2, Arrived
  <2> QED
    BY <2>2, <2>3
<1>3. CASE e.flight # "refused"
  <2> DEFINE b == e.missed /\ e.flight = "old"
  <2>1. b \in BOOLEAN
    OBVIOUS
  <2>2. Arrived(q, e) = [data |-> e.flight, flight |-> "idle", tries |-> 0, error |-> FALSE,
                         missed |-> b]
    BY <1>3, Zenon DEF Arrived
  <2> HIDE DEF b
  <2> QED
    BY <1>3, <2>1, <2>2 DEF Entry
<1> QED
  BY <1>1, <1>2, <1>3

LEMMA ArriveRenders ==
    ASSUME CacheOK, NEW q \in DOMAIN cache, Arrive(q)
    PROVE  LET c == [cache EXCEPT ![q] = Arrived(q, cache[q])]
           IN  /\ c \in [{useMe, bound.key} -> Entry]
               /\ Render(c, loc, frozen, pending, edit)
               /\ UNCHANGED <<bound, used, session, gone, left>>
<1>1. /\ cache[q].flight \in {"current", "old", "refused"}
      /\ UNCHANGED <<bound, used, session, gone, left>>
  BY DEF Arrive
<1>2. Render([cache EXCEPT ![q] = Arrived(q, cache[q])], loc, frozen, pending, edit)
  BY Zenon DEF Arrive, Arrived
<1>3. cache[q] \in Entry
  BY DEF CacheOK
<1> QED
  BY <1>1, <1>2, <1>3, ArrivedEntry DEF CacheOK

(* What the answer to a login makes of the cache. *)
LEMMA LoggedInRenders ==
    ASSUME CacheOK, NEW s, LoggedIn(s)
    PROVE  \E c \in [{useMe, bound.key} -> Entry] :
              /\ Render(c, loc, frozen, Freed(s), edit)
              /\ \A q \in {bound.key} \ {useMe} : c[q] = cache[q]
<1> DEFINE d == IF session = "in" THEN "current" ELSE "old"
           e1 == [cache[useMe] EXCEPT !.data = d]
           e2 == [e1 EXCEPT !.error = FALSE]
<1>1. cache[useMe] \in Entry /\ d \in {"none", "current", "old"}
  BY DEF CacheOK
<1> HIDE DEF d
<1>2. e1 \in Entry
  BY <1>1 DEF Entry
<1>3. [cache EXCEPT ![useMe].data = d, ![useMe].error = FALSE]
         = [cache EXCEPT ![useMe] = e2]
  <2> DEFINE c1 == [cache EXCEPT ![useMe] = e1]
  <2>1. c1[useMe] = e1 /\ [c1 EXCEPT ![useMe] = e2] = [cache EXCEPT ![useMe] = e2]
    <3> HIDE DEF e1, e2
    <3> QED
      BY DEF CacheOK
  <2>2. [cache EXCEPT ![useMe].data = d, ![useMe].error = FALSE]
           = [c1 EXCEPT ![useMe] = [c1[useMe] EXCEPT !.error = FALSE]]
    BY Zenon
  <2> HIDE DEF c1, e1
  <2> QED
    BY <2>1, <2>2, Zenon
<1> HIDE DEF e1
<1>4. e2 \in Entry
  BY <1>2 DEF Entry
<1> HIDE DEF e2
<1>5. /\ [cache EXCEPT ![useMe] = e2] \in [{useMe, bound.key} -> Entry]
      /\ \A q \in {bound.key} \ {useMe} : [cache EXCEPT ![useMe] = e2][q] = cache[q]
  BY <1>4 DEF CacheOK
<1>6. Render([cache EXCEPT ![useMe].data = d, ![useMe].error = FALSE],
             loc, frozen, Freed(s), edit)
  BY Zenon DEF LoggedIn, d
<1> QED
  BY <1>3, <1>5, <1>6

(* And the answer to any other mutation, whose refetches load nothing. *)
Invalidated(m, q, e) ==
    IF ~Watched(q) THEN e
    ELSE IF Invalidates(m, q) THEN Refetched(e)
    ELSE [e EXCEPT !.missed = e.missed \/ (Diverted(m) /\ q \in Changes(m))]

LEMMA InvalidatedEntry ==
    ASSUME NEW e \in Entry, NEW m, NEW q
    PROVE  Keeps(e, Invalidated(m, q, e))
<1> DEFINE b == e.missed \/ (Diverted(m) /\ q \in Changes(m))
<1>1. b \in BOOLEAN
  OBVIOUS
<1> HIDE DEF b
<1>2. Invalidated(m, q, e) \in {e, Refetched(e), [e EXCEPT !.missed = b]}
  BY Zenon DEF Invalidated, b
<1> QED
  BY <1>1, <1>2, EntrySteps, MissedEntry

LEMMA SucceededRenders ==
    ASSUME CacheOK, NEW s, Succeeded(s)
    PROVE  \E c \in [{useMe, bound.key} -> Entry], l \in {loc, Groups}, f \in {frozen, "no"},
              ed \in {edit, None} :
              /\ Render(c, l, f, Freed(s), ed)
              /\ \A q \in {useMe, bound.key} : /\ c[q] = Invalidated(pending[s].m, q, cache[q])
                                              /\ Keeps(cache[q], c[q])
              /\ f = frozen => l = loc \/ frozen = "no"
<1> DEFINE c == [q \in DOMAIN cache |-> Invalidated(pending[s].m, q, cache[q])]
           away == pending[s].here /\ pending[s].m.hook = "deleteGroup"
           l == IF away THEN Groups ELSE loc
           f == IF away THEN "no" ELSE frozen
           ed == IF pending[s].here /\ pending[s].m.hook = "updateGroup" THEN None ELSE edit
<1>1. Render(c, l, f, Freed(s), ed)
  BY Zenon DEF Succeeded, Invalidated
<1>2. \A q \in {useMe, bound.key} : c[q] = Invalidated(pending[s].m, q, cache[q])
  BY DEF CacheOK
<1>3. \A q \in {useMe, bound.key} : Keeps(cache[q], c[q])
  BY <1>2, InvalidatedEntry DEF CacheOK
<1>4. c \in [{useMe, bound.key} -> Entry]
  <2>1. \A q \in {useMe, bound.key} : c[q] \in Entry
    BY <1>3 DEF Keeps
  <2>2. c = [q \in {useMe, bound.key} |-> c[q]]
    BY DEF CacheOK
  <2> HIDE DEF c
  <2> QED
    BY <2>1, <2>2
<1>5. l \in {loc, Groups} /\ f \in {frozen, "no"} /\ ed \in {edit, None}
      /\ (f = frozen => l = loc \/ frozen = "no")
  OBVIOUS
<1> HIDE DEF c, l, f, ed
<1> QED
  BY <1>1, <1>2, <1>3, <1>4, <1>5

(* A redirect or a click keeps the cache and goes to a location. *)
LEMMA NavigationRenders ==
    ASSUME PageInv, AuthGate \/ LeaveLogin \/ Follow \/ setFilter
    PROVE  /\ bound' = bound /\ UNCHANGED <<session, left>>
           /\ \E l \in Locations \cup {Login(m) : m \in Locations}, f \in {"no", frozen} :
                 /\ Render(cache, l, f, pending, edit)
                 /\ f = "no" \/ (loc[1] = "projects" /\ l[1] = "projects")
<1> USE DEF PageInv, LocationOK
<1>1. CASE AuthGate
  <2>1. loc \in Locations
    BY <1>1 DEF AuthGate, AtLogin, Login
  <2>2. Path(loc) \in Locations
    BY <2>1, KnownLocations DEF Path, Filters
  <2> QED
    BY <1>1, <2>2 DEF AuthGate, Rest
<1>2. CASE LeaveLogin
  <2>1. loc[2] \in Locations
    BY <1>2, LocationKinds DEF LeaveLogin, AtLogin, Login
  <2> QED
    BY <1>2, <2>1 DEF LeaveLogin, Rest
<1>3. CASE Follow
  <2>1. PICK page \in OnScreen : \E link \in page.links :
           Render(cache, IF Path(loc) = link.to THEN loc ELSE link.to, "no", pending, edit)
    BY <1>3 DEF Follow
  <2>2. PICK link \in page.links :
           Render(cache, IF Path(loc) = link.to THEN loc ELSE link.to, "no", pending, edit)
    BY <2>1
  <2>3. link.to \in Locations
    <3>1. CASE AtLogin(loc)
      <4>1. page.links = {}
        BY <3>1, <2>1 DEF OnScreen, LoginPage, Page
      <4> QED
        BY <4>1
    <3>2. CASE ~AtLogin(loc)
      <4>1. loc \in Locations
        BY <3>2 DEF AtLogin, Login
      <4>2. page \in {TopBar, Sidebar(projectId(loc)), Route(loc)}
        BY <3>2, <2>1, Zenon DEF OnScreen
      <4> QED
        BY <4>1, <4>2, Links
    <3> QED
      BY <3>1, <3>2
  <2> QED
    BY <1>3, <2>2, <2>3 DEF Follow
<1>4. CASE setFilter
  <2>1. PICK f \in {"all", "root"} \cup (IF HasData(useGroups) THEN Group ELSE {}) :
           Render(cache, Projects(f), frozen, pending, edit)
    BY <1>4 DEF setFilter
  <2>2. Projects(f) \in Locations /\ Projects(f)[1] = "projects"
    BY KnownLocations DEF Filters, Projects
  <2> QED
    BY <1>4, <2>1, <2>2 DEF setFilter
<1> QED
  BY <1>1, <1>2, <1>3, <1>4

-----------------------------------------------------------------------------
LEMMA UnloadedEntry ==
    /\ Unloaded \in Entry /\ Unloaded.data = "none" /\ Unloaded.flight = "idle"
    /\ Asked(Unloaded) \in Entry /\ Asked(Unloaded).data = "none"
    /\ Asked(Unloaded).flight = "asked"
<1>1. Unloaded \in Entry /\ Unloaded.data = "none" /\ Unloaded.flight = "idle"
  BY DEF Unloaded, Entry
<1> QED
  BY <1>1, AskedEntry

(* The steps of the server and of the browser that mark entries or fetch: they
   leave the page alone, load nothing, and start no session. *)
LEMMA MarkingSteps ==
    ASSUME CacheOK, \/ Reconnect \/ Report \/ Expire
                    \/ \E s \in Slot : Perform(s) \/ LoseAnswer(s)
    PROVE  /\ UNCHANGED <<bound, loc, frozen, edit>>
           /\ CacheOK' /\ \A q \in {useMe, bound.key} : Keeps(cache[q], cache'[q])
           /\ left' = None \/ (left' = left /\ (session = "out" => session' = "out"))
<1>1. UNCHANGED <<bound, loc, frozen, edit>>
  BY DEF Reconnect, Report, Expire, Perform, LoseAnswer
<1>2. left' = None \/ (left' = left /\ (session = "out" => session' = "out"))
  BY Zenon DEF Reconnect, Report, Expire, Perform, LoseAnswer, Effect
<1>3. cache \in [{useMe, bound.key} -> Entry]
  BY DEF CacheOK
<1>4. CASE Reconnect
  <2>1. \A q \in {useMe, bound.key} : cache'[q] \in {cache[q], Mounted(q, cache[q])}
    BY <1>3, <1>4 DEF Reconnect
  <2>2. DOMAIN cache' = DOMAIN cache /\ cache' = [q \in DOMAIN cache |-> cache'[q]]
    BY <1>4 DEF Reconnect
  <2>3. \A q \in {useMe, bound.key} : Keeps(cache[q], cache'[q])
    BY <1>3, <2>1, EntrySteps
  <2> QED
    BY <1>1, <1>2, <2>2, <2>3, MappedCache
<1>5. CASE \E keys : cache' = Mark(cache, keys)
  BY <1>1, <1>2, <1>3, <1>5, MarkedCache DEF CacheOK
<1>6. ASSUME NEW s \in Slot, LoseAnswer(s)
      PROVE  /\ CacheOK' /\ \A q \in {useMe, bound.key} : Keeps(cache[q], cache'[q])
  <2> DEFINE c == [q \in DOMAIN cache |->
                     IF q \in Changes(pending[s].m) THEN [cache[q] EXCEPT !.missed = TRUE]
                     ELSE cache[q]]
  <2>1. PICK keys : cache' = Mark(c, keys)
    BY <1>6, Zenon DEF LoseAnswer, Effect
  <2>2. \A q \in {useMe, bound.key} : Keeps(cache[q], c[q])
    <3>1. \A q \in {useMe, bound.key} : cache[q] \in Entry
      BY <1>3
    <3>2. \A q \in {useMe, bound.key} : c[q] \in {cache[q], [cache[q] EXCEPT !.missed = TRUE]}
      BY <1>3
    <3>3. \A e \in Entry : Keeps(e, e) /\ Keeps(e, [e EXCEPT !.missed = TRUE])
      BY MissedEntry, EntrySteps
    <3> HIDE DEF c
    <3> QED
      BY <3>1, <3>2, <3>3
  <2>3. c \in [{useMe, bound.key} -> Entry]
    <3>1. \A q \in {useMe, bound.key} : c[q] \in Entry
      BY <2>2 DEF Keeps
    <3>2. c = [q \in {useMe, bound.key} |-> c[q]]
      BY <1>3
    <3> HIDE DEF c
    <3> QED
      BY <3>1, <3>2
  <2> HIDE DEF c
  <2>4. /\ cache' \in [{useMe, bound.key} -> Entry]
        /\ \A q \in {useMe, bound.key} : Keeps(c[q], cache'[q])
    BY <2>1, <2>3, MarkedCache
  <2>5. \A q \in {useMe, bound.key} : Keeps(cache[q], cache'[q])
    BY <2>2, <2>4, Zenon DEF Keeps
  <2> QED
    BY <1>1, <2>4, <2>5 DEF CacheOK
<1>7. Report \/ Expire \/ (\E s \in Slot : Perform(s)) => \E keys : cache' = Mark(cache, keys)
  BY Zenon DEF Report, Expire, Perform, Effect
<1> QED
  BY <1>1, <1>2, <1>4, <1>5, <1>6, <1>7

-----------------------------------------------------------------------------
LEMMA PageInit == Init => PageInv
<1> SUFFICES ASSUME Init PROVE PageInv
  OBVIOUS
<1>1. cache \in [{useMe, bound.key} -> Entry]
  BY UnloadedEntry DEF Init
<1>2. bound.start \in Locations
  BY FrontendConstants DEF Init
<1> QED
  BY <1>1, <1>2 DEF Init, PageInv, CacheOK, LocationOK, FormInv

LEMMA PageStep == PageInv /\ [Next]_vars => PageInv' /\ StraysByLink
<1> SUFFICES ASSUME PageInv, [Next]_vars
             PROVE  PageInv' /\ StraysByLink
  OBVIOUS
<1>1. ASSUME NEW q \in DOMAIN cache, Serve(q)
      PROVE  PageInv' /\ StraysByLink
  <2>1. /\ UNCHANGED <<bound, loc, frozen, edit>>
        /\ \E x \in {"idle", "asked", "current", "old", "refused"} :
              cache' = [cache EXCEPT ![q].flight = x]
    BY <1>1, Zenon DEF Serve
  <2>2. CacheOK' /\ (Passes(cache'[useMe]) <=> Passes(cache[useMe]))
    BY <2>1, ServedCache DEF PageInv, Passes
  <2> QED
    BY <2>1, <2>2, Unrendered DEF StraysByLink
<1>2. ASSUME NEW q \in DOMAIN cache, Arrive(q)
      PROVE  PageInv' /\ StraysByLink
  BY <1>2, ArriveRenders, Rerendered DEF PageInv, LocationOK
<1>3. ASSUME NEW q \in DOMAIN cache, Poll(q)
      PROVE  PageInv' /\ StraysByLink
  <2>1. /\ UNCHANGED <<bound, loc, frozen, edit>>
        /\ cache' = [cache EXCEPT ![q] = Asked(cache[q])]
    BY <1>3 DEF Poll
  <2>2. \A k \in {useMe, bound.key} : Keeps(cache[k], cache'[k])
    BY <2>1, EntrySteps DEF PageInv, CacheOK
  <2>3. DOMAIN cache' = DOMAIN cache /\ cache' = [k \in DOMAIN cache |-> cache'[k]]
    BY <2>1 DEF PageInv, CacheOK
  <2>4. CacheOK' /\ (Passes(cache'[useMe]) <=> Passes(cache[useMe]))
    BY <2>1, <2>2, <2>3, MappedCache DEF PageInv
  <2> QED
    BY <2>1, <2>4, Unrendered DEF StraysByLink
<1>4. CASE \/ Reconnect \/ Report \/ Expire
           \/ \E s \in Slot : Perform(s) \/ LoseAnswer(s)
  <2>1. /\ UNCHANGED <<loc, frozen, edit>> /\ CacheOK'
        /\ \A q \in {useMe, bound.key} : Keeps(cache[q], cache'[q])
    BY <1>4, MarkingSteps DEF PageInv
  <2>2. Passes(cache'[useMe]) <=> Passes(cache[useMe])
    BY <2>1, Zenon DEF Keeps
  <2> QED
    BY <2>1, <2>2, Unrendered DEF StraysByLink
<1>5. CASE AuthGate \/ LeaveLogin \/ Follow \/ setFilter
  BY <1>5, NavigationRenders, Rerendered DEF PageInv, CacheOK
<1>6. CASE \/ Stale \/ Submit \/ UNCHANGED vars
           \/ \E s \in Slot : Refuse(s) \/ Failed(s)
  <2>1. UNCHANGED <<bound, loc, frozen, cache, edit>>
    BY <1>6 DEF Stale, Submit, Refuse, Failed, vars
  <2> QED
    BY <2>1, Unrendered DEF StraysByLink, PageInv, CacheOK
<1>7. CASE OpenEdit
  <2>1. /\ UNCHANGED <<bound, loc, frozen, cache>> /\ edit' \in {loc[2], None}
        /\ loc[1] = "group" /\ Open(cache, loc, frozen)
    BY <1>7, Zenon DEF OpenEdit, OnScreen, AtLogin, Open, Route, LoginPage
  <2>2. loc \in Locations /\ loc = GroupAt(loc[2])
    BY <2>1, LocationKinds DEF PageInv, LocationOK, Login
  <2>3. PageInv'
    BY <2>1 DEF PageInv, CacheOK, LocationOK, FormInv, Open
  <2> QED
    BY <2>1, <2>2, <2>3 DEF StraysByLink, Stray
<1>8. ASSUME NEW s \in Slot, LoggedIn(s)
      PROVE  PageInv' /\ StraysByLink
  <2>1. bound' = bound
    BY <1>8 DEF LoggedIn
  <2> QED
    BY <1>8, <2>1, LoggedInRenders, Rerendered DEF PageInv, LocationOK
<1>9. ASSUME NEW s \in Slot, LoggedOut(s)
      PROVE  PageInv' /\ StraysByLink
  <2>1. /\ UNCHANGED <<bound, loc, edit>> /\ frozen' = Kept(loc)
        /\ cache' = [q \in DOMAIN cache |-> IF q \in Frame(s) THEN Asked(Unloaded) ELSE Unloaded]
    BY <1>9 DEF LoggedOut
  <2>2. CacheOK'
    BY <2>1, UnloadedEntry DEF PageInv, CacheOK
  <2>3. edit' # None => Open(cache, loc, frozen)'
    <3> SUFFICES ASSUME edit # None PROVE Open(cache, loc, frozen)'
      BY <2>1
    <3>1. Open(cache, loc, frozen)
      BY DEF PageInv, FormInv
    <3>2. frozen' = "page" /\ ~AtLogin(loc)
      BY <2>1, <3>1 DEF Kept, Open
    <3> QED
      BY <2>1, <3>2, Zenon DEF Open
  <2> QED
    BY <2>1, <2>2, <2>3 DEF PageInv, LocationOK, FormInv, StraysByLink, Stray
<1>10. ASSUME NEW s \in Slot, Succeeded(s)
       PROVE  PageInv' /\ StraysByLink
  <2>1. bound' = bound
    BY <1>10 DEF Succeeded, Rest
  <2> QED
    BY <1>10, <2>1, SucceededRenders, Rerendered, KnownLocations DEF PageInv, LocationOK
<1> QED
  BY <1>1, <1>2, <1>3, <1>4, <1>5, <1>6, <1>7, <1>8, <1>9, <1>10 DEF Next, Settle

(***************************************************************************)
(* The values of one group come under another by a link from group to group *)
(* and in no other way (GroupDetailPage, which stays mounted then).         *)
(***************************************************************************)
THEOREM FormStaysWithItsPage == Spec => EditStraysByLink
<1>1. PageInv /\ [Next]_vars => [Stray(loc, edit)' =>
         (Stray(loc, edit) \/ (loc = GroupAt(edit) /\ loc' \in GroupPages))]_vars
  BY PageStep DEF StraysByLink
<1> QED
  BY PageInit, PageStep, <1>1, PTL DEF Spec, EditStraysByLink, Stray

-----------------------------------------------------------------------------
(* Signed out: a step that loads nothing and leaves the page, or changes the
   filter only, keeps what SignInv says. *)
LEMMA StaysSignedOut ==
    ASSUME SignInv, bound' = bound,
           left' = None \/ (left' = left /\ (session = "out" => session' = "out")),
           left # None => \A q \in {useMe, bound.key} : Clear(cache'[q]),
           frozen' = "page" /\ ~AtLogin(loc') =>
              /\ frozen = "page" /\ ~AtLogin(loc)
              /\ Path(loc') = Path(loc)
    PROVE  SignInv'
BY Zenon DEF SignInv

LEMMA KeepsClear ==
    ASSUME NEW e, NEW f, Keeps(e, f), Clear(e)
    PROVE  Clear(f)
BY DEF Keeps, Clear

LEMMA SignInit == Init => SignInv
BY DEF Init, SignInv

LEMMA SignStep == PageInv /\ SignInv /\ [Next]_vars => SignInv'
<1> SUFFICES ASSUME PageInv, SignInv, [Next]_vars
             PROVE  SignInv'
  OBVIOUS
<1>c. cache \in [{useMe, bound.key} -> Entry]
  BY DEF PageInv, CacheOK
<1>e. ASSUME left # None, NEW q \in {useMe, bound.key}
      PROVE  Clear(cache[q])
  BY <1>e DEF SignInv
<1>1. ASSUME NEW q \in DOMAIN cache, Serve(q)
      PROVE  SignInv'
  <2>1. UNCHANGED <<bound, loc, frozen, session, left>>
    BY <1>1 DEF Serve
  <2>2. ASSUME left # None
        PROVE  cache' = [cache EXCEPT ![q].flight = "refused"]
    <3>1. ~Answers(q)
      BY <2>2 DEF SignInv, Answers
    <3> QED
      BY <1>1, <3>1, Zenon DEF Serve
  <2>3. ASSUME left # None
        PROVE  \A k \in {useMe, bound.key} : Clear(cache'[k])
    BY <1>e, <2>1, <2>2, <2>3, ServedCache DEF Clear, PageInv
  <2> QED
    BY <2>1, <2>3, StaysSignedOut
<1>2. ASSUME NEW q \in DOMAIN cache, Arrive(q)
      PROVE  SignInv'
  <2> DEFINE c == [cache EXCEPT ![q] = Arrived(q, cache[q])]
  <2>1. /\ c \in [{useMe, bound.key} -> Entry]
        /\ Render(c, loc, frozen, pending, edit)
        /\ UNCHANGED <<bound, session, left>>
    BY <1>2, ArriveRenders DEF PageInv
  <2>2. ASSUME left # None, NEW k \in {useMe, bound.key}
        PROVE  Clear(c[k])
    <3>1. CASE k = q
      <4>1. Clear(cache[q]) /\ cache[q] \in Entry
        BY <1>c, <1>e, <2>2, <3>1
      <4>2. cache[q].flight = "refused"
        BY <1>2, <4>1 DEF Arrive, Clear
      <4>3. Clear(Arrived(q, cache[q]))
        BY <4>1, <4>2, ArrivedEntry DEF Clear
      <4> QED
        BY <1>c, <3>1, <4>3
    <3>2. CASE k # q
      BY <1>c, <1>e, <2>2, <3>2
    <3> QED
      BY <3>1, <3>2
  <2> HIDE DEF c
  <2>3. /\ loc' = loc /\ frozen' = frozen
        /\ \A k \in {useMe, bound.key} : Keeps(c[k], cache'[k])
    BY <2>1, Rendering DEF PageInv
  <2>4. left # None => \A k \in {useMe, bound.key} : Clear(cache'[k])
    BY <2>2, <2>3, KeepsClear
  <2> QED
    BY <2>1, <2>3, <2>4, StaysSignedOut
<1>3. ASSUME NEW q \in DOMAIN cache, Poll(q)
      PROVE  SignInv'
  <2>1. /\ UNCHANGED <<bound, loc, frozen, session, left>>
        /\ cache' = [cache EXCEPT ![q] = Asked(cache[q])]
    BY <1>3 DEF Poll
  <2>2. \A k \in {useMe, bound.key} : Keeps(cache[k], cache'[k])
    BY <1>c, <2>1, EntrySteps
  <2>3. left # None => \A k \in {useMe, bound.key} : Clear(cache'[k])
    BY <1>e, <2>2, KeepsClear
  <2> QED
    BY <2>1, <2>3, StaysSignedOut
<1>4. CASE \/ Reconnect \/ Report \/ Expire
           \/ \E s \in Slot : Perform(s) \/ LoseAnswer(s)
  <2>1. /\ UNCHANGED <<bound, loc, frozen>>
        /\ \A q \in {useMe, bound.key} : Keeps(cache[q], cache'[q])
        /\ left' = None \/ (left' = left /\ (session = "out" => session' = "out"))
    BY <1>4, MarkingSteps DEF PageInv
  <2>2. left # None => \A q \in {useMe, bound.key} : Clear(cache'[q])
    BY <1>e, <2>1, KeepsClear
  <2> QED
    BY <2>1, <2>2, StaysSignedOut
<1>5. CASE AuthGate \/ LeaveLogin \/ Follow \/ setFilter
  <2>1. bound' = bound /\ UNCHANGED <<session, left>>
    BY <1>5, NavigationRenders
  <2>2. PICK l \in Locations \cup {Login(m) : m \in Locations}, f \in {"no", frozen} :
           /\ Render(cache, l, f, pending, edit)
           /\ f = "no" \/ (loc[1] = "projects" /\ l[1] = "projects")
    BY <1>5, NavigationRenders
  <2>3. /\ loc' = l /\ frozen' = f
        /\ \A q \in {useMe, bound.key} : Keeps(cache[q], cache'[q])
    BY <1>c, <2>1, <2>2, Rendering DEF PageInv
  <2>4. left # None => \A q \in {useMe, bound.key} : Clear(cache'[q])
    BY <1>e, <2>3, KeepsClear
  <2>5. ASSUME frozen' = "page"
        PROVE  frozen = "page" /\ ~AtLogin(loc) /\ Path(loc') = Path(loc)
    BY <2>2, <2>3, <2>5 DEF AtLogin, Path
  <2> QED
    BY <2>1, <2>4, <2>5, StaysSignedOut
<1>6. CASE \/ Stale \/ OpenEdit \/ Submit \/ UNCHANGED vars
           \/ \E s \in Slot : Refuse(s) \/ Failed(s)
  <2>1. UNCHANGED <<bound, loc, frozen, cache, session, left>>
    BY <1>6 DEF Stale, OpenEdit, Submit, Refuse, Failed, vars
  <2> QED
    BY <2>1 DEF SignInv
<1>7. ASSUME NEW s \in Slot, LoggedIn(s)
      PROVE  SignInv'
  BY <1>7 DEF LoggedIn, SignInv
<1>8. ASSUME NEW s \in Slot, LoggedOut(s)
      PROVE  SignInv'
  <2>1. /\ UNCHANGED <<bound, loc, session>>
        /\ cache' = [q \in DOMAIN cache |-> IF q \in Frame(s) THEN Asked(Unloaded) ELSE Unloaded]
        /\ left' = IF session = "out" THEN loc ELSE left
    BY <1>8 DEF LoggedOut
  <2>2. \A q \in {useMe, bound.key} : Clear(cache'[q])
    BY <1>c, <2>1, UnloadedEntry DEF Clear
  <2>3. CASE session = "out"
    BY <2>1, <2>2, <2>3 DEF SignInv
  <2>4. CASE session # "out"
    BY <2>1, <2>4 DEF SignInv
  <2> QED
    BY <2>3, <2>4
<1>9. ASSUME NEW s \in Slot, Succeeded(s)
      PROVE  SignInv'
  <2>1. UNCHANGED <<bound, session, left>>
    BY <1>9 DEF Succeeded, Rest
  <2>2. PICK c \in [{useMe, bound.key} -> Entry], l \in {loc, Groups}, f \in {frozen, "no"},
             ed \in {edit, None} :
           /\ Render(c, l, f, Freed(s), ed)
           /\ \A q \in {useMe, bound.key} : Keeps(cache[q], c[q])
           /\ f = frozen => l = loc \/ frozen = "no"
    BY <1>9, SucceededRenders DEF PageInv
  <2>3. /\ loc' = l /\ frozen' = f
        /\ \A q \in {useMe, bound.key} : Keeps(c[q], cache'[q])
    BY <2>1, <2>2, Rendering DEF PageInv
  <2>4. left # None => \A q \in {useMe, bound.key} : Clear(cache'[q])
    BY <1>e, <2>2, <2>3, KeepsClear
  <2>5. ASSUME frozen' = "page"
        PROVE  frozen = "page" /\ loc' = loc
    BY <2>2, <2>3, <2>5
  <2> QED
    BY <2>1, <2>4, <2>5, StaysSignedOut
<1> QED
  BY <1>1, <1>2, <1>3, <1>4, <1>5, <1>6, <1>7, <1>8, <1>9 DEF Next, Settle

(***************************************************************************)
(* After signing out the cache stays empty and no page but the one that was *)
(* open is shown, until somebody logs in (qc.clear() in useLogout against   *)
(* everything that may still be in the air).                                *)
(***************************************************************************)
THEOREM SignedOutIsForgotten == Spec => []SignedOutForgets
<1>1. PageInv /\ SignInv => SignedOutForgets
  <2> SUFFICES ASSUME PageInv, SignInv, left # None
               PROVE  /\ \A q \in DOMAIN cache : cache[q].data = "none"
                      /\ Open(cache, loc, frozen) => Path(loc) = Path(left)
    BY DEF SignedOutForgets
  <2>1. DOMAIN cache = {useMe, bound.key}
    BY DEF PageInv, CacheOK
  <2>2. \A q \in DOMAIN cache : cache[q].data = "none"
    BY <2>1 DEF SignInv, Clear
  <2>3. ASSUME Open(cache, loc, frozen)
        PROVE  Path(loc) = Path(left)
    <3>1. cache[useMe].data = "none"
      BY <2>1, <2>2
    <3>2. frozen = "page" /\ ~AtLogin(loc)
      BY <2>3, <3>1, Zenon DEF Open, Passes
    <3> QED
      BY <3>2 DEF SignInv
  <2> QED
    BY <2>2, <2>3
<1> QED
  BY PageInit, PageStep, SignInit, SignStep, <1>1, PTL DEF Spec

-----------------------------------------------------------------------------
(* Own writes.  What a page shows, or is about to show, is behind what the
   server would answer. *)
Behind(e) == e.flight = "old" \/ (e.flight = "idle" /\ e.data = "old")

LEMMA AskedAhead ==
    ASSUME NEW e \in Entry
    PROVE  ~Behind(Asked(e))
BY AskedEntry, Zenon DEF Behind

LEMMA FetchedAhead ==
    ASSUME NEW e \in Entry, Behind(Fetched(e))
    PROVE  Fetched(e).missed
<1>1. e.flight = "old"
  BY FetchedEntry, AskedAhead, Zenon DEF Behind
<1>2. Fetched(e) = [e EXCEPT !.missed = TRUE]
  BY <1>1 DEF Fetched
<1> QED
  BY <1>2, MissedEntry, Zenon

LEMMA MountedAhead ==
    ASSUME NEW e \in Entry, NEW q, q # useMe, Behind(Mounted(q, e))
    PROVE  Mounted(q, e).missed
<1>1. Mounted(q, e) = Fetched(e)
  BY Zenon DEF Mounted
<1> QED
  BY <1>1, FetchedAhead, Zenon

LEMMA RefetchedAhead ==
    ASSUME NEW e \in Entry, Behind(Refetched(e))
    PROVE  Refetched(e).missed
<1>1. Refetched(e) \in {Fetched(e), Asked(e)}
  BY Zenon DEF Refetched
<1> QED
  BY <1>1, FetchedAhead, AskedAhead, Zenon

(* Only a page reads another query than /auth/me; it reads on as long as it is
   there and the cache has the query. *)
LEMMA Readers ==
    ASSUME NEW c, NEW l, NEW f, NEW o \in Watch(c, l, f), o[2] # useMe
    PROVE  /\ ~AtLogin(l) /\ Open(c, l, f) /\ o \in Layout(l) \cup Reads(l)
           /\ f # "no" => ~Dropped(c, o)
<1>1. ~AtLogin(l) /\ Open(c, l, f)
  <2>1. \A g \in {"login", "gate"} : <<g, useMe>>[2] = useMe
    OBVIOUS
  <2> QED
    BY <2>1, Zenon DEF Watch
<1>2. <<"gate", useMe>>[2] = useMe
  OBVIOUS
<1> QED
  BY <1>1, <1>2, Zenon DEF Watch

LEMMA Reading ==
    ASSUME NEW c, NEW l, NEW f, NEW o \in Layout(l) \cup Reads(l),
           ~AtLogin(l), Open(c, l, f), f # "no" => ~Dropped(c, o)
    PROVE  o \in Watch(c, l, f)
BY Zenon DEF Watch

(* The writes that the pages make, and what becomes of them when a hook is
   rendered with another group. *)
Writes ==
    {useLogin, useLogout}
       \cup {useCreateGroup(id) : id \in Group \cup {None}}
       \cup {useDeleteGroup(id) : id \in Group}
       \cup {Mutation("updateGroup", on, useUpdateGroup(id).invalidates) : on, id \in Group}
       \cup {Mutation("moveGroup", on, useMoveGroup(id).invalidates) : on, id \in Group}
       \cup {Mutation("addMember", on, useAddGroupMember(id).invalidates) : on, id \in Group}
       \cup {Mutation("removeMember", on, useRemoveGroupMember(id).invalidates) : on, id \in Group}
       \cup {useCreateProject(id) : id \in Group \cup {None}}
       \cup {useCreateDsn(id) : id \in Project} \cup {useRevokeDsn(id) : id \in Project}

Slots == [Slot -> [m : Writes, stage : {"idle", "sent", "done", "refused"}, here : BOOLEAN]]

WritesOK == pending \in Slots

(* Data that is behind is excused when its fetch came too late or failed, and
   followed by a refetch when the write's own answer is still to come. *)
Excused(e) == e.missed \/ (e.flight = "idle" /\ e.error)

Awaited(q) == \E s \in Slot : pending[s].stage = "done" /\ q \in Changes(pending[s].m)

UserData(q) == q \notin Reported \cup {useMe}

OwnInv ==
    UserData(bound.key) /\ Watched(bound.key) /\ Behind(cache[bound.key]) =>
       Excused(cache[bound.key]) \/ Awaited(bound.key)

(* A step that renders nothing. *)
LEMMA QuietOwn ==
    ASSUME CacheOK, OwnInv, UNCHANGED <<bound, loc, frozen>>,
           Passes(cache'[useMe]) <=> Passes(cache[useMe]), DOMAIN cache' = DOMAIN cache,
           Awaited(bound.key) => Awaited(bound.key)',
           \/ UserData(bound.key) => cache'[bound.key] = cache[bound.key]
           \/ Behind(cache'[bound.key]) => Excused(cache'[bound.key]) \/ Awaited(bound.key)'
    PROVE  OwnInv'
<1> SUFFICES ASSUME UserData(bound.key), Watched(bound.key)', Behind(cache'[bound.key]),
                    cache'[bound.key] = cache[bound.key]
             PROVE  Excused(cache[bound.key]) \/ Awaited(bound.key)'
  BY Zenon DEF OwnInv, UserData, Excused, Behind
<1>1. PICK o \in Watch(cache', loc', frozen') : o[2] = bound.key
  BY DEF Watched
<1>2. o[2] # useMe
  BY <1>1 DEF UserData
<1>3. /\ ~AtLogin(loc) /\ Open(cache', loc, frozen) /\ o \in Layout(loc) \cup Reads(loc)
      /\ frozen # "no" => ~Dropped(cache', o)
  BY <1>1, <1>2, Readers
<1>4. Open(cache, loc, frozen)
  BY <1>3, Zenon DEF Open
<1>5. Dropped(cache', o) <=> Dropped(cache, o)
  BY <1>1, Zenon DEF Dropped
<1>6. Watched(bound.key)
  BY <1>1, <1>3, <1>4, <1>5, Reading, Zenon DEF Watched
<1> QED
  BY <1>6, Zenon DEF OwnInv, Behind, Excused

(* A step that renders, by what it makes of the cache before. *)
LEMMA RenderedOwn ==
    ASSUME CacheOK, bound' = bound,
           NEW c \in [{useMe, bound.key} -> Entry], NEW l, NEW f, NEW p, NEW ed,
           Render(c, l, f, p, ed),
           UserData(bound.key) /\ Watched(bound.key) /\ Behind(c[bound.key]) =>
              Excused(c[bound.key]) \/ Awaited(bound.key)'
    PROVE  OwnInv'
<1> DEFINE k == bound.key
           new == Watch(c, l, f) \ Watch(cache, loc, frozen)
<1> SUFFICES ASSUME UserData(k), Watched(k)', Behind(cache'[k])
             PROVE  Excused(cache'[k]) \/ Awaited(k)'
  BY Zenon DEF OwnInv, UserData
<1>0. k # useMe
  BY DEF UserData
<1>1. /\ loc' = l /\ frozen' = f
      /\ cache'[k] = IF \E o \in new : o[2] = k THEN Mounted(k, c[k]) ELSE c[k]
      /\ Open(cache', l, f) <=> Open(c, l, f)
      /\ DOMAIN cache' = DOMAIN c
  <2>1. Open(cache', l, f) <=> Open(c, l, f)
    BY Rendering
  <2> HIDE DEF k, new
  <2> QED
    BY <2>1 DEF Render, k, new
<1>2. CASE \E o \in new : o[2] = k
  <2>1. cache'[k] = Mounted(k, c[k]) /\ c[k] \in Entry
    BY <1>1, <1>2
  <2> HIDE DEF k
  <2> QED
    BY <1>0, <2>1, MountedAhead, Zenon DEF Excused
<1>3. CASE ~ \E o \in new : o[2] = k
  <2>1. cache'[k] = c[k]
    BY <1>1, <1>3, Zenon
  <2>2. PICK o \in Watch(cache', l, f) : o[2] = k
    BY <1>1 DEF Watched
  <2>3. /\ ~AtLogin(l) /\ Open(cache', l, f) /\ o \in Layout(l) \cup Reads(l)
        /\ f # "no" => ~Dropped(cache', o)
    BY <1>0, <2>2, Readers
  <2>4. Dropped(cache', o) <=> Dropped(c, o)
    <3> HIDE DEF k
    <3> QED
      BY <1>1, <2>1, <2>2, Zenon DEF Dropped
  <2>5. o \in Watch(c, l, f)
    BY <1>1, <2>3, <2>4, Reading, Zenon
  <2>6. o \in Watch(cache, loc, frozen)
    BY <1>3, <2>2, <2>5
  <2>7. Watched(k)
    BY <2>2, <2>6, Zenon DEF Watched
  <2> QED
    BY <2>1, <2>7, Zenon
<1> QED
  BY <1>2, <1>3

-----------------------------------------------------------------------------
(* What a hook invalidates covers what its endpoint changes, as long as it is
   not rendered with another group. *)
Rehooked(id) == {useUpdateGroup(id), useMoveGroup(id), useAddGroupMember(id),
                 useRemoveGroupMember(id)}

LEMMA RenderedHook ==
    ASSUME NEW id, NEW h \in Rehooked(id), NEW on, NEW keys
    PROVE  Rendered(Mutation(h.hook, on, keys), id) = Mutation(h.hook, on, h.invalidates)
<1> DEFINE m == Mutation(h.hook, on, keys)
<1>1. m.hook = h.hook /\ [m EXCEPT !.invalidates = h.invalidates]
                           = Mutation(h.hook, on, h.invalidates)
  BY DEF Mutation
<1>2. \A g \in Rehooked(id) : g.hook = h.hook => g = h
  BY DEF Rehooked, useUpdateGroup, useMoveGroup, useAddGroupMember, useRemoveGroupMember, Mutation
<1> HIDE DEF m
<1>3. (CHOOSE g \in Rehooked(id) : g.hook = m.hook) = h
  BY <1>1, <1>2
<1>4. Rendered(m, id) = [m EXCEPT !.invalidates = (CHOOSE g \in Rehooked(id) : g.hook = m.hook).invalidates]
  BY <1>1, Zenon DEF Rendered, Rehooked
<1> QED
  BY <1>1, <1>3, <1>4 DEF m

LEMMA RenderedOther ==
    ASSUME NEW id, NEW hook, NEW on, NEW keys,
           hook \notin {"updateGroup", "moveGroup", "addMember", "removeMember"}
    PROVE  Rendered(Mutation(hook, on, keys), id) = Mutation(hook, on, keys)
<1> DEFINE m == Mutation(hook, on, keys)
<1>1. m.hook = hook /\ [m EXCEPT !.invalidates = m.invalidates] = m
  BY DEF Mutation
<1>2. \A g \in Rehooked(id) : g.hook \in {"updateGroup", "moveGroup", "addMember", "removeMember"}
  BY DEF Rehooked, useUpdateGroup, useMoveGroup, useAddGroupMember, useRemoveGroupMember, Mutation
<1>3. ~ \E g \in Rehooked(id) : g.hook = m.hook
  BY <1>1, <1>2
<1> HIDE DEF m
<1>4. Rendered(m, id) = [m EXCEPT !.invalidates = m.invalidates]
  BY <1>3, Zenon DEF Rendered, Rehooked
<1> QED
  BY <1>1, <1>4 DEF m

(* The kinds of writes, by their hook. *)
LEMMA WriteKinds ==
    ASSUME NEW m \in Writes
    PROVE  \/ \E on, id \in Group : \E h \in Rehooked(id) :
                 m = Mutation(h.hook, on, h.invalidates)
           \/ /\ m = Mutation(m.hook, m.on, m.invalidates)
              /\ m.hook \in {"login", "logout", "createGroup", "deleteGroup", "createProject",
                             "createDsn", "revokeDsn"}
<1>1. CASE m \in {useLogin, useLogout}
  BY <1>1 DEF useLogin, useLogout, Mutation
<1>2. CASE \E id : m \in {useCreateGroup(id), useDeleteGroup(id), useCreateProject(id)}
  BY <1>2 DEF useCreateGroup, useDeleteGroup, useCreateProject, Mutation
<1>3. CASE \E id : m \in {useCreateDsn(id), useRevokeDsn(id)}
  BY <1>3 DEF useCreateDsn, useRevokeDsn, Mutation
<1>4. ASSUME NEW on \in Group, NEW id \in Group,
             m \in {Mutation("updateGroup", on, useUpdateGroup(id).invalidates),
                   Mutation("moveGroup", on, useMoveGroup(id).invalidates),
                   Mutation("addMember", on, useAddGroupMember(id).invalidates),
                   Mutation("removeMember", on, useRemoveGroupMember(id).invalidates)}
      PROVE  \E h \in Rehooked(id) : m = Mutation(h.hook, on, h.invalidates)
  <2>1. /\ useUpdateGroup(id).hook = "updateGroup" /\ useMoveGroup(id).hook = "moveGroup"
        /\ useAddGroupMember(id).hook = "addMember"
        /\ useRemoveGroupMember(id).hook = "removeMember"
    BY DEF useUpdateGroup, useMoveGroup, useAddGroupMember, useRemoveGroupMember, Mutation
  <2>2. {useUpdateGroup(id), useMoveGroup(id), useAddGroupMember(id), useRemoveGroupMember(id)}
           = Rehooked(id)
    BY DEF Rehooked
  <2>3. CASE m = Mutation("updateGroup", on, useUpdateGroup(id).invalidates)
    BY <2>1, <2>2, <2>3
  <2>4. CASE m = Mutation("moveGroup", on, useMoveGroup(id).invalidates)
    BY <2>1, <2>2, <2>4
  <2>5. CASE m = Mutation("addMember", on, useAddGroupMember(id).invalidates)
    BY <2>1, <2>2, <2>5
  <2>6. CASE m = Mutation("removeMember", on, useRemoveGroupMember(id).invalidates)
    BY <2>1, <2>2, <2>6
  <2> QED
    BY <1>4, <2>3, <2>4, <2>5, <2>6
<1>5. \/ m \in {useLogin, useLogout}
      \/ \E id : m \in {useCreateGroup(id), useDeleteGroup(id), useCreateProject(id)}
      \/ \E id : m \in {useCreateDsn(id), useRevokeDsn(id)}
      \/ \E on, id \in Group :
            m \in {Mutation("updateGroup", on, useUpdateGroup(id).invalidates),
                  Mutation("moveGroup", on, useMoveGroup(id).invalidates),
                  Mutation("addMember", on, useAddGroupMember(id).invalidates),
                  Mutation("removeMember", on, useRemoveGroupMember(id).invalidates)}
  BY DEF Writes
<1> QED
  BY <1>1, <1>2, <1>3, <1>4, <1>5, Zenon

LEMMA WriteOfHook ==
    ASSUME NEW on \in Group, NEW id \in Group, NEW h \in Rehooked(id)
    PROVE  Mutation(h.hook, on, h.invalidates) \in Writes
<1>1. /\ useUpdateGroup(id).hook = "updateGroup" /\ useMoveGroup(id).hook = "moveGroup"
      /\ useAddGroupMember(id).hook = "addMember"
      /\ useRemoveGroupMember(id).hook = "removeMember"
  BY DEF useUpdateGroup, useMoveGroup, useAddGroupMember, useRemoveGroupMember, Mutation
<1>2. CASE h = useUpdateGroup(id)
  BY <1>1, <1>2 DEF Writes
<1>3. CASE h = useMoveGroup(id)
  BY <1>1, <1>3 DEF Writes
<1>4. CASE h = useAddGroupMember(id)
  BY <1>1, <1>4 DEF Writes
<1>5. CASE h = useRemoveGroupMember(id)
  BY <1>1, <1>5 DEF Writes
<1> QED
  BY <1>2, <1>3, <1>4, <1>5 DEF Rehooked

LEMMA SameChanges ==
    ASSUME NEW m, NEW n, n.hook = m.hook, n.on = m.on
    PROVE  Changes(n) = Changes(m)
<1>1. ChangesGroups(n) = ChangesGroups(m)
  BY DEF ChangesGroups
<1>2. ChangesProjects(n) = ChangesProjects(m)
  BY DEF ChangesProjects
<1> QED
  BY <1>1, <1>2 DEF Changes

(* A rendering leaves a write what it is but for the keys it invalidates. *)
LEMMA RenderedWrite ==
    ASSUME NEW m \in Writes, NEW id \in Group
    PROVE  Rendered(m, id) \in Writes /\ Changes(Rendered(m, id)) = Changes(m)
<1>1. ASSUME NEW on \in Group, NEW was \in Group, NEW g \in Rehooked(was),
             m = Mutation(g.hook, on, g.invalidates)
      PROVE  Rendered(m, id) \in Writes /\ Changes(Rendered(m, id)) = Changes(m)
  <2>1. PICK h \in Rehooked(id) : h.hook = g.hook
    BY DEF Rehooked, useUpdateGroup, useMoveGroup, useAddGroupMember, useRemoveGroupMember,
           Mutation
  <2>2. Rendered(m, id) = Mutation(g.hook, on, h.invalidates)
    BY <1>1, <2>1, RenderedHook, Zenon
  <2>3. Rendered(m, id) \in Writes
    BY <2>1, <2>2, WriteOfHook, Zenon
  <2>4. Rendered(m, id).hook = m.hook /\ Rendered(m, id).on = m.on
    BY <1>1, <2>2 DEF Mutation
  <2>5. Changes(Rendered(m, id)) = Changes(m)
    BY <2>4, SameChanges, Zenon
  <2> QED
    BY <2>3, <2>5
<1>2. CASE /\ m = Mutation(m.hook, m.on, m.invalidates)
           /\ m.hook \in {"login", "logout", "createGroup", "deleteGroup", "createProject",
                          "createDsn", "revokeDsn"}
  <2>1. m.hook \notin {"updateGroup", "moveGroup", "addMember", "removeMember"}
    BY <1>2
  <2>2. Rendered(Mutation(m.hook, m.on, m.invalidates), id) = Mutation(m.hook, m.on, m.invalidates)
    BY <2>1, RenderedOther
  <2>3. Rendered(m, id) = m
    BY <1>2, <2>2
  <2> QED
    BY <2>3
<1> QED
  BY <1>1, <1>2, WriteKinds, Zenon

LEMMA PrefixOf ==
    ASSUME NEW S, NEW s \in Seq(S), NEW t \in Seq(S), Len(s) <= Len(t),
           \A i \in 1 .. Len(s) : s[i] = t[i]
    PROVE  IsPrefix(s, t)
<1> DEFINE n == Len(s)
<1>1. n \in Nat /\ Len(t) \in Nat /\ \A i \in 1 .. n : s[i] \in S /\ t[i] \in S
  BY ElementOfSeq
<1>2. /\ SubSeq(s, 1, n) \in Seq(S) /\ SubSeq(t, 1, n) \in Seq(S)
      /\ Len(SubSeq(s, 1, n)) = n /\ Len(SubSeq(t, 1, n)) = n
      /\ \A i \in 1 .. n : SubSeq(s, 1, n)[i] = s[i] /\ SubSeq(t, 1, n)[i] = t[i]
  <2> HIDE DEF n
  <2> QED
    BY <1>1, SubSeqProperties
<1>3. \A i \in 1 .. n : SubSeq(s, 1, n)[i] = SubSeq(t, 1, n)[i]
  BY <1>2
<1>4. SubSeq(s, 1, n) = SubSeq(t, 1, n)
  <2> HIDE DEF n
  <2> QED
    BY <1>2, <1>3, SeqEqual
<1> QED
  BY <1>4 DEF IsPrefix

LEMMA KeyPrefixes ==
    ASSUME NEW x, NEW y, NEW z
    PROVE  /\ IsPrefix(<<x>>, <<x>>) /\ IsPrefix(<<x>>, <<x, y>>) /\ IsPrefix(<<x>>, <<x, y, z>>)
           /\ IsPrefix(<<x, y>>, <<x, y>>) /\ IsPrefix(<<x, y, z>>, <<x, y, z>>)
<1> DEFINE S == {x, y, z}
           one == <<x>>
           two == <<x, y>>
           three == <<x, y, z>>
<1>1. /\ one \in Seq(S) /\ Len(one) = 1 /\ one[1] = x
      /\ two \in Seq(S) /\ Len(two) = 2 /\ two[1] = x
      /\ three \in Seq(S) /\ Len(three) = 3 /\ three[1] = x
  OBVIOUS
<1> HIDE DEF S, one, two, three
<1>2. IsPrefix(one, one) /\ IsPrefix(two, two) /\ IsPrefix(three, three)
  BY <1>1, PrefixOf
<1>3. IsPrefix(one, two)
  BY <1>1, PrefixOf
<1>4. IsPrefix(one, three)
  BY <1>1, PrefixOf
<1> QED
  BY <1>2, <1>3, <1>4 DEF one, two, three

LEMMA GroupsCovered ==
    ASSUME NEW m, useGroups \in m.invalidates, NEW id
    PROVE  /\ Invalidates(m, useGroups) /\ Invalidates(m, useGroupTree)
           /\ Invalidates(m, useGroup(id))
BY KeyPrefixes DEF Invalidates, useGroups, useGroupTree, useGroup

LEMMA MembersCovered ==
    ASSUME NEW on \in Group, NEW id \in Group, NEW h \in Rehooked(id), NEW m,
           m = Mutation(h.hook, on, h.invalidates),
           h.hook \in {"addMember", "removeMember"}
    PROVE  Invalidates(m, useGroupMembers(on)) \/ Diverted(m)
<1>1. h.invalidates = {useGroupMembers(id)}
  BY DEF Rehooked, useUpdateGroup, useMoveGroup, useAddGroupMember, useRemoveGroupMember, Mutation
<1>2. m.on = on /\ m.hook = h.hook /\ m.invalidates = {useGroupMembers(id)}
  BY <1>1 DEF Mutation
<1>3. CASE id = on
  BY <1>2, <1>3, KeyPrefixes DEF Invalidates, useGroupMembers
<1>4. CASE id # on
  <2>1. Rendered(m, id) = m
    BY RenderedHook
  <2>2. PICK g \in Rehooked(on) : g.hook = h.hook /\ g.invalidates = {useGroupMembers(on)}
    BY DEF Rehooked, useUpdateGroup, useMoveGroup, useAddGroupMember, useRemoveGroupMember,
           Mutation
  <2>3. Rendered(m, on) = Mutation(g.hook, on, g.invalidates)
    BY <2>2, RenderedHook, Zenon
  <2>4. Rendered(m, on).invalidates = {useGroupMembers(on)}
    BY <2>2, <2>3 DEF Mutation
  <2>5. useGroupMembers(on) # useGroupMembers(id)
    BY <1>4 DEF useGroupMembers
  <2>6. Rendered(m, on) # m
    BY <1>2, <2>4, <2>5
  <2> QED
    BY <1>2, <1>4, <2>1, <2>6 DEF Diverted
<1> QED
  BY <1>3, <1>4

LEMMA ProjectsCovered ==
    ASSUME NEW g \in Group \cup {None}, NEW q \in Changes(useCreateProject(g)), UserData(q)
    PROVE  Invalidates(useCreateProject(g), q)
<1> DEFINE m == useCreateProject(g)
<1>1. /\ m.hook = "createProject" /\ m.on = g
      /\ <<"projects">> \in m.invalidates /\ useGroupTree \in m.invalidates
      /\ g # None => useGroup(g) \in m.invalidates
  BY DEF useCreateProject, Mutation
<1> HIDE DEF m
<1>2. q \in {useProjects("all"), useProjects(IF g = None THEN "root" ELSE g), useProject(""),
            useGroupTree, useGlobalKpis} \cup {useGroup(x) : x \in Group \cap {g}}
  BY <1>1 DEF m, Changes, ChangesGroups, ChangesProjects
<1>3. q # useGlobalKpis
  BY DEF UserData, Reported, Polled
<1>4. ASSUME NEW f, q = useProjects(f)
      PROVE  Invalidates(m, q)
  BY <1>1, <1>4, KeyPrefixes DEF Invalidates, useProjects
<1>5. ASSUME q = useProject("")
      PROVE  Invalidates(m, q)
  BY <1>1, <1>5, KeyPrefixes DEF Invalidates, useProject
<1>6. ASSUME q = useGroupTree
      PROVE  Invalidates(m, q)
  BY <1>1, <1>6, KeyPrefixes DEF Invalidates, useGroupTree
<1>7. ASSUME NEW x \in Group \cap {g}, q = useGroup(x)
      PROVE  Invalidates(m, q)
  <2>1. useGroup(x) \in m.invalidates
    BY <1>1, FrontendConstants
  <2> QED
    BY <1>7, <2>1, KeyPrefixes DEF Invalidates, useGroup
<1>8. Invalidates(m, q)
  BY <1>2, <1>3, <1>4, <1>5, <1>6, <1>7
<1> QED
  BY <1>8 DEF m

LEMMA WritesCovered ==
    ASSUME NEW m \in Writes, NEW q \in Changes(m), UserData(q)
    PROVE  Invalidates(m, q) \/ Diverted(m)
<1>1. ASSUME m.hook \in {"createGroup", "updateGroup", "deleteGroup", "moveGroup"},
             useGroups \in m.invalidates
      PROVE  Invalidates(m, q)
  <2>1. q \in {useGroups, useGroupTree} \cup {useGroup(x) : x \in Group}
    BY <1>1 DEF Changes, ChangesGroups, ChangesProjects
  <2> QED
    BY <1>1, <2>1, GroupsCovered
<1>2. CASE m \in {useLogin, useLogout}
  <2>1. m.hook \in {"login", "logout"}
    BY <1>2 DEF useLogin, useLogout, Mutation
  <2> QED
    BY <2>1 DEF Changes, ChangesGroups, ChangesProjects
<1>3. CASE \E id : m \in {useCreateGroup(id), useDeleteGroup(id)}
  <2>1. m.hook \in {"createGroup", "deleteGroup"} /\ useGroups \in m.invalidates
    BY <1>3 DEF useCreateGroup, useDeleteGroup, Mutation
  <2> QED
    BY <1>1, <2>1
<1>4. ASSUME NEW on \in Group, NEW id \in Group, NEW h \in Rehooked(id),
             m = Mutation(h.hook, on, h.invalidates)
      PROVE  Invalidates(m, q) \/ Diverted(m)
  <2>1. m.hook = h.hook /\ m.on = on /\ m.invalidates = h.invalidates
    BY <1>4 DEF Mutation
  <2>2. CASE h.hook \in {"addMember", "removeMember"}
    <3>1. q = useGroupMembers(on)
      BY <2>1, <2>2 DEF Changes, ChangesGroups, ChangesProjects
    <3> QED
      BY <1>4, <2>2, <3>1, MembersCovered
  <2>3. CASE h.hook \notin {"addMember", "removeMember"}
    <3>1. h \in {useUpdateGroup(id), useMoveGroup(id)}
      BY <2>3 DEF Rehooked, useAddGroupMember, useRemoveGroupMember, Mutation
    <3>2. h.hook \in {"updateGroup", "moveGroup"} /\ useGroups \in h.invalidates
      BY <3>1 DEF useUpdateGroup, useMoveGroup, Mutation
    <3> QED
      BY <1>1, <2>1, <3>2
  <2> QED
    BY <2>2, <2>3
<1>5. CASE \E id \in Group \cup {None} : m = useCreateProject(id)
  BY <1>5, ProjectsCovered
<1>6. ASSUME NEW id \in Project, m \in {useCreateDsn(id), useRevokeDsn(id)}
      PROVE  Invalidates(m, q)
  <2>1. /\ m.hook \in {"createDsn", "revokeDsn"} /\ m.on = id
        /\ m.invalidates = {useProjectDsns(id)}
    BY <1>6 DEF useCreateDsn, useRevokeDsn, Mutation
  <2>2. q = useProjectDsns(id)
    BY <2>1 DEF Changes, ChangesGroups, ChangesProjects
  <2> QED
    BY <2>1, <2>2, KeyPrefixes DEF Invalidates, useProjectDsns
<1>7. CASE m.hook \in {"login", "logout", "createGroup", "deleteGroup", "createProject",
                       "createDsn", "revokeDsn"}
  <2>1. \A on, id : /\ Mutation("updateGroup", on, useUpdateGroup(id).invalidates).hook = "updateGroup"
                    /\ Mutation("moveGroup", on, useMoveGroup(id).invalidates).hook = "moveGroup"
                    /\ Mutation("addMember", on, useAddGroupMember(id).invalidates).hook = "addMember"
                    /\ Mutation("removeMember", on, useRemoveGroupMember(id).invalidates).hook
                          = "removeMember"
    BY DEF Mutation
  <2>2. \/ m \in {useLogin, useLogout}
        \/ \E id : m \in {useCreateGroup(id), useDeleteGroup(id)}
        \/ \E id \in Group \cup {None} : m = useCreateProject(id)
        \/ \E id \in Project : m \in {useCreateDsn(id), useRevokeDsn(id)}
    BY <1>7, <2>1 DEF Writes
  <2> QED
    BY <1>2, <1>3, <1>5, <1>6, <2>2
<1> QED
  BY <1>4, <1>7, WriteKinds

-----------------------------------------------------------------------------
(* The mutations under way are writes of some page; a rendering leaves their
   stage and what they change alone. *)
LEMMA OfferedByGroup ==
    ASSUME NEW id \in Group, NEW b \in GroupDetailPage(id).writes
    PROVE  b.m \in Writes
<1>1. b \in {EditForm(id), MoveSelect(id), DeleteButton(id), SubgroupForm(id),
            ProjectForm(id), MemberForm(id), MemberRows(id)}
  BY DEF GroupDetailPage, Page
<1>2. b.m \in {useUpdateGroup(id), useMoveGroup(id), useDeleteGroup(id), useCreateGroup(id),
              useCreateProject(id), useAddGroupMember(id), useRemoveGroupMember(id)}
  BY <1>1 DEF EditForm, MoveSelect, DeleteButton, SubgroupForm, ProjectForm, MemberForm,
       MemberRows, Button, submitEdit, submitMove, submitDelete, submitSubgroup, submitProject,
       submitAddMember
<1>3. ASSUME NEW h \in Rehooked(id)
      PROVE  h \in Writes
  <2>1. h = Mutation(h.hook, id, h.invalidates)
    BY DEF Rehooked, useUpdateGroup, useMoveGroup, useAddGroupMember, useRemoveGroupMember,
           Mutation
  <2> QED
    BY <2>1, WriteOfHook
<1>4. useDeleteGroup(id) \in Writes /\ useCreateGroup(id) \in Writes /\ useCreateProject(id) \in Writes
  BY DEF Writes
<1> QED
  BY <1>2, <1>3, <1>4 DEF Rehooked

LEMMA Offered ==
    ASSUME NEW l, l \in Locations \/ AtLogin(l),
           NEW page \in {TopBar, Sidebar(projectId(l)), Route(l)},
           NEW b \in page.writes
    PROVE  b.m \in Writes
<1> USE LocationKinds
<1>1. CASE page = TopBar
  BY <1>1 DEF TopBar, Page, Button, Writes
<1>2. CASE page = Sidebar(projectId(l))
  BY <1>2 DEF Sidebar, Page
<1>3. CASE page = Route(l) /\ AtLogin(l)
  BY <1>3 DEF AtLogin, Route, LoginPage, Page, Button, Writes
<1>4. CASE page = Route(l) /\ l \in Locations
  <2>1. CASE l[1] = "group"
    <3>1. l[2] \in Group /\ page = GroupDetailPage(l[2])
      BY <1>4, <2>1 DEF Route
    <3> QED
      BY <3>1, OfferedByGroup
  <2>2. CASE l[1] = "groups"
    <3>1. b.m = useCreateGroup(None)
      BY <1>4, <2>2 DEF Route, GroupsListPage, Page, Button
    <3> QED
      BY <3>1 DEF Writes
  <2>3. CASE l[1] = "projects"
    <3>1. \E g \in Group \cup {None} : b.m = useCreateProject(g)
      BY <1>4, <2>3 DEF Route, ProjectsListPage, Page, Button
    <3> QED
      BY <3>1 DEF Writes
  <2>4. CASE l[1] = "dsns"
    <3>1. l[2] \in Project /\ b.m \in {useCreateDsn(l[2]), useRevokeDsn(l[2])}
      BY <1>4, <2>4 DEF Route, DsnsPage, Page, Button
    <3> QED
      BY <3>1 DEF Writes
  <2>5. CASE l[1] \in {"overview", "project", "jobs", "runs", "run", "nodes"}
    <3>1. page.writes = {}
      BY <1>4, <2>5 DEF Route, GlobalOverviewPage, ProjectOverviewPage, JobsPage, RunsPage,
                       RunDetailPage, NodesPage, Page
    <3> QED
      BY <3>1
  <2> QED
    BY <1>4, <2>1, <2>2, <2>3, <2>4, <2>5
<1> QED
  BY <1>1, <1>2, <1>3, <1>4

LEMMA RenderedSlots ==
    ASSUME NEW c, NEW l, NEW f, NEW ed, NEW p \in Slots,
           Render(c, l, f, p, ed)
    PROVE  /\ WritesOK'
           /\ \A s \in Slot : /\ pending'[s].stage = p[s].stage
                              /\ Changes(pending'[s].m) = Changes(p[s].m)
<1> DEFINE h(s) == p[s].here /\ Stays(p[s], Shown(cache, loc, frozen), Shown(c, l, f))
           n(s) == IF h(s) /\ l \in GroupPages THEN Rendered(p[s].m, l[2]) ELSE p[s].m
           new(s) == [p[s] EXCEPT !.here = h(s), !.m = n(s)]
<1>1. pending' = [s \in Slot |-> new(s)]
  BY Zenon DEF Render
<1>2. l \in GroupPages => l[2] \in Group
  BY DEF GroupPages, GroupAt
<1>3. ASSUME NEW s \in Slot
      PROVE  /\ new(s) \in [m : Writes, stage : {"idle", "sent", "done", "refused"}, here : BOOLEAN]
             /\ new(s).stage = p[s].stage /\ Changes(new(s).m) = Changes(p[s].m)
  <2>1. p[s].m \in Writes /\ p[s] \in [m : Writes, stage : {"idle", "sent", "done", "refused"},
                                      here : BOOLEAN]
    BY DEF Slots
  <2>2. n(s) \in Writes /\ Changes(n(s)) = Changes(p[s].m)
    BY <1>2, <2>1, RenderedWrite, Zenon
  <2>3. h(s) \in BOOLEAN
    BY <2>1 DEF Stays
  <2> HIDE DEF h, n
  <2>4. /\ new(s) \in [m : Writes, stage : {"idle", "sent", "done", "refused"}, here : BOOLEAN]
        /\ new(s).stage = p[s].stage /\ new(s).m = n(s)
    BY <2>1, <2>2, <2>3
  <2> QED
    BY <2>2, <2>4
<1> HIDE DEF new
<1>4. WritesOK'
  BY <1>1, <1>3 DEF WritesOK, Slots
<1>5. \A s \in Slot : pending'[s] = new(s)
  BY <1>1
<1> QED
  BY <1>3, <1>4, <1>5

LEMMA FreedSlots ==
    ASSUME WritesOK, NEW s \in Slot
    PROVE  /\ Freed(s) \in Slots /\ \A t \in Slot \ {s} : Freed(s)[t] = pending[t]
<1>1. NoWrite \in [m : Writes, stage : {"idle", "sent", "done", "refused"}, here : BOOLEAN]
  BY DEF NoWrite, Writes
<1> QED
  BY <1>1 DEF Freed, WritesOK, Slots

-----------------------------------------------------------------------------
LEMMA ArrivedBehind ==
    ASSUME NEW e \in Entry, NEW q, e.flight \in {"current", "old", "refused"},
           Behind(Arrived(q, e)), ~Excused(Arrived(q, e))
    PROVE  Behind(e) /\ ~Excused(e)
<1>1. CASE e.flight = "refused" /\ e.tries < Retries(q)
  <2> DEFINE e1 == [e EXCEPT !.flight = "asked"]
  <2>1. e1 \in Entry
    BY DEF Entry
  <2> HIDE DEF e1
  <2> DEFINE e2 == [e1 EXCEPT !.tries = 1]
  <2>2. e1.flight = "asked"
    BY DEF e1, Entry
  <2>3. e2.flight = "asked"
    BY <2>1, <2>2 DEF Entry
  <2> HIDE DEF e2
  <2>4. e2 = Arrived(q, e)
    BY <1>1, Zenon DEF e1, e2, Arrived
  <2> QED
    BY <2>3, <2>4, Zenon DEF Behind
<1>2. CASE e.flight = "refused" /\ ~(e.tries < Retries(q))
  <2> DEFINE e1 == [e EXCEPT !.flight = "idle"]
  <2>1. e1 \in Entry /\ e1.flight = "idle"
    BY DEF Entry
  <2> HIDE DEF e1
  <2> DEFINE e2 == [e1 EXCEPT !.error = TRUE]
  <2>2. e2.flight = "idle" /\ e2.error = TRUE
    BY <2>1 DEF Entry
  <2> HIDE DEF e2
  <2>3. e2 = Arrived(q, e)
    BY <1>2, Zenon DEF e1, e2, Arrived
  <2> QED
    BY <2>2, <2>3, Zenon DEF Excused
<1>3. CASE e.flight # "refused"
  <2> DEFINE b == e.missed /\ e.flight = "old"
             a == [data |-> e.flight, flight |-> "idle", tries |-> 0, error |-> FALSE,
                   missed |-> b]
  <2>1. Arrived(q, e) = a
    BY <1>3, Zenon DEF Arrived
  <2>2. a.data = e.flight /\ a.flight = "idle" /\ a.missed = b
    OBVIOUS
  <2> HIDE DEF a
  <2>3. e.flight = "old" /\ ~e.missed
    BY <2>1, <2>2, Zenon DEF Behind, Excused
  <2> QED
    BY <2>3 DEF Behind, Excused
<1> QED
  BY <1>1, <1>2, <1>3

LEMMA AwaitedOn ==
    ASSUME bound' = bound,
           \A s \in Slot : pending[s].stage = "done" =>
              pending'[s].stage = "done" /\ Changes(pending'[s].m) = Changes(pending[s].m)
    PROVE  Awaited(bound.key) => Awaited(bound.key)'
BY Zenon DEF Awaited

(* A rendering of the page after a redirect, a click or an answer. *)
LEMMA RendersOwn ==
    ASSUME PageInv, WritesOK, bound' = bound,
           NEW c \in [{useMe, bound.key} -> Entry], NEW l, NEW f, NEW ed,
           Render(c, l, f, pending, ed),
           UserData(bound.key) /\ Watched(bound.key) /\ Behind(c[bound.key]) =>
              Excused(c[bound.key]) \/ Awaited(bound.key)
    PROVE  WritesOK' /\ OwnInv'
<1>1. /\ WritesOK'
      /\ \A s \in Slot : /\ pending'[s].stage = pending[s].stage
                         /\ Changes(pending'[s].m) = Changes(pending[s].m)
  BY RenderedSlots DEF WritesOK
<1>2. Awaited(bound.key) => Awaited(bound.key)'
  BY <1>1, AwaitedOn
<1> QED
  BY <1>1, <1>2, RenderedOwn DEF PageInv

LEMMA ArriveOwn ==
    ASSUME PageInv, WritesOK, OwnInv, NEW q \in DOMAIN cache, Arrive(q)
    PROVE  WritesOK' /\ OwnInv'
<1> DEFINE c == [cache EXCEPT ![q] = Arrived(q, cache[q])]
<1>1. /\ c \in [{useMe, bound.key} -> Entry]
      /\ Render(c, loc, frozen, pending, edit)
      /\ bound' = bound
  BY ArriveRenders DEF PageInv
<1>2. ASSUME UserData(bound.key), Watched(bound.key), Behind(c[bound.key]), ~Excused(c[bound.key])
      PROVE  Awaited(bound.key)
  <2>1. CASE q = bound.key
    <3>1. /\ c[bound.key] = Arrived(q, cache[q]) /\ cache[q] \in Entry
          /\ cache[q].flight \in {"current", "old", "refused"}
      BY <2>1 DEF PageInv, CacheOK, Arrive
    <3>2. Behind(cache[q]) /\ ~Excused(cache[q])
      BY <1>2, <3>1, ArrivedBehind
    <3> QED
      BY <1>2, <2>1, <3>2 DEF OwnInv
  <2>2. CASE q # bound.key
    <3>1. c[bound.key] = cache[bound.key]
      BY <2>2 DEF PageInv, CacheOK
    <3> QED
      BY <1>2, <3>1 DEF OwnInv
  <2> QED
    BY <2>1, <2>2
<1> HIDE DEF c
<1> QED
  BY <1>1, <1>2, RendersOwn

(* The answer to a write: it was awaited for no longer than that, or the
   refetch is on its way. *)
LEMMA SucceededOwn ==
    ASSUME PageInv, WritesOK, OwnInv, NEW s \in Slot, Succeeded(s)
    PROVE  WritesOK' /\ OwnInv'
<1> DEFINE k == bound.key
           m == pending[s].m
<1>1. bound' = bound /\ m \in Writes
  BY DEF Succeeded, Rest, WritesOK, Slots
<1>2. PICK c \in [{useMe, bound.key} -> Entry], l \in {loc, Groups}, f \in {frozen, "no"},
           ed \in {edit, None} :
         /\ Render(c, l, f, Freed(s), ed)
         /\ c[k] = Invalidated(m, k, cache[k])
  BY SucceededRenders DEF PageInv
<1>3. /\ WritesOK'
      /\ \A t \in Slot \ {s} : /\ pending'[t].stage = pending[t].stage
                               /\ Changes(pending'[t].m) = Changes(pending[t].m)
  BY <1>2, FreedSlots, RenderedSlots
<1>4. ASSUME UserData(k), Watched(k), Behind(c[k]), ~Excused(c[k])
      PROVE  Awaited(k)'
  <2>1. cache[k] \in Entry
    BY DEF PageInv, CacheOK
  <2>2. ~Invalidates(m, k)
    <3>1. Invalidates(m, k) => c[k] = Refetched(cache[k])
      BY <1>2, <1>4, Zenon DEF Invalidated
    <3> QED
      BY <1>4, <2>1, <3>1, RefetchedAhead, Zenon DEF Excused
  <2> DEFINE b == cache[k].missed \/ (Diverted(m) /\ k \in Changes(m))
  <2>3. c[k] = [cache[k] EXCEPT !.missed = b]
    BY <1>2, <1>4, <2>2, Zenon DEF Invalidated
  <2>4. b \in BOOLEAN
    BY <2>1 DEF Entry
  <2>5. /\ c[k].missed = b /\ c[k].data = cache[k].data /\ c[k].flight = cache[k].flight
        /\ c[k].error = cache[k].error
    <3> DEFINE g == [cache[k] EXCEPT !.missed = b]
    <3>1. /\ g.missed = b /\ g.data = cache[k].data /\ g.flight = cache[k].flight
          /\ g.error = cache[k].error
      <4> HIDE DEF b, k
      <4> QED
        BY <2>1, <2>4, MissedEntry
    <3>2. c[k] = g
      BY <2>3
    <3> HIDE DEF g, b, k
    <3> QED
      BY <3>1, <3>2
  <2>6. Behind(cache[k]) /\ ~Excused(cache[k]) /\ ~(Diverted(m) /\ k \in Changes(m))
    BY <1>4, <2>5, Zenon DEF Behind, Excused
  <2>7. PICK t \in Slot : pending[t].stage = "done" /\ k \in Changes(pending[t].m)
    BY <1>4, <2>6 DEF OwnInv, Awaited
  <2>8. t # s
    BY <1>1, <1>4, <2>2, <2>6, <2>7, WritesCovered
  <2> QED
    BY <1>1, <1>3, <2>7, <2>8 DEF Awaited
<1> HIDE DEF k, m
<1> QED
  BY <1>1, <1>2, <1>3, <1>4, RenderedOwn DEF PageInv, k

LEMMA OwnInit == Init => WritesOK /\ OwnInv
<1> SUFFICES ASSUME Init PROVE WritesOK /\ OwnInv
  OBVIOUS
<1>1. NoWrite \in [m : Writes, stage : {"idle", "sent", "done", "refused"}, here : BOOLEAN]
  BY DEF NoWrite, Writes
<1>2. WritesOK
  BY <1>1 DEF Init, WritesOK, Slots
<1>3. UserData(bound.key) => cache[bound.key] = Unloaded
  BY DEF Init, UserData
<1>4. ~Behind(Unloaded)
  BY DEF Behind, Unloaded
<1> QED
  BY <1>2, <1>3, <1>4, Zenon DEF OwnInv

(* The steps that leave the page and what it shows alone. *)
LEMMA SubmitOwn ==
    ASSUME PageInv, WritesOK, Submit
    PROVE  /\ WritesOK'
           /\ \A t \in Slot : pending[t].stage = "done" =>
                 pending'[t].stage = "done" /\ Changes(pending'[t].m) = Changes(pending[t].m)
<1>0. PICK page \in OnScreen : \E b \in page.writes, s \in Slot :
         /\ pending[s].stage = "idle"
         /\ pending' = [t \in Slot |->
                          IF t = s THEN [m |-> b.m, stage |-> "sent", here |-> TRUE]
                          ELSE [pending[t] EXCEPT !.here = @ /\ t \notin Own(b.m.hook)]]
  BY Zenon DEF Submit
<1>1. PICK b \in page.writes, s \in Slot :
         /\ pending[s].stage = "idle"
         /\ pending' = [t \in Slot |->
                          IF t = s THEN [m |-> b.m, stage |-> "sent", here |-> TRUE]
                          ELSE [pending[t] EXCEPT !.here = @ /\ t \notin Own(b.m.hook)]]
  BY <1>0, Zenon
<1>2. b.m \in Writes
  <2>1. loc \in Locations \/ AtLogin(loc)
    BY DEF PageInv, LocationOK, AtLogin, Login
  <2>2. page \in {TopBar, Sidebar(projectId(loc)), Route(loc)}
    <3>1. CASE AtLogin(loc)
      BY <1>1, <3>1 DEF OnScreen, Route, AtLogin
    <3>2. CASE ~AtLogin(loc)
      BY <1>1, <3>2, Zenon DEF OnScreen
    <3> QED
      BY <3>1, <3>2
  <2> QED
    BY <1>1, <2>1, <2>2, Offered
<1> DEFINE R == [m : Writes, stage : {"idle", "sent", "done", "refused"}, here : BOOLEAN]
<1>3. ASSUME NEW t \in Slot
      PROVE  /\ pending'[t] \in R
             /\ pending[t].stage = "done" =>
                   pending'[t].stage = "done" /\ pending'[t].m = pending[t].m
  <2>1. pending[t] \in R
    BY DEF WritesOK, Slots
  <2>2. CASE t = s
    BY <1>1, <1>2, <2>2
  <2>3. CASE t # s
    <3> DEFINE b1 == pending[t].here /\ t \notin Own(b.m.hook)
    <3>1. pending'[t] = [pending[t] EXCEPT !.here = b1]
      BY <1>1, <2>3
    <3>2. b1 \in BOOLEAN
      BY <2>1
    <3> HIDE DEF b1
    <3> QED
      BY <2>1, <3>1, <3>2
  <2> QED
    BY <2>2, <2>3
<1>4. pending' = [t \in Slot |-> pending'[t]]
  BY <1>1
<1>5. WritesOK'
  BY <1>3, <1>4 DEF WritesOK, Slots
<1> QED
  BY <1>3, <1>5

LEMMA StagedSlots ==
    ASSUME WritesOK, NEW s \in Slot, NEW x \in {"idle", "sent", "done", "refused"},
           pending[s].stage # "done", pending' = [pending EXCEPT ![s].stage = x]
    PROVE  /\ WritesOK' /\ pending'[s].stage = x /\ pending'[s].m = pending[s].m
           /\ \A t \in Slot : pending[t].stage = "done" => pending'[t] = pending[t]
<1> DEFINE R == [m : Writes, stage : {"idle", "sent", "done", "refused"}, here : BOOLEAN]
           g == [pending[s] EXCEPT !.stage = x]
<1>1. pending[s] \in R
  BY DEF WritesOK, Slots
<1>2. g \in R /\ g.stage = x /\ g.m = pending[s].m
  BY <1>1
<1>3. pending' = [pending EXCEPT ![s] = g]
  OBVIOUS
<1> HIDE DEF g
<1> QED
  BY <1>2, <1>3 DEF WritesOK, Slots

LEMMA OwnStep == PageInv /\ WritesOK /\ OwnInv /\ [Next]_vars => WritesOK' /\ OwnInv'
<1> SUFFICES ASSUME PageInv, WritesOK, OwnInv, [Next]_vars
             PROVE  WritesOK' /\ OwnInv'
  OBVIOUS
<1> DEFINE k == bound.key
<1>c. CacheOK /\ cache \in [{useMe, k} -> Entry] /\ DOMAIN cache = {useMe, k}
  BY DEF PageInv, CacheOK
<1>p. UNCHANGED pending => WritesOK' /\ (bound' = bound => (Awaited(k) => Awaited(k)'))
  BY AwaitedOn DEF WritesOK
<1>1. ASSUME NEW q \in DOMAIN cache, Serve(q)
      PROVE  WritesOK' /\ OwnInv'
  <2>1. PICK x \in {"current", "refused"} : cache' = [cache EXCEPT ![q].flight = x]
    BY <1>1, Zenon DEF Serve
  <2>2. UNCHANGED <<bound, loc, frozen, pending>>
    BY <1>1 DEF Serve
  <2>3. /\ Passes(cache'[useMe]) <=> Passes(cache[useMe])
        /\ DOMAIN cache' = DOMAIN cache
        /\ cache'[q].flight = x /\ (k # q => cache'[k] = cache[k])
    BY <1>c, <2>1, <2>2, ServedCache DEF Passes, CacheOK
  <2>4. k = q => ~Behind(cache'[k])
    BY <2>3 DEF Behind
  <2> QED
    BY <1>c, <1>p, <2>2, <2>3, <2>4, QuietOwn
<1>2. ASSUME NEW q \in DOMAIN cache, Arrive(q)
      PROVE  WritesOK' /\ OwnInv'
  BY <1>2, ArriveOwn
<1>3. ASSUME NEW q \in DOMAIN cache, Poll(q)
      PROVE  WritesOK' /\ OwnInv'
  <2>1. /\ UNCHANGED <<bound, loc, frozen, pending>>
        /\ cache' = [cache EXCEPT ![q] = Asked(cache[q])]
    BY <1>3 DEF Poll
  <2>2. k # q => cache'[k] = cache[k]
    BY <1>c, <2>1
  <2>3. k = q => ~Behind(cache'[k])
    BY <1>c, <2>1, AskedAhead
  <2>4. DOMAIN cache' = DOMAIN cache /\ Keeps(cache[useMe], cache'[useMe])
    BY <1>c, <2>1, EntrySteps
  <2> QED
    BY <1>c, <1>p, <2>1, <2>2, <2>3, <2>4, QuietOwn DEF Keeps
<1>4. CASE Reconnect
  <2>1. /\ UNCHANGED <<bound, loc, frozen, pending>>
        /\ cache' = [q \in DOMAIN cache |-> IF Watched(q) THEN Mounted(q, cache[q]) ELSE cache[q]]
    BY <1>4 DEF Reconnect
  <2>2. /\ DOMAIN cache' = DOMAIN cache
        /\ cache'[useMe] \in {cache[useMe], Mounted(useMe, cache[useMe])}
        /\ cache'[k] \in {cache[k], Mounted(k, cache[k])}
    BY <1>c, <2>1
  <2>3. Passes(cache'[useMe]) <=> Passes(cache[useMe])
    BY <1>c, <2>2, EntrySteps DEF Keeps
  <2>4. CASE k # useMe /\ cache'[k] = Mounted(k, cache[k])
    <3>1. Behind(cache'[k]) => Excused(cache'[k])
      BY <1>c, <2>4, MountedAhead DEF Excused
    <3> QED
      BY <1>c, <1>p, <2>1, <2>2, <2>3, <3>1, QuietOwn
  <2>5. CASE cache'[k] = cache[k]
    BY <1>c, <1>p, <2>1, <2>2, <2>3, <2>5, QuietOwn
  <2>6. CASE k = useMe
    BY <1>p, <2>1, <2>6 DEF OwnInv, UserData
  <2> QED
    BY <2>2, <2>4, <2>5, <2>6
<1>5. CASE Report
  BY <1>p, <1>5 DEF Report, OwnInv, UserData
<1>6. CASE Expire
  <2>1. UNCHANGED <<bound, loc, frozen, pending>> /\ cache' = Mark(cache, {useMe})
    BY <1>6 DEF Expire
  <2>2. /\ DOMAIN cache' = DOMAIN cache /\ (k # useMe => cache'[k] = cache[k])
        /\ Keeps(cache[useMe], cache'[useMe])
    BY <1>c, <2>1, MarkedCache DEF Mark
  <2> QED
    BY <1>c, <1>p, <2>1, <2>2, QuietOwn DEF Keeps, UserData
<1>7. CASE AuthGate \/ LeaveLogin \/ Follow \/ setFilter
  <2>1. bound' = bound /\ \E l, f : Render(cache, l, f, pending, edit)
    BY <1>7, NavigationRenders, Zenon
  <2> QED
    BY <1>c, <2>1, RendersOwn DEF OwnInv
<1>8. CASE Stale \/ OpenEdit \/ UNCHANGED vars
  <2>1. UNCHANGED <<bound, loc, frozen, cache, pending>>
    BY <1>8 DEF Stale, OpenEdit, vars
  <2> QED
    BY <1>c, <1>p, <2>1, QuietOwn
<1>9. CASE Submit
  <2>1. UNCHANGED <<bound, loc, frozen, cache>>
    BY <1>9 DEF Submit
  <2>2. WritesOK' /\ (Awaited(k) => Awaited(k)')
    BY <1>9, <2>1, SubmitOwn, AwaitedOn
  <2> QED
    BY <1>c, <2>1, <2>2, QuietOwn
<1>10. ASSUME NEW s \in Slot, Perform(s)
       PROVE  WritesOK' /\ OwnInv'
  <2> DEFINE m == pending[s].m
             keys == Changes(m) \cup (IF m.hook = "logout" THEN {useMe} ELSE {})
  <2>1. /\ UNCHANGED <<bound, loc, frozen>> /\ cache' = Mark(cache, keys)
        /\ pending[s].stage = "sent" /\ pending' = [pending EXCEPT ![s].stage = "done"]
    BY <1>10 DEF Perform, Effect
  <2>2. /\ WritesOK' /\ pending'[s].stage = "done" /\ pending'[s].m = m
        /\ \A t \in Slot : pending[t].stage = "done" => pending'[t] = pending[t]
    BY <2>1, StagedSlots
  <2>3. Awaited(k) => Awaited(k)'
    BY <2>1, <2>2, AwaitedOn
  <2> HIDE DEF keys
  <2>4. /\ DOMAIN cache' = DOMAIN cache /\ (k \notin keys => cache'[k] = cache[k])
        /\ Keeps(cache[useMe], cache'[useMe])
    BY <1>c, <2>1, MarkedCache DEF Mark
  <2>5. k \in keys /\ UserData(k) => Awaited(k)'
    BY <2>1, <2>2 DEF keys, UserData, Awaited
  <2>6. CASE UserData(k)
    BY <1>c, <2>1, <2>2, <2>3, <2>4, <2>5, <2>6, QuietOwn DEF Keeps
  <2>7. CASE ~UserData(k)
    BY <2>1, <2>2, <2>7 DEF OwnInv, UserData
  <2> QED
    BY <2>6, <2>7
<1>11. ASSUME NEW s \in Slot, Refuse(s)
       PROVE  WritesOK' /\ OwnInv'
  <2>1. /\ UNCHANGED <<bound, loc, frozen, cache>>
        /\ pending[s].stage = "sent" /\ pending' = [pending EXCEPT ![s].stage = "refused"]
    BY <1>11 DEF Refuse
  <2>2. WritesOK' /\ \A t \in Slot : pending[t].stage = "done" => pending'[t] = pending[t]
    BY <2>1, StagedSlots
  <2>3. Awaited(k) => Awaited(k)'
    BY <2>1, <2>2, AwaitedOn
  <2> QED
    BY <1>c, <2>1, <2>2, <2>3, QuietOwn
<1>12. ASSUME NEW s \in Slot, LoseAnswer(s)
       PROVE  WritesOK' /\ OwnInv'
  <2> DEFINE m == pending[s].m
             keys == Changes(m) \cup (IF m.hook = "logout" THEN {useMe} ELSE {})
             c == [q \in DOMAIN cache |->
                     IF q \in Changes(m) THEN [cache[q] EXCEPT !.missed = TRUE] ELSE cache[q]]
  <2>1. /\ UNCHANGED <<bound, loc, frozen>> /\ cache' = Mark(c, keys)
        /\ pending[s].stage = "sent" /\ pending' = [pending EXCEPT ![s].stage = "refused"]
    BY <1>12 DEF LoseAnswer, Effect
  <2>2. WritesOK' /\ \A t \in Slot : pending[t].stage = "done" => pending'[t] = pending[t]
    BY <2>1, StagedSlots
  <2>3. Awaited(k) => Awaited(k)'
    BY <2>1, <2>2, AwaitedOn
  <2>4. Passes(cache'[useMe]) <=> Passes(cache[useMe])
    BY <1>12, <1>c, MarkingSteps DEF Keeps
  <2>5. DOMAIN cache' = DOMAIN cache /\ cache'[k] = IF k \in keys THEN Outdated(c[k]) ELSE c[k]
    BY <1>c, <2>1 DEF Mark
  <2>6. CASE k \in Changes(m)
    <3> DEFINE g == [cache[k] EXCEPT !.missed = TRUE]
    <3>1. k \in keys /\ c[k] = g
      BY <1>c, <2>6
    <3>e. g \in Entry /\ g.missed
      BY <1>c DEF Entry
    <3> HIDE DEF c, g
    <3>2. c[k] \in Entry /\ c[k].missed
      BY <3>1, <3>e
    <3>3. Outdated(c[k]).missed
      BY <3>2 DEF Outdated, Entry
    <3>4. Excused(cache'[k])
      BY <2>5, <3>1, <3>3, Zenon DEF Excused
    <3> QED
      BY <1>c, <2>1, <2>2, <2>3, <2>4, <2>5, <3>4, QuietOwn
  <2>7. CASE k \notin Changes(m)
    <3>1. UserData(k) => cache'[k] = cache[k]
      BY <1>c, <2>5, <2>7 DEF UserData
    <3> QED
      BY <1>c, <2>1, <2>2, <2>3, <2>4, <2>5, <3>1, QuietOwn
  <2> QED
    BY <2>6, <2>7
<1>13. ASSUME NEW s \in Slot, LoggedIn(s)
       PROVE  WritesOK' /\ OwnInv'
  <2>1. bound' = bound /\ pending[s].m.hook = "login"
    BY <1>13 DEF LoggedIn
  <2>2. PICK c \in [{useMe, k} -> Entry] :
           Render(c, loc, frozen, Freed(s), edit) /\ (k # useMe => c[k] = cache[k])
    BY <1>13, <1>c, LoggedInRenders
  <2>3. /\ WritesOK'
        /\ \A t \in Slot \ {s} : /\ pending'[t].stage = pending[t].stage
                                 /\ Changes(pending'[t].m) = Changes(pending[t].m)
    BY <2>2, FreedSlots, RenderedSlots
  <2>4. Changes(pending[s].m) = {}
    BY <2>1 DEF Changes, ChangesGroups, ChangesProjects
  <2>5. Awaited(k) => Awaited(k)'
    BY <2>1, <2>3, <2>4 DEF Awaited
  <2> QED
    BY <1>c, <2>1, <2>2, <2>3, <2>5, RenderedOwn DEF OwnInv, UserData
<1>14. ASSUME NEW s \in Slot, LoggedOut(s)
       PROVE  WritesOK' /\ OwnInv'
  <2>1. /\ bound' = bound /\ pending' = Freed(s)
        /\ cache' = [q \in DOMAIN cache |-> IF q \in Frame(s) THEN Asked(Unloaded) ELSE Unloaded]
    BY <1>14 DEF LoggedOut
  <2>2. cache'[k] \in {Asked(Unloaded), Unloaded}
    BY <1>c, <2>1
  <2>3. ~Behind(cache'[k])
    BY <2>2, UnloadedEntry DEF Behind
  <2>4. WritesOK'
    BY <2>1, FreedSlots DEF WritesOK
  <2> QED
    BY <2>1, <2>3, <2>4, Zenon DEF OwnInv
<1>15. ASSUME NEW s \in Slot, Succeeded(s)
       PROVE  WritesOK' /\ OwnInv'
  BY <1>15, SucceededOwn
<1>16. ASSUME NEW s \in Slot, Failed(s)
       PROVE  WritesOK' /\ OwnInv'
  <2>1. /\ UNCHANGED <<bound, loc, frozen, cache>> /\ pending[s].stage = "refused"
        /\ pending' = Freed(s)
    BY <1>16 DEF Failed
  <2>2. /\ WritesOK'
        /\ \A t \in Slot : pending[t].stage = "done" => pending'[t] = pending[t]
    BY <2>1, FreedSlots DEF WritesOK
  <2>3. Awaited(k) => Awaited(k)'
    BY <2>1, <2>2, AwaitedOn
  <2> QED
    BY <1>c, <2>1, <2>2, <2>3, QuietOwn
<1> QED
  BY <1>1, <1>2, <1>3, <1>4, <1>5, <1>6, <1>7, <1>8, <1>9, <1>10, <1>11, <1>12, <1>13, <1>14,
     <1>15, <1>16 DEF Next, Settle

(***************************************************************************)
(* What the user has changed does not stay on the screen as it was: what a  *)
(* page shows is older than the user's own write only while the answer to   *)
(* the write or to the refetch is awaited, or when one of them failed or    *)
(* came to nothing in the ways that "missed" names (onSuccess of each hook  *)
(* against what its endpoint changes), whichever query is followed and      *)
(* however many mutations are under way.                                    *)
(***************************************************************************)
THEOREM OwnWritesAreShown == Spec => []OwnWritesShow
<1>1. PageInv /\ OwnInv => OwnWritesShow
  <2> SUFFICES ASSUME PageInv, OwnInv, NEW q \in DOMAIN cache \ (Reported \cup {useMe}),
                      Watched(q), cache[q].data = "old"
               PROVE  \/ cache[q].flight \in {"asked", "current", "refused"}
                      \/ cache[q].error \/ cache[q].missed
                      \/ \E s \in Slot : pending[s].stage = "done" /\ q \in Changes(pending[s].m)
    BY DEF OwnWritesShow
  <2>1. q = bound.key /\ UserData(q) /\ cache[q] \in Entry
    BY DEF PageInv, CacheOK, UserData
  <2>2. CASE cache[q].flight \in {"idle", "old"}
    BY <2>1, <2>2 DEF OwnInv, Behind, Excused, Awaited
  <2> QED
    BY <2>1, <2>2 DEF Entry
<1> QED
  BY PageInit, PageStep, OwnInit, OwnStep, <1>1, PTL DEF Spec

-----------------------------------------------------------------------------
(* Types.  The cache, the location and the mutations have theirs by the
   invariants above; this is the rest. *)
RestOK ==
    /\ bound \in Bounds
    /\ frozen \in {"no", "page", "blank"} /\ fresh \in BOOLEAN
    /\ edit \in Group \cup {None}
    /\ session \in {"in", "out"} /\ gone \subseteq Group
    /\ left \in Locations \cup {Login(l) : l \in Locations} \cup {None}

(* What a rendering leaves of the form is what it was given, or nothing. *)
LEMMA RenderedRest ==
    ASSUME NEW c, NEW l, NEW f \in {"no", "page", "blank"}, NEW p,
           NEW ed \in Group \cup {None}, Render(c, l, f, p, ed)
    PROVE  frozen' \in {"no", "page", "blank"} /\ edit' \in Group \cup {None}
BY DEF Render, Form

(* Only a group is deleted. *)
LEMMA DeletesGroups ==
    ASSUME NEW m \in Writes, m.hook = "deleteGroup"
    PROVE  m.on \in Group
<1>1. \A id : /\ useCreateGroup(id).hook # "deleteGroup" /\ useCreateProject(id).hook # "deleteGroup"
              /\ useCreateDsn(id).hook # "deleteGroup" /\ useRevokeDsn(id).hook # "deleteGroup"
              /\ useDeleteGroup(id).on = id
  BY DEF useCreateGroup, useCreateProject, useCreateDsn, useRevokeDsn, useDeleteGroup, Mutation
<1>2. useLogin.hook # "deleteGroup" /\ useLogout.hook # "deleteGroup"
  BY DEF useLogin, useLogout, Mutation
<1>3. \A on, keys : /\ Mutation("updateGroup", on, keys).hook # "deleteGroup"
                    /\ Mutation("moveGroup", on, keys).hook # "deleteGroup"
                    /\ Mutation("addMember", on, keys).hook # "deleteGroup"
                    /\ Mutation("removeMember", on, keys).hook # "deleteGroup"
  BY DEF Mutation
<1>4. m \in {useDeleteGroup(id) : id \in Group}
  BY <1>1, <1>2, <1>3 DEF Writes
<1> QED
  BY <1>1, <1>4

LEMMA EffectTypes ==
    ASSUME RestOK, NEW m \in Writes, NEW c, Effect(m, c)
    PROVE  /\ session' \in {"in", "out"} /\ gone' \subseteq Group
           /\ left' \in Locations \cup {Login(l) : l \in Locations} \cup {None}
BY DeletesGroups DEF RestOK, Effect

LEMMA RestStep == PageInv /\ WritesOK /\ RestOK /\ [Next]_vars => RestOK'
<1> SUFFICES ASSUME PageInv, WritesOK, RestOK, [Next]_vars PROVE RestOK'
  OBVIOUS
<1>1. CASE UNCHANGED <<bound, frozen, fresh, edit, session, gone, left>>
  BY <1>1 DEF RestOK
<1>2. ASSUME NEW q, Serve(q) \/ Poll(q) PROVE RestOK'
  BY <1>1, <1>2 DEF Serve, Poll
<1>3. ASSUME NEW q, Arrive(q) PROVE RestOK'
  <2>1. PICK c : Render(c, loc, frozen, pending, edit)
    BY <1>3, Zenon DEF Arrive
  <2>2. frozen' \in {"no", "page", "blank"} /\ edit' \in Group \cup {None}
    BY <2>1, RenderedRest DEF RestOK
  <2>3. fresh' \in BOOLEAN /\ UNCHANGED <<bound, session, gone, left>>
    BY <1>3 DEF Arrive
  <2> QED
    BY <2>2, <2>3 DEF RestOK
<1>4. CASE Stale
  BY <1>4 DEF Stale, RestOK
<1>5. CASE Reconnect \/ Report \/ Submit
  BY <1>1, <1>5 DEF Reconnect, Report, Submit
<1>6. CASE Expire
  BY <1>6 DEF Expire, RestOK
<1>7. ASSUME NEW l, NEW f \in {frozen, "no"}, Render(cache, l, f, pending, edit),
             UNCHANGED <<bound, fresh, session, gone, left>>
      PROVE  RestOK'
  <2>1. frozen' \in {"no", "page", "blank"} /\ edit' \in Group \cup {None}
    BY <1>7, RenderedRest DEF RestOK
  <2> QED
    BY <1>7, <2>1 DEF RestOK
<1>8. CASE AuthGate \/ LeaveLogin
  BY <1>7, <1>8 DEF AuthGate, LeaveLogin, Rest
<1>9. CASE Follow
  BY <1>7, <1>9, Zenon DEF Follow
<1>10. CASE setFilter
  BY <1>7, <1>10, Zenon DEF setFilter
<1>11. CASE OpenEdit
  <2>1. loc \in Locations
    BY <1>11 DEF OpenEdit, PageInv, LocationOK, Login
  <2>2. loc[2] \in Group
    BY <1>11, <2>1, LocationKinds DEF OpenEdit
  <2> QED
    BY <1>11, <2>2 DEF OpenEdit, RestOK
<1>12. ASSUME NEW s \in Slot, Perform(s) \/ LoseAnswer(s) PROVE RestOK'
  <2>1. pending[s].m \in Writes
    BY DEF WritesOK, Slots
  <2>2. PICK c : Effect(pending[s].m, c)
    BY <1>12, Zenon DEF Perform, LoseAnswer
  <2>3. UNCHANGED <<bound, frozen, fresh, edit>>
    BY <1>12 DEF Perform, LoseAnswer
  <2> QED
    BY <2>1, <2>2, <2>3, EffectTypes DEF RestOK
<1>13. ASSUME NEW s \in Slot, Refuse(s) \/ Failed(s) PROVE RestOK'
  BY <1>1, <1>13 DEF Refuse, Failed
<1>14. ASSUME NEW s \in Slot, LoggedIn(s) PROVE RestOK'
  <2>1. PICK c : Render(c, loc, frozen, Freed(s), edit)
    BY <1>14, Zenon DEF LoggedIn
  <2>2. frozen' \in {"no", "page", "blank"} /\ edit' \in Group \cup {None}
    BY <2>1, RenderedRest DEF RestOK
  <2> QED
    BY <1>14, <2>2 DEF LoggedIn, RestOK
<1>15. ASSUME NEW s \in Slot, LoggedOut(s) PROVE RestOK'
  <2>1. frozen' \in {"no", "page", "blank"}
    BY <1>15 DEF LoggedOut, Kept
  <2>2. left' \in {left, loc} /\ UNCHANGED <<bound, fresh, edit, session, gone>>
    BY <1>15 DEF LoggedOut
  <2> QED
    BY <2>1, <2>2 DEF RestOK, PageInv, LocationOK
<1>16. ASSUME NEW s \in Slot, Succeeded(s) PROVE RestOK'
  <2> DEFINE away == pending[s].here /\ pending[s].m.hook = "deleteGroup"
             f  == IF away THEN "no" ELSE frozen
             ed == IF pending[s].here /\ pending[s].m.hook = "updateGroup" THEN None ELSE edit
  <2>1. PICK c : Render(c, IF away THEN Groups ELSE loc, f, Freed(s), ed)
    BY <1>16, Zenon DEF Succeeded
  <2>2. f \in {"no", "page", "blank"} /\ ed \in Group \cup {None}
    BY DEF RestOK
  <2> HIDE DEF away, f, ed
  <2>3. frozen' \in {"no", "page", "blank"} /\ edit' \in Group \cup {None}
    BY <2>1, <2>2, RenderedRest
  <2> QED
    BY <1>16, <2>3 DEF Succeeded, Rest, RestOK
<1>17. CASE UNCHANGED vars
  BY <1>1, <1>17 DEF vars
<1> QED
  BY <1>2, <1>3, <1>4, <1>5, <1>6, <1>8, <1>9, <1>10, <1>11, <1>12, <1>13, <1>14, <1>15,
     <1>16, <1>17 DEF Next, Settle

(* Every variable keeps its type: the router stays on its routes, entries of the
   cache keep their shape through every answer, retry and invalidation, and only
   groups are ever edited or deleted, whatever pages the user goes through. *)
THEOREM TypeCorrect == Spec => []TypeOK
<1>1. Init => RestOK
  BY DEF Init, RestOK
<1>2. PageInv /\ WritesOK /\ RestOK => TypeOK
  BY DEF PageInv, CacheOK, LocationOK, Entry, WritesOK, Slots, RestOK, TypeOK
<1> QED
  BY PageInit, PageStep, OwnInit, OwnStep, RestStep, <1>1, <1>2, PTL DEF Spec

=============================================================================
