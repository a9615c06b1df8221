--------------------------- MODULE ControlFrontend ---------------------------
(***************************************************************************)
(* The single page application of the Control Dashboard: the routes behind  *)
(* the gate, the cache of answers that its hooks share (TanStack Query, an  *)
(* external library), the mutations under way and the session at the server *)
(* they all depend on.                                                      *)
(*                                                                          *)
(* Queries do not touch one another: the model follows /auth/me and one     *)
(* other query, any one, and lets the rest be as they like.  Another query  *)
(* only decides which rows a page shows, and those may be any (Pages).      *)
(* An answer is "current" while the server would give it again, "old" from  *)
(* then on.                                                                 *)
(***************************************************************************)
EXTENDS Pages, FiniteSets

CONSTANTS
    Slot,           \* mutations that may be under way together   (bound)
    Bounds          \* the query to follow, where the user starts, which
                    \* hooks the user's clicks call and how often what
                    \* happens: one is chosen                     (bound)

ASSUME FrontendConstants ==
    /\ None \notin Group \cup Project \cup Run
    /\ \A b \in Bounds : /\ b.start \in Locations
                         /\ \A what \in {"clicks", "faults", "reports", "expiries", "offline"} :
                               b[what] \in Nat

VARIABLES
    bound, used,    \* the chosen member of Bounds, and how much of it is used
    loc,            \* the location of the router
    frozen,         \* what the gate keeps showing since qc.clear(), if anything
    cache,          \* the followed queries
    fresh,          \* the data of /auth/me is younger than its staleTime
    pending,        \* the mutations under way
    edit,           \* the group whose values the open edit form holds
    session,        \* the cookie is good, at the server
    gone,           \* groups that have been deleted, at the server
    left            \* history: where the user signed out, until the next login
                    \* or the late answer to an earlier one

vars == <<bound, used, loc, frozen, cache, fresh, pending, edit, session, gone, left>>

Unloaded == [data |-> "none", flight |-> "idle", tries |-> 0, error |-> FALSE, missed |-> FALSE]
NoWrite  == [m |-> useLogout, stage |-> "idle", here |-> FALSE]

Use(what) == used[what] < bound[what] /\ used' = [used EXCEPT ![what] = @ + 1]

TypeOK ==
    /\ bound \in Bounds
    /\ loc \in Locations \cup {Login(l) : l \in Locations}
    /\ frozen \in {"no", "page", "blank"} /\ fresh \in BOOLEAN
    /\ cache \in [{useMe, bound.key} ->
                    [data : {"none", "current", "old"},
                     flight : {"idle", "asked", "current", "old", "refused"},
                     tries : 0 .. 1, error : BOOLEAN, missed : BOOLEAN]]
    /\ DOMAIN pending = Slot
    /\ \A s \in Slot : /\ pending[s].stage \in {"idle", "sent", "done", "refused"}
                       /\ pending[s].here \in BOOLEAN
    /\ edit \in Group \cup {None}
    /\ session \in {"in", "out"} /\ gone \subseteq Group
    /\ left \in Locations \cup {Login(l) : l \in Locations} \cup {None}

-----------------------------------------------------------------------------
(***************************************************************************)
(* What is on the screen.  The gate lets a page through when /auth/me has   *)
(* data and no error, shows nothing while it loads, and sends the user to   *)
(* the login page otherwise; that one sends back whoever has data.          *)
(***************************************************************************)
AtLogin(l) == l[1] = "login"
Loading(e) == e.data = "none" /\ e.flight # "idle"
Passes(e)  == e.data # "none" /\ ~e.error

Open(c, l, f) ==
    /\ ~AtLogin(l)
    /\ f = "page" \/ (f = "no" /\ Passes(c[useMe]))

(***************************************************************************)
(* Who observes which query.  A component that stays mounted over a change  *)
(* of location observes on.  After qc.clear() an observer hangs on a query  *)
(* that the cache no longer has, until it fetches again or is rendered.     *)
(***************************************************************************)
Layout(l) == {<<"layout", useMe>>, <<"sidebar", useProject(projectId(l))>>}
Reads(l)  == {<<l[1], q>> : q \in Route(l).reads}

Dropped(c, o) ==
    /\ o[2] \in DOMAIN c
    /\ c[o[2]].data = "none" /\ c[o[2]].flight = "idle" /\ ~c[o[2]].error

Watch(c, l, f) ==
    IF AtLogin(l) THEN {<<"login", useMe>>}
    ELSE IF ~Open(c, l, f) THEN {<<"gate", useMe>> : g \in {f} \cap {"no"}}
    ELSE IF f = "no" THEN {<<"gate", useMe>>} \cup Layout(l) \cup Reads(l)
    ELSE {o \in Layout(l) \cup Reads(l) : ~Dropped(c, o)}

Watched(q) == \E o \in Watch(cache, loc, frozen) : o[2] = q

-----------------------------------------------------------------------------
(***************************************************************************)
(* The query cache.  A fetch joins one that is in the air; an answer that   *)
(* is already old by then is all that the caller will get (missed, which is *)
(* history: no step depends on it).  An error leaves the data alone and is  *)
(* forgotten when a first load starts.                                      *)
(***************************************************************************)
Asked(e) == [e EXCEPT !.flight = "asked", !.tries = 0, !.error = e.error /\ e.data # "none"]

Fetched(e) ==
    IF e.flight = "idle" THEN Asked(e) ELSE [e EXCEPT !.missed = @ \/ e.flight = "old"]

\* A mount fetches what is stale: everything but /auth/me always is.
Mounted(q, e) ==
    IF q = useMe /\ fresh /\ e.data # "none" THEN e ELSE Fetched(e)

\* An invalidation cancels what is in the air, unless that is the first load.
Refetched(e) == IF e.data = "none" THEN Fetched(e) ELSE Asked(e)

Outdated(e) ==
    [e EXCEPT !.data   = IF @ = "current" THEN "old" ELSE @,
              !.flight = IF @ = "current" THEN "old" ELSE @]

Mark(c, keys) == [q \in DOMAIN c |-> IF q \in keys THEN Outdated(c[q]) ELSE c[q]]

(***************************************************************************)
(* Every step ends in a rendering: what is mounted now and was not before   *)
(* fetches; what is unmounted loses its state and its mutations their       *)
(* callbacks.                                                               *)
(***************************************************************************)
Shown(c, l, f) == IF AtLogin(l) THEN "login" ELSE IF Open(c, l, f) THEN l[1] ELSE "nothing"

Stays(p, before, after) ==
    \/ before = after
    \/ p.m.hook = "logout" /\ {before, after} \cap {"login", "nothing"} = {}

\* Mutant: the open form is kept in a store instead of in the page.
FormInStore(before, after, ed) == ed

Form(before, after, ed) == IF before = after THEN ed ELSE None

Render(c, l, f, p, ed) ==
    LET new    == Watch(c, l, f) \ Watch(cache, loc, frozen)
        before == Shown(cache, loc, frozen)
        after  == Shown(c, l, f)
    IN  /\ loc' = l /\ frozen' = f
        /\ cache' = [q \in DOMAIN c |->
                       IF \E o \in new : o[2] = q THEN Mounted(q, c[q]) ELSE c[q]]
        /\ pending' = [s \in Slot |->
                         LET here == p[s].here /\ Stays(p[s], before, after)
                         IN  [p[s] EXCEPT !.here = here,
                                          !.m = IF here /\ l \in GroupPages
                                                THEN Rendered(@, l[2]) ELSE @]]
        /\ edit' = Form(before, after, ed)

-----------------------------------------------------------------------------
Init ==
    /\ bound \in Bounds
    /\ used = [what \in {"clicks", "faults", "reports", "expiries", "offline"} |-> 0]
    /\ loc = bound.start
    /\ frozen = "no" /\ fresh = FALSE
    /\ cache = [q \in {useMe, bound.key} |-> IF q = useMe THEN Asked(Unloaded) ELSE Unloaded]
    /\ pending = [s \in Slot |-> NoWrite]
    /\ edit = None
    /\ session \in {"in", "out"} /\ gone = {} /\ left = None

(***************************************************************************)
(* A request is answered, by 401 without a session and by 404 for a group   *)
(* that is gone, or fails.                                                  *)
(***************************************************************************)
Answers(q) == session = "in" /\ \A g \in gone : q # useGroup(g)

Serve(q) ==
    /\ cache[q].flight = "asked"
    /\ \/ /\ cache' = [cache EXCEPT ![q].flight = IF Answers(q) THEN "current" ELSE "refused"]
          /\ UNCHANGED used
       \/ /\ Use("faults")
          /\ cache' = [cache EXCEPT ![q].flight = "refused"]
    /\ UNCHANGED <<bound, loc, frozen, fresh, pending, edit, session, gone, left>>

Arrive(q) ==
    LET e == cache[q]
        e2 == IF e.flight = "refused"
              THEN IF e.tries < Retries(q) THEN [e EXCEPT !.flight = "asked", !.tries = 1]
                   ELSE [e EXCEPT !.flight = "idle", !.error = TRUE]
              ELSE [data |-> e.flight, flight |-> "idle", tries |-> 0, error |-> FALSE,
                    missed |-> e.missed /\ e.flight = "old"]
    IN  /\ e.flight \in {"current", "old", "refused"}
        /\ fresh' = (fresh \/ (q = useMe /\ e.flight # "refused"))
        /\ Render([cache EXCEPT ![q] = e2], loc, frozen, pending, edit)
        /\ UNCHANGED <<bound, used, session, gone, left>>

\* Mutant: no longer after a refetch that failed.
PollUntilError(q) ==
    /\ q \in Polled /\ Open(cache, loc, frozen) /\ q \in Route(loc).reads
    /\ cache[q].flight = "idle" /\ ~cache[q].error
    /\ cache' = [cache EXCEPT ![q] = Asked(@)]
    /\ UNCHANGED <<bound, used, loc, frozen, fresh, pending, edit, session, gone, left>>

\* The timer of a hook with refetchInterval.
Poll(q) ==
    /\ q \in Polled /\ Open(cache, loc, frozen) /\ q \in Route(loc).reads
    /\ cache[q].flight = "idle"
    /\ cache' = [cache EXCEPT ![q] = Asked(@)]
    /\ UNCHANGED <<bound, used, loc, frozen, fresh, pending, edit, session, gone, left>>

\* Thirty seconds after the last answer to /auth/me.
Stale ==
    /\ fresh /\ fresh' = FALSE
    /\ UNCHANGED <<bound, used, loc, frozen, cache, pending, edit, session, gone, left>>

\* The browser is online again: what is watched and stale is fetched.
Reconnect ==
    /\ Use("offline")
    /\ cache' = [q \in DOMAIN cache |-> IF Watched(q) THEN Mounted(q, cache[q]) ELSE cache[q]]
    /\ UNCHANGED <<bound, loc, frozen, fresh, pending, edit, session, gone, left>>

\* What the runtimes report: everything polled, and the jobs.
Reported == Polled \cup {useProjectJobs(p) : p \in Project}

Report ==
    /\ bound.key \in Reported /\ Use("reports")
    /\ cache' = Mark(cache, {bound.key})
    /\ UNCHANGED <<bound, loc, frozen, fresh, pending, edit, session, gone, left>>

Expire ==
    /\ session = "in" /\ Use("expiries")
    /\ session' = "out"
    /\ cache' = Mark(cache, {useMe})
    /\ UNCHANGED <<bound, loc, frozen, fresh, pending, edit, gone, left>>

-----------------------------------------------------------------------------
(***************************************************************************)
(* The gate and the login page redirect.  A path is remembered without the  *)
(* filter, which is state of the page.                                      *)
(***************************************************************************)
Path(l) == IF l[1] = "projects" THEN Projects("all") ELSE l

Rest == <<bound, used, fresh, session, gone, left>>

AuthGate ==
    /\ ~AtLogin(loc) /\ frozen = "no"
    /\ ~Loading(cache[useMe]) /\ ~Passes(cache[useMe])
    /\ Render(cache, Login(Path(loc)), "no", pending, edit)
    /\ UNCHANGED Rest

\* Mutant: trusts no data that is older than its staleTime.
LeaveLoginFresh ==
    /\ AtLogin(loc) /\ cache[useMe].data # "none" /\ fresh
    /\ Render(cache, loc[2], "no", pending, edit)
    /\ UNCHANGED Rest

LeaveLogin ==
    /\ AtLogin(loc) /\ cache[useMe].data # "none"
    /\ Render(cache, loc[2], "no", pending, edit)
    /\ UNCHANGED Rest

-----------------------------------------------------------------------------
(***************************************************************************)
(* The user.  A page whose query has no data shows what needs it not; of a  *)
(* query that is not followed that is not known.                            *)
(***************************************************************************)
HasData(key) == key \in DOMAIN cache => cache[key].data # "none"

OnScreen ==
    IF AtLogin(loc) THEN {LoginPage}
    ELSE IF ~Open(cache, loc, frozen) THEN {}
    ELSE {TopBar, Sidebar(projectId(loc))}
            \cup {p \in {Route(loc)} : \A key \in p.needs : HasData(key)}

\* A link to /projects from there leaves the filter as it is.
Follow ==
    /\ Use("clicks")
    /\ \E page \in OnScreen : \E link \in page.links :
          /\ HasData(link.of)
          /\ Render(cache, IF Path(loc) = link.to THEN loc ELSE link.to, "no", pending, edit)
    /\ UNCHANGED <<bound, fresh, session, gone, left>>

setFilter ==
    /\ Use("clicks")
    /\ loc[1] = "projects" /\ Route(loc) \in OnScreen
    /\ \E f \in {"all", "root"} \cup (IF HasData(useGroups) THEN Group ELSE {}) :
          Render(cache, Projects(f), frozen, pending, edit)
    /\ UNCHANGED <<bound, fresh, session, gone, left>>

OpenEdit ==
    /\ Use("clicks")
    /\ loc[1] = "group" /\ Route(loc) \in OnScreen
    /\ edit' \in {loc[2], None}
    /\ UNCHANGED <<bound, loc, frozen, cache, fresh, pending, session, gone, left>>

\* A second call of a hook takes over from its first: that one's callbacks are
\* dropped.
Own(hook) == {s \in Slot : pending[s].here /\ pending[s].m.hook = hook}

Submit ==
    /\ Use("clicks")
    /\ \E page \in OnScreen : \E b \in page.writes : \E s \in Slot :
          /\ b.m.hook \in bound.hooks
          /\ HasData(b.of) /\ pending[s].stage = "idle"
          /\ b.guard => Own(b.m.hook) = {}
          /\ b.m.hook = "updateGroup" => edit # None
          /\ pending' = [t \in Slot |->
                           IF t = s THEN [m |-> b.m, stage |-> "sent", here |-> TRUE]
                           ELSE [pending[t] EXCEPT !.here = @ /\ t \notin Own(b.m.hook)]]
    /\ UNCHANGED <<bound, loc, frozen, cache, fresh, edit, session, gone, left>>

-----------------------------------------------------------------------------
(***************************************************************************)
(* A mutation at the server.  It may be refused: a taken slug, a group that *)
(* is not empty, a wrong password, no session.                              *)
(***************************************************************************)
Permitted(m) ==
    \/ m.hook \in {"login", "logout"}
    \/ session = "in" /\ m.on \notin gone

Effect(m, c) ==
    /\ session' = IF m.hook = "login" THEN "in" ELSE IF m.hook = "logout" THEN "out" ELSE session
    /\ gone' = IF m.hook = "deleteGroup" THEN gone \cup {m.on} ELSE gone
    /\ left' = IF m.hook = "login" THEN None ELSE left
    /\ cache' = Mark(c, Changes(m) \cup (IF m.hook = "logout" THEN {useMe} ELSE {}))

Perform(s) ==
    /\ pending[s].stage = "sent" /\ Permitted(pending[s].m)
    /\ pending' = [pending EXCEPT ![s].stage = "done"]
    /\ Effect(pending[s].m, cache)
    /\ UNCHANGED <<bound, used, loc, frozen, fresh, edit>>

Refuse(s) ==
    /\ pending[s].stage = "sent" /\ pending[s].m.hook # "logout"
    /\ pending' = [pending EXCEPT ![s].stage = "refused"]
    /\ UNCHANGED <<bound, used, loc, frozen, cache, fresh, edit, session, gone, left>>

\* It is done, but the answer is lost: to the page it has failed.
LoseAnswer(s) ==
    LET m == pending[s].m
    IN  /\ pending[s].stage = "sent" /\ Permitted(m) /\ Use("faults")
        /\ pending' = [pending EXCEPT ![s].stage = "refused"]
        /\ Effect(m, [q \in DOMAIN cache |->
                        IF q \in Changes(m) THEN [cache[q] EXCEPT !.missed = TRUE] ELSE cache[q]])
        /\ UNCHANGED <<bound, loc, frozen, fresh, edit>>

(***************************************************************************)
(* Its answer: onSuccess of the hook, then the callbacks of the call if the *)
(* page is still there.  setQueryData of the login leaves a request for     *)
(* /auth/me in the air.  qc.clear() of the logout drops what is in the air  *)
(* and tells no observer: the gate goes on with the page, or with waiting   *)
(* for /auth/me.  Only the frame is rendered again, its mutation having     *)
(* ended.  What a diverted hook leaves alone has missed the write.          *)
(***************************************************************************)
Freed(s) == [pending EXCEPT ![s] = NoWrite]

LoggedIn(s) ==
    /\ pending[s].stage = "done" /\ pending[s].m.hook = "login"
    /\ fresh' = TRUE
    /\ Render([cache EXCEPT ![useMe].data = IF session = "in" THEN "current" ELSE "old",
                            ![useMe].error = FALSE],
              loc, frozen, Freed(s), edit)
    /\ left' = None
    /\ UNCHANGED <<bound, used, session, gone>>

Kept(l) ==
    IF Open(cache, l, frozen) THEN "page"
    ELSE IF ~AtLogin(l) /\ (frozen = "blank" \/ Loading(cache[useMe])) THEN "blank"
    ELSE "no"

Frame(s) ==
    IF pending[s].here /\ Open(cache, loc, frozen)
    THEN {useMe, useProject(projectId(loc))} ELSE {}

\* Mutant: what is in the air still lands in the cache.
LoggedOutLazily(s) ==
    /\ pending[s].stage = "done" /\ pending[s].m.hook = "logout"
    /\ frozen' = Kept(loc)
    /\ cache' = [q \in DOMAIN cache |->
                   LET e == [Unloaded EXCEPT !.flight = cache[q].flight]
                   IN  IF q \in Frame(s) THEN Fetched(e) ELSE e]
    /\ pending' = Freed(s)
    /\ left' = IF session = "out" THEN loc ELSE left
    /\ UNCHANGED <<bound, used, loc, fresh, edit, session, gone>>

LoggedOut(s) ==
    /\ pending[s].stage = "done" /\ pending[s].m.hook = "logout"
    /\ frozen' = Kept(loc)
    /\ cache' = [q \in DOMAIN cache |-> IF q \in Frame(s) THEN Asked(Unloaded) ELSE Unloaded]
    /\ pending' = Freed(s)
    /\ left' = IF session = "out" THEN loc ELSE left
    /\ UNCHANGED <<bound, used, loc, fresh, edit, session, gone>>

Succeeded(s) ==
    LET p == pending[s]
        c == [q \in DOMAIN cache |->
                IF ~Watched(q) THEN cache[q]
                ELSE IF Invalidates(p.m, q) THEN Refetched(cache[q])
                ELSE [cache[q] EXCEPT !.missed = @ \/ (Diverted(p.m) /\ q \in Changes(p.m))]]
        away == p.here /\ p.m.hook = "deleteGroup"
    IN  /\ p.stage = "done" /\ p.m.hook \notin {"login", "logout"}
        /\ Render(c, IF away THEN Groups ELSE loc, IF away THEN "no" ELSE frozen, Freed(s),
                  IF p.here /\ p.m.hook = "updateGroup" THEN None ELSE edit)
        /\ UNCHANGED Rest

Failed(s) ==
    /\ pending[s].stage = "refused"
    /\ pending' = Freed(s)
    /\ UNCHANGED <<bound, used, loc, frozen, cache, fresh, edit, session, gone, left>>

Settle(s) == LoggedIn(s) \/ LoggedOut(s) \/ Succeeded(s) \/ Failed(s)

-----------------------------------------------------------------------------
Next ==
    \/ \E q \in DOMAIN cache : Serve(q) \/ Arrive(q) \/ Poll(q)
    \/ Stale \/ Reconnect \/ Report \/ Expire
    \/ AuthGate \/ LeaveLogin
    \/ Follow \/ setFilter \/ OpenEdit \/ Submit
    \/ \E s \in Slot : Perform(s) \/ Refuse(s) \/ LoseAnswer(s) \/ Settle(s)

Spec == Init /\ [][Next]_vars

(***************************************************************************)
(* Answers come, timers fire and redirects take place.  Nothing is promised *)
(* of the user.                                                             *)
(***************************************************************************)
FairSpec ==
    /\ Spec
    /\ WF_vars(Serve(useMe) \/ Arrive(useMe))
    /\ WF_vars(Serve(bound.key) \/ Arrive(bound.key)) /\ WF_vars(Poll(bound.key))
    /\ WF_vars(Stale) /\ WF_vars(AuthGate) /\ WF_vars(LeaveLogin)
    /\ \A s \in Slot : WF_vars(Perform(s) \/ Refuse(s)) /\ WF_vars(Settle(s))

-----------------------------------------------------------------------------
(***************************************************************************)
(* What a page shows is refetched when the user has changed it: data that   *)
(* is older than the user's own write is on the screen only as long as the  *)
(* answer to the write or to the refetch is awaited, or when one of them    *)
(* failed, or when the refetch joined a request that was in the air, or     *)
(* when the hook was rendered with another group in between, whose queries  *)
(* it refetches instead (the onSuccess of each hook against what its        *)
(* endpoint changes).                                                       *)
(***************************************************************************)
OwnWritesShow ==
    \A q \in DOMAIN cache \ (Reported \cup {useMe}) :
       (Watched(q) /\ cache[q].data = "old") =>
          \/ cache[q].flight \in {"asked", "current", "refused"}
          \/ cache[q].error \/ cache[q].missed
          \/ \E s \in Slot : pending[s].stage = "done" /\ q \in Changes(pending[s].m)

(***************************************************************************)
(* "sees the run, the logs ... live": once the runtimes, the network and    *)
(* the user are quiet, what a page polls is what the server has.            *)
(***************************************************************************)
PolledCatchUp ==
    <>[](\A q \in DOMAIN cache \cap Polled :
            (Watched(q) /\ session = "in") => cache[q].data = "current")

(***************************************************************************)
(* The gate comes to a decision: the login form for who has no session data *)
(* and the page for who has.  It does not when the session ended after its  *)
(* data was cached and /auth/me has said so since, data and error together: *)
(* then gate and login page send the user to each other for good.  Nor when *)
(* a second sign out drops the request that the gate waits for.             *)
(***************************************************************************)
Decided ==
    \/ AtLogin(loc) /\ cache[useMe].data = "none"
    \/ Open(cache, loc, frozen)

GateDecides ==
    \/ <>[]Decided
    \/ <>[](cache[useMe].data = "old" /\ cache[useMe].error)
    \/ <>[](frozen = "blank")

(***************************************************************************)
(* After signing out nothing that was loaded for the user is in the cache   *)
(* or gets there again, and the only page still shown is the one that the   *)
(* user signed out on, however requests, redirects and clicks interleave.   *)
(* (Only the answer to a login, a late one too, brings a user back.)        *)
(***************************************************************************)
SignedOutForgets ==
    left # None =>
       /\ \A q \in DOMAIN cache : cache[q].data = "none"
       /\ Open(cache, loc, frozen) => Path(loc) = Path(left)

(***************************************************************************)
(* The values of one group come to stand in the edit form of another only   *)
(* by a link from group to group: the form is the state of GroupDetailPage, *)
(* which stays mounted then and is unmounted by every other way out.        *)
(***************************************************************************)
Stray(l, ed) == ed # None /\ l # GroupAt(ed)

EditStraysByLink ==
    [][(Stray(loc, edit))' => \/ Stray(loc, edit)
                              \/ loc = GroupAt(edit) /\ loc' \in GroupPages]_vars

=============================================================================
