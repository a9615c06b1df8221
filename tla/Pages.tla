-------------------------------- MODULE Pages --------------------------------
(***************************************************************************)
(* The routes of main.tsx and what each page of the Control Dashboard       *)
(* offers: the queries it reads, the links it shows and the mutations its   *)
(* forms and buttons make.  What stands in the rows of a table is there     *)
(* only when the query of the table has data (of); which rows those are is  *)
(* the server's, so every group, project and run may be among them.         *)
(***************************************************************************)
EXTENDS Hooks

\* Locations: the path, and the filter that is chosen on /projects.
Login(from)    == <<"login", from>>
Overview       == <<"overview">>
Groups         == <<"groups">>
GroupAt(id)    == <<"group", id>>
Projects(f)    == <<"projects", f>>
ProjectAt(id)  == <<"project", id>>
JobsOf(id)     == <<"jobs", id>>
RunsOf(id)     == <<"runs", id>>
RunAt(id, run) == <<"run", id, run>>
NodesOf(id)    == <<"nodes", id>>
DsnsOf(id)     == <<"dsns", id>>

Always == <<>>  \* shown whatever has been loaded

Fixed(locs)     == {[to |-> l, of |-> Always] : l \in locs}
Rows(key, locs) == {[to |-> l, of |-> key] : l \in locs}

\* A mutation that the page offers; with guard, its button is disabled while
\* the page's own one is pending.
Button(m, key, guard) == [m |-> m, of |-> key, guard |-> guard]

Page(needs, reads, links, writes) ==
    [needs |-> needs, reads |-> reads, links |-> links, writes |-> writes]

GroupPages   == {GroupAt(g) : g \in Group}
ProjectPages == {ProjectAt(p) : p \in Project}
RunPages(p)  == {RunAt(p, r) : r \in Run}
Filters      == {"all", "root"} \cup Group

-----------------------------------------------------------------------------
LoginPage ==
    Page({}, {useMe}, {}, {Button(useLogin, Always, TRUE)})

GlobalOverviewPage ==
    Page({}, {useGlobalKpis, useProjects("all")},
         Fixed({Projects("all")}) \cup Rows(useProjects("all"), ProjectPages), {})

GroupNodeRow == Rows(useGroupTree, GroupPages)

GroupsListPage ==
    Page({}, {useGroupTree, useProjects("root")},
         GroupNodeRow \cup Rows(useProjects("root"), ProjectPages),
         {Button(useCreateGroup(None), Always, TRUE)})

(***************************************************************************)
(* The page of a group.  Without the group's data it is an empty page.      *)
(***************************************************************************)
submitSubgroup(id)  == useCreateGroup(id)
submitProject(id)   == useCreateProject(id)
submitEdit(id)      == useUpdateGroup(id)
submitMove(id)      == useMoveGroup(id)
submitDelete(id)    == useDeleteGroup(id)
submitAddMember(id) == useAddGroupMember(id)

EditForm(id)     == Button(submitEdit(id), Always, TRUE)
MoveSelect(id)   == Button(submitMove(id), Always, TRUE)
DeleteButton(id) == Button(submitDelete(id), Always, FALSE)
SubgroupForm(id) == Button(submitSubgroup(id), Always, TRUE)
ProjectForm(id)  == Button(submitProject(id), Always, TRUE)
MemberForm(id)   == Button(submitAddMember(id), Always, TRUE)
MemberRows(id)   == Button(useRemoveGroupMember(id), useGroupMembers(id), FALSE)

Breadcrumbs(id) == Fixed({Groups} \cup (GroupPages \ {GroupAt(id)}))
Subgroups(id)   == Rows(useGroup(id), GroupPages \ {GroupAt(id)})
ProjectsIn(id)  == Rows(useGroup(id), ProjectPages)

GroupDetailPage(id) ==
    Page({useGroup(id)},
         {useGroup(id), useGroups, useGroupMembers(id)},
         Breadcrumbs(id) \cup Subgroups(id) \cup ProjectsIn(id),
         {EditForm(id), MoveSelect(id), DeleteButton(id), SubgroupForm(id),
          ProjectForm(id), MemberForm(id), MemberRows(id)})

-----------------------------------------------------------------------------
ProjectsListPage(filter) ==
    Page({}, {useGroups, useProjects(filter)},
         Fixed({Projects("all"), Projects("root")})
            \cup Rows(useGroups, {Projects(g) : g \in Group})
            \cup Rows(useProjects(filter), ProjectPages \cup GroupPages),
         {Button(useCreateProject(None), Always, TRUE)}
            \cup {Button(useCreateProject(g), useGroups, TRUE) : g \in Group})

ProjectOverviewPage(id) ==
    Page({}, {useProject(id), useProjectKpis(id), useProjectRuns(id, "8")},
         Fixed({RunsOf(id)}) \cup Rows(useProjectRuns(id, "8"), RunPages(id)), {})

JobsPage(id) == Page({}, {useProjectJobs(id)}, {}, {})

RunsPage(id) ==
    Page({}, {useProjectRuns(id, "100")},
         Rows(useProjectRuns(id, "100"), RunPages(id)), {})

RunDetailPage(id, run) ==
    Page({}, {useRun(id, run), useRunConsole(id, run)}, Fixed({RunsOf(id)}), {})

NodesPage(id) == Page({}, {useProjectNodes(id)}, {}, {})

DsnsPage(id) ==
    Page({}, {useProjectDsns(id)}, {},
         {Button(useCreateDsn(id), Always, TRUE),
          Button(useRevokeDsn(id), useProjectDsns(id), TRUE)})

-----------------------------------------------------------------------------
(***************************************************************************)
(* The frame around every page but the login page.                          *)
(***************************************************************************)
TopBar == Page({}, {}, Fixed({Overview}), {Button(useLogout, Always, FALSE)})

projectId(loc) ==
    IF loc[1] \in {"project", "jobs", "runs", "run", "nodes", "dsns"} THEN loc[2] ELSE ""

Sidebar(id) ==
    Page({}, {useProject(id)},
         Fixed(IF id = "" THEN {Overview, Groups, Projects("all")}
               ELSE {ProjectAt(id), JobsOf(id), RunsOf(id), NodesOf(id), DsnsOf(id),
                     Projects("all")}), {})

Route(loc) ==
    CASE loc[1] = "login"    -> LoginPage
      [] loc[1] = "overview" -> GlobalOverviewPage
      [] loc[1] = "groups"   -> GroupsListPage
      [] loc[1] = "group"    -> GroupDetailPage(loc[2])
      [] loc[1] = "projects" -> ProjectsListPage(loc[2])
      [] loc[1] = "project"  -> ProjectOverviewPage(loc[2])
      [] loc[1] = "jobs"     -> JobsPage(loc[2])
      [] loc[1] = "runs"     -> RunsPage(loc[2])
      [] loc[1] = "run"      -> RunDetailPage(loc[2], loc[3])
      [] loc[1] = "nodes"    -> NodesPage(loc[2])
      [] loc[1] = "dsns"     -> DsnsPage(loc[2])

Locations ==
    {Overview, Groups} \cup GroupPages \cup {Projects(f) : f \in Filters} \cup ProjectPages
       \cup UNION {{JobsOf(p), RunsOf(p), NodesOf(p), DsnsOf(p)} \cup RunPages(p) : p \in Project}

=============================================================================
