------------------------- MODULE MC_ControlFrontend -------------------------
EXTENDS ControlFrontend, TLC
CONSTANTS g1, g2, p1, r1

Budget(clicks, faults, reports, expiries, offline) ==
    [clicks |-> clicks, faults |-> faults, reports |-> reports,
     expiries |-> expiries, offline |-> offline]

AnyHook ==
    {"login", "logout", "createGroup", "updateGroup", "deleteGroup", "moveGroup", "addMember",
     "removeMember", "createProject", "createDsn", "revokeDsn"}

From(key, start, budget) == [key |-> key, start |-> start, hooks |-> AnyHook] @@ budget
Only(hooks, b) == [b EXCEPT !.hooks = hooks]

\* Every query of Hooks once or more, from a page that shows it.
Written ==
    {From(useGroups, GroupAt(g1), Budget(2, 0, 0, 0, 0)),
     From(useGroupTree, Groups, Budget(2, 0, 0, 0, 0)),
     From(useGroup(g1), GroupAt(g1), Budget(2, 0, 0, 0, 0)),
     From(useGroupMembers(g1), GroupAt(g1), Budget(2, 0, 0, 0, 0)),
     Only({"addMember"}, From(useGroupMembers(g1), GroupAt(g1), Budget(4, 0, 0, 0, 0))),
     From(useProjects("all"), Overview, Budget(2, 0, 0, 0, 0)),
     From(useProjects("root"), Groups, Budget(2, 0, 0, 0, 0)),
     Only({"createProject", "logout"},
          From(useProjects(g1), Projects("all"), Budget(3, 0, 0, 0, 0))),
     From(useProject(""), Overview, Budget(2, 0, 0, 0, 0)),
     From(useProject(p1), ProjectAt(p1), Budget(1, 1, 0, 0, 0)),
     From(useProjectDsns(p1), DsnsOf(p1), Budget(2, 0, 0, 0, 0))}

Watching ==
    {From(useProjectJobs(p1), JobsOf(p1), Budget(1, 1, 1, 0, 0)),
     From(useProjectRuns(p1, "8"), ProjectAt(p1), Budget(1, 0, 1, 1, 1)),
     From(useProjectRuns(p1, "100"), RunsOf(p1), Budget(1, 1, 1, 0, 0)),
     From(useRun(p1, r1), RunAt(p1, r1), Budget(1, 1, 1, 0, 0)),
     From(useRunConsole(p1, r1), RunAt(p1, r1), Budget(1, 0, 1, 0, 1)),
     From(useProjectNodes(p1), NodesOf(p1), Budget(1, 1, 1, 0, 0)),
     From(useProjectKpis(p1), ProjectAt(p1), Budget(1, 1, 1, 0, 0)),
     From(useGlobalKpis, Overview, Budget(1, 1, 1, 0, 1))}

MC_Bounds == Written \cup Watching
=============================================================================
