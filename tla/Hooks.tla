-------------------------------- MODULE Hooks --------------------------------
(***************************************************************************)
(* The hooks of the Control Dashboard's frontend, api/hooks.ts: the query   *)
(* each reading hook makes, named by its key, and what each writing hook    *)
(* invalidates when its mutation has succeeded.  A key is a sequence, and   *)
(* an invalidation hits every query whose key it is a prefix of.            *)
(***************************************************************************)
EXTENDS SequencesExt

CONSTANTS Group, Project, Run, None

-----------------------------------------------------------------------------
(***************************************************************************)
(* Queries.                                                                 *)
(***************************************************************************)
useMe               == <<"me">>
useGroups           == <<"groups">>
useGroupTree        == <<"groups", "tree">>
useGroup(id)        == <<"groups", id>>
useGroupMembers(id) == <<"groups", id, "members">>

\* The filter is an object in the key: all projects, ungrouped ones, or those
\* of a group.
useProjects(filter)      == <<"projects", "list", filter>>
useProject(id)           == <<"projects", id>>
useProjectJobs(id)       == <<"projects", id, "jobs">>
useProjectRuns(id, take) == <<"projects", id, "runs", take>>
useRun(id, run)          == <<"projects", id, "runs", run>>
useRunConsole(id, run)   == <<"projects", id, "runs", run, "console">>
useProjectNodes(id)      == <<"projects", id, "nodes">>
useProjectDsns(id)       == <<"projects", id, "dsns">>
useProjectKpis(id)       == <<"kpis", "projects", id>>
useGlobalKpis            == <<"kpis", "global">>

\* The hooks with a refetchInterval.
PolledRuns ==
    UNION {{useProjectRuns(p, "8"), useProjectRuns(p, "100")}
              \cup {useRun(p, r) : r \in Run} \cup {useRunConsole(p, r) : r \in Run}
           : p \in Project}
Polled ==
    PolledRuns \cup {useProjectNodes(p) : p \in Project}
               \cup {useProjectKpis(p) : p \in Project} \cup {useGlobalKpis}

\* Every query is retried once (the client's default), /auth/me is not.
Retries(key) == IF key = useMe THEN 0 ELSE 1

-----------------------------------------------------------------------------
(***************************************************************************)
(* Mutations: what is done, to what, and the keys that onSuccess            *)
(* invalidates.                                                             *)
(***************************************************************************)
Mutation(hook, on, keys) == [hook |-> hook, on |-> on, invalidates |-> keys]

useLogin  == Mutation("login", None, {})
useLogout == Mutation("logout", None, {})

useCreateGroup(parent) == Mutation("createGroup", parent, {useGroups, useGroupTree})
useUpdateGroup(id)     == Mutation("updateGroup", id, {useGroups, useGroupTree, useGroup(id)})
useDeleteGroup(id)     == Mutation("deleteGroup", id, {useGroups, useGroupTree})

\* Mutant: forgets the list, and with it what the other groups show of this one.
useMoveGroupAlone(id)  == Mutation("moveGroup", id, {useGroupTree, useGroup(id)})

useMoveGroup(id)       == Mutation("moveGroup", id, {useGroups, useGroupTree, useGroup(id)})

useAddGroupMember(id)    == Mutation("addMember", id, {useGroupMembers(id)})
useRemoveGroupMember(id) == Mutation("removeMember", id, {useGroupMembers(id)})

useCreateProject(group) ==
    Mutation("createProject", group,
             {<<"projects">>, useGroupTree} \cup (IF group = None THEN {} ELSE {useGroup(group)}))

useCreateDsn(id) == Mutation("createDsn", id, {useProjectDsns(id)})
useRevokeDsn(id) == Mutation("revokeDsn", id, {useProjectDsns(id)})

(***************************************************************************)
(* A hook that is given an id invalidates what it was last rendered with.   *)
(***************************************************************************)
Rendered(m, id) ==
    LET hooks == {useUpdateGroup(id), useMoveGroup(id), useAddGroupMember(id),
                  useRemoveGroupMember(id)}
    IN  [m EXCEPT !.invalidates = IF \E h \in hooks : h.hook = m.hook
                                  THEN (CHOOSE h \in hooks : h.hook = m.hook).invalidates
                                  ELSE @]

\* Its hook was last rendered with another group than the one it writes to.
Diverted(m) ==
    /\ \E id \in Group \ {m.on} : Rendered(m, id) = m
    /\ Rendered(m, m.on) # m

Invalidates(m, key) == \E prefix \in m.invalidates : IsPrefix(prefix, key)

-----------------------------------------------------------------------------
(***************************************************************************)
(* What the endpoints answer otherwise once a mutation is done: the name    *)
(* and the path of a group are in the list, in the tree and in the details  *)
(* of its parent and of what is under it; its projects are in its own       *)
(* detail, counted in the tree and in the figures.  GET /api/projects/, for *)
(* the empty id, is the list.                                               *)
(***************************************************************************)
ChangesGroups(m) ==
    IF m.hook \in {"createGroup", "updateGroup", "deleteGroup", "moveGroup"}
    THEN {useGroups, useGroupTree} \cup {useGroup(g) : g \in Group}
    ELSE IF m.hook \in {"addMember", "removeMember"} THEN {useGroupMembers(m.on)}
    ELSE {}

ChangesProjects(m) ==
    IF m.hook = "createProject"
    THEN {useProjects("all"), useProjects(IF m.on = None THEN "root" ELSE m.on),
          useProject(""), useGroupTree, useGlobalKpis}
            \cup {useGroup(g) : g \in Group \cap {m.on}}
    ELSE IF m.hook \in {"createDsn", "revokeDsn"} THEN {useProjectDsns(m.on)}
    ELSE {}

Changes(m) == ChangesGroups(m) \cup ChangesProjects(m)

=============================================================================
