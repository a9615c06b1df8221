------------------------------- MODULE GroupTree -------------------------------
(***************************************************************************)
(* The namespace of the Control Dashboard: groups, which nest, and the     *)
(* projects in them (GroupEndpoints, ProjectEndpoints).  A group's row     *)
(* holds its parent and, redundantly, its full path and depth; handlers    *)
(* that change a parent or a slug rewrite the paths of all groups below.   *)
(*                                                                         *)
(* A handler has a DbContext of its own: it queries, checks what it found, *)
(* changes the entities it tracks, and SaveChangesAsync writes them in one *)
(* transaction, an UPDATE of the columns that differ from what was read.   *)
(* No transaction spans the queries and the save.  The queries of one      *)
(* request are taken to see one state.  Names, descriptions and members    *)
(* are left out, and requests that are refused change nothing.             *)
(***************************************************************************)
EXTENDS Integers, FiniteSets, SequencesExt

CONSTANTS
    Group,      \* ids for groups (new Guids in the code)
    Project,    \* ids for projects
    Slug,       \* what NormalizeSlug returns
    MaxDepth,   \* 10 in the code
    Request,    \* requests that are handled at the same time
    Root        \* a ParentGroupId or GroupId that is null

Key == Group \cup Project

ASSUME NamespaceAssumption ==
    /\ Root \notin Key
    /\ Group \cap Project = {}
    /\ MaxDepth \in Nat

VARIABLES
    db,     \* the rows there are: a function from some of Key
    was,    \* was[q]: the entities that request q tracks, as they were read
    now,    \* now[q]: the same, as q is going to save them; one that is not in
            \* was[q] is added, one that is only there is deleted
    busy    \* requests between their queries and their save

vars == <<db, was, now, busy>>

GroupRow   == [parent : Group \cup {Root}, slug : Slug, path : Seq(Slug), depth : Int]
ProjectRow == [parent : Group \cup {Root}, slug : Slug]

Groups   == DOMAIN db \cap Group
Projects == DOMAIN db \cap Project

NoRows == [k \in {} |-> {}]

Init ==
    /\ db   = NoRows
    /\ was  = [q \in Request |-> NoRows]
    /\ now  = [q \in Request |-> NoRows]
    /\ busy = {}

--------------------------------------------------------------------------------
(* What the handlers compute *)

(* A Guid.NewGuid(). *)
Unused(k) == k \notin DOMAIN db /\ \A q \in Request : k \notin DOMAIN now[q]

Exists(parent) == parent \in Groups \cup {Root}

PathUnder(parent, slug) ==
    IF parent = Root THEN <<slug>> ELSE Append(db[parent].path, slug)

DepthUnder(parent) == IF parent = Root THEN 0 ELSE db[parent].depth + 1

(* Another group, or another project, of that name in the same place. *)
Sibling(rows, parent, slug, self) ==
    \E k \in rows \ {self} : db[k].parent = parent /\ db[k].slug = slug

(* FullPath.StartsWith(path + "/") *)
Below(g) == {d \in Groups : IsStrictPrefix(db[g].path, db[d].path)}

IsDescendant(ancestor, candidate) ==
    \/ db[candidate].path = db[ancestor].path
    \/ candidate \in Below(ancestor)

(* The queries of request q are done: it tracks old, and will save new. *)
Plan(q, old, new) ==
    /\ q \notin busy
    /\ was'  = [was EXCEPT ![q] = old]
    /\ now'  = [now EXCEPT ![q] = new]
    /\ busy' = busy \cup {q}
    /\ UNCHANGED db

Tracked(keys) == [k \in keys |-> db[k]]

(* A bug for RewritePaths: the groups below keep their paths. *)
RewriteOwnPath(q, g, parent, slug) ==
    Plan(q, Tracked({g}),
         [d \in {g} |-> [parent |-> parent, slug |-> slug,
                         path |-> PathUnder(parent, slug), depth |-> DepthUnder(parent)]])

(* RewritePathsAsync: the group, and all the groups that its old path leads to. *)
RewritePaths(q, g, parent, slug) ==
    LET rewritten == {g} \cup Below(g)
        path      == PathUnder(parent, slug)
        delta     == DepthUnder(parent) - db[g].depth
        rest(d)   == SubSeq(db[d].path, Len(db[g].path) + 1, Len(db[d].path))
    IN  Plan(q, Tracked(rewritten),
             [d \in rewritten |->
                 IF d = g
                 THEN [parent |-> parent, slug |-> slug, path |-> path,
                       depth |-> DepthUnder(parent)]
                 ELSE [db[d] EXCEPT !.path = path \o rest(d), !.depth = @ + delta]])

--------------------------------------------------------------------------------
(* Groups *)

CreateGroup(q, g, parent, slug) ==
    /\ Unused(g)
    /\ Exists(parent)
    /\ parent # Root => db[parent].depth + 1 <= MaxDepth
    /\ ~Sibling(Groups, parent, slug, g)
    /\ Plan(q, NoRows,
            [k \in {g} |-> [parent |-> parent, slug |-> slug,
                            path |-> PathUnder(parent, slug), depth |-> DepthUnder(parent)]])

(* UpdateAsync with a Slug. *)
RenameGroup(q, g, slug) ==
    /\ g \in Groups
    /\ slug # db[g].slug
    /\ Exists(db[g].parent)
    /\ ~Sibling(Groups, db[g].parent, slug, g)
    /\ RewritePaths(q, g, db[g].parent, slug)

(* A bug for MoveGroup: only the group itself is held against the limit. *)
MoveGroupChecksOwnDepth(q, g, parent) ==
    /\ g \in Groups
    /\ parent # g
    /\ Exists(parent)
    /\ parent # Root => ~IsDescendant(g, parent)
    /\ DepthUnder(parent) <= MaxDepth
    /\ ~Sibling(Groups, parent, db[g].slug, g)
    /\ RewritePaths(q, g, parent, db[g].slug)

(* MoveAsync: the deepest group of what is moved decides. *)
MoveGroup(q, g, parent) ==
    /\ g \in Groups
    /\ parent # g
    /\ Exists(parent)
    /\ parent # Root => ~IsDescendant(g, parent)
    /\ \A d \in {g} \cup Below(g) :
           db[d].depth + DepthUnder(parent) - db[g].depth <= MaxDepth
    /\ ~Sibling(Groups, parent, db[g].slug, g)
    /\ RewritePaths(q, g, parent, db[g].slug)

(* A bug for DeleteGroup: projects do not count. *)
DeleteGroupWithProjects(q, g) ==
    /\ g \in Groups
    /\ \A k \in Groups : db[k].parent # g
    /\ Plan(q, Tracked({g}), NoRows)

(* Only an empty group. *)
DeleteGroup(q, g) ==
    /\ g \in Groups
    /\ \A k \in Groups \cup Projects : db[k].parent # g
    /\ Plan(q, Tracked({g}), NoRows)

--------------------------------------------------------------------------------
(* Projects *)

CreateProject(q, p, group, slug) ==
    /\ Unused(p)
    /\ Exists(group)
    /\ ~Sibling(Projects, group, slug, p)
    /\ Plan(q, NoRows, [k \in {p} |-> [parent |-> group, slug |-> slug]])

RenameProject(q, p, slug) ==
    /\ p \in Projects
    /\ slug # db[p].slug
    /\ ~Sibling(Projects, db[p].parent, slug, p)
    /\ Plan(q, Tracked({p}), [k \in {p} |-> [db[p] EXCEPT !.slug = slug]])

(* A bug for MoveProject: names are not compared at the destination. *)
MoveProjectUnchecked(q, p, group) ==
    /\ p \in Projects
    /\ Exists(group)
    /\ Plan(q, Tracked({p}), [k \in {p} |-> [db[p] EXCEPT !.parent = group]])

MoveProject(q, p, group) ==
    /\ p \in Projects
    /\ Exists(group)
    /\ ~Sibling(Projects, group, db[p].slug, p)
    /\ Plan(q, Tracked({p}), [k \in {p} |-> [db[p] EXCEPT !.parent = group]])

--------------------------------------------------------------------------------
(* SaveChangesAsync *)

Added(q)   == DOMAIN now[q] \ DOMAIN was[q]
Deleted(q) == DOMAIN was[q] \ DOMAIN now[q]
Changed(q) == {k \in DOMAIN was[q] \cap DOMAIN now[q] : was[q][k] # now[q][k]}

(* The columns of row that an UPDATE sets are those that differ. *)
Merged(row, old, new) ==
    [c \in DOMAIN row |-> IF old[c] = new[c] THEN row[c] ELSE new[c]]

Saved(q) ==
    [k \in (DOMAIN db \cup Added(q)) \ Deleted(q) |->
        IF k \in Added(q) THEN now[q][k]
        ELSE IF k \in Changed(q) THEN Merged(db[k], was[q][k], now[q][k])
        ELSE db[k]]

(* The unique indexes.  A null is different from every null. *)
Unique(rows) ==
    /\ \A g, h \in DOMAIN rows \cap Group :
           g # h => /\ rows[g].path # rows[h].path
                    /\ rows[g].parent = rows[h].parent /\ rows[g].parent # Root
                           => rows[g].slug # rows[h].slug
    /\ \A p, r \in DOMAIN rows \cap Project :
           p # r /\ rows[p].parent = rows[r].parent /\ rows[p].parent # Root
               => rows[p].slug # rows[r].slug

(* The context is disposed of. *)
Done(q) ==
    /\ was'  = [was EXCEPT ![q] = NoRows]
    /\ now'  = [now EXCEPT ![q] = NoRows]
    /\ busy' = busy \ {q}

(* Every row to be changed or deleted must still be there. *)
SaveChanges(q) ==
    /\ q \in busy
    /\ Changed(q) \cup Deleted(q) \subseteq DOMAIN db
    /\ Added(q) \cap DOMAIN db = {}
    /\ Unique(Saved(q))
    /\ db' = Saved(q)
    /\ Done(q)

(* A row is gone, an index refuses a row, or the database fails: the
   transaction is rolled back. *)
SaveThrows(q) ==
    /\ q \in busy
    /\ Done(q)
    /\ UNCHANGED db

--------------------------------------------------------------------------------
GroupRequest(q) ==
    \E g \in Group :
        \/ DeleteGroup(q, g)
        \/ \E slug \in Slug : RenameGroup(q, g, slug)
        \/ \E parent \in Group \cup {Root} :
               \/ MoveGroup(q, g, parent)
               \/ \E slug \in Slug : CreateGroup(q, g, parent, slug)

ProjectRequest(q) ==
    \E p \in Project :
        \/ \E slug \in Slug : RenameProject(q, p, slug)
        \/ \E group \in Group \cup {Root} :
               \/ MoveProject(q, p, group)
               \/ \E slug \in Slug : CreateProject(q, p, group, slug)

Next ==
    \E q \in Request :
        \/ GroupRequest(q)
        \/ ProjectRequest(q)
        \/ SaveChanges(q)
        \/ SaveThrows(q)

Spec == Init /\ [][Next]_vars

--------------------------------------------------------------------------------
RowsOK(rows) ==
    /\ DOMAIN rows \subseteq Key
    /\ \A k \in DOMAIN rows :
           rows[k] \in IF k \in Group THEN GroupRow ELSE ProjectRow

TypeOK ==
    /\ RowsOK(db)
    /\ \A q \in Request : RowsOK(was[q]) /\ RowsOK(now[q])
    /\ busy \subseteq Request
    /\ \A q \in Request \ busy : was[q] = NoRows /\ now[q] = NoRows

(* The full path of a group is that of its parent and its own slug, and its
   depth says how long it is: what RewritePathsAsync keeps true of a whole
   subtree at once. *)
PathsMatch ==
    \A g \in Groups :
        /\ db[g].parent # Root => db[g].parent \in Groups
        /\ db[g].path = PathUnder(db[g].parent, db[g].slug)
        /\ db[g].depth = Len(db[g].path) - 1

(* No group is nested deeper than MaxDepth ("Move would exceed the maximum
   nesting depth", GroupEndpoints.MoveAsync). *)
DepthBounded == \A g \in Groups : db[g].depth \in 0 .. MaxDepth

(* No group is under one of its descendants ("Cannot move a group under one of
   its own descendants", GroupEndpoints.MoveAsync): from every group the way up
   ends, as the loop of GetAsync needs it. *)
Acyclic ==
    \A S \in SUBSET Groups : S # {} => \E g \in S : db[g].parent \notin S

(* What is in a group goes when the group goes: every project and every
   subgroup is in a group that exists ("Group is not empty",
   GroupEndpoints.DeleteAsync). *)
NoOrphans == \A k \in DOMAIN db : Exists(db[k].parent)

(* Two groups, or two projects, in the same place have different slugs, at the
   top as well, where the unique index on the nullable column says nothing. *)
SiblingsDiffer ==
    /\ \A g \in Groups : ~Sibling(Groups, db[g].parent, db[g].slug, g)
    /\ \A p \in Projects : ~Sibling(Projects, db[p].parent, db[p].slug, p)

(* The groups are a forest in which only leaves are removed and subtrees move
   whole: deciding by a prefix of FullPath what is a descendant, as the handlers
   do, is deciding it by the parents. *)
F == INSTANCE Forest WITH Node <- Group, parent <- [g \in Groups |-> db[g].parent]
ImplementsForest == F!Spec
==============================================================================
