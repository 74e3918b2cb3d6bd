----------------------------- MODULE Locations -----------------------------
(***************************************************************************)
(* The tree of locations of one user: createLocation, renameLocation,      *)
(* moveLocation, deleteLocation and the assignment of a copy to a          *)
(* location, as location.service.ts and location.repository.ts interleave  *)
(* them between awaits, and the page that shows the tree and patches its   *)
(* own list before the server answers (locations.vue).                     *)
(*                                                                         *)
(* A path is the sequence of names that the code joins with " - "; names   *)
(* with a separator are refused by the schema, so that LIKE 'path - %' is  *)
(* the strict prefix.                                                      *)
(***************************************************************************)
EXTENDS Actors

CONSTANTS
    Location,     \* ids of locations
    Name,         \* normalized names
    Shelved,      \* copies of books that may be given a location
    Page,         \* the call that the open page makes
    MaxLocationOps

VARIABLES
    rows,         \* locations: the row of each id, or None
    shelf,        \* user_books.location_id of each copy
    op,           \* what each call is doing and the rows it has read
    view,         \* the page's list, or None once somebody else has written:
                  \* from then on the page is one more caller
    outdated,     \* ids whose path was ever written from a parent that had changed
                  \* since it was read
    locationOps   \* operations begun, at most MaxLocationOps

locationVars == <<rows, shelf, op, view, outdated, locationOps>>

\* a row of locations
LocationRow == [id : Location, name : Name, parent : Location \cup {None}, path : Seq(Name), depth : Int]

ASSUME LocationsAssumption ==
    /\ \E a, b \in Location : a # b
    /\ Name # {} /\ IsFiniteSet(Shelved) /\ Page \in Call
    /\ None \notin Location /\ None \notin LocationRow

Idle == [do |-> "idle"]

Present(rs) == {i \in Location : rs[i] # None}
StateIs(s) == s = None \/ rows[s.id] = s
Under(rs, loc) == {i \in Present(rs) : IsStrictPrefix(loc.path, rs[i].path)}
UniqueNames(rs) == \A i, j \in Present(rs) :
    i # j => <<rs[i].parent, rs[i].name>> # <<rs[j].parent, rs[j].name>>
RowOf(rs, i) == IF i = None THEN None ELSE rs[i]
BooksIn(ids) == {k \in Shelved : shelf[k] \in ids}

-----------------------------------------------------------------------------
(* location-hierarchy.ts                                                   *)

locationChildPath(par, name) == IF par = None THEN <<name>> ELSE Append(par.path, name)

computeLocationRepath(loc, par, name) ==
    [id |-> loc.id, name |-> name,
     parent |-> IF par = None THEN None ELSE par.id,
     path |-> locationChildPath(par, name),
     depth |-> IF par = None THEN 0 ELSE par.depth + 1]

\* the row, and the new prefix and depth of every row whose path lies below its path
Repath(rs, loc, new) ==
    [i \in Location |->
        IF i = loc.id THEN new
        ELSE IF i \in Under(rs, loc)
        THEN [rs[i] EXCEPT !.path = new.path \o SubSeq(@, Len(loc.path) + 1, Len(@)),
                           !.depth = @ + new.depth - loc.depth]
        ELSE rs[i]]

-----------------------------------------------------------------------------
(* locations.vue: the list the page holds, with the number of books of     *)
(* each location                                                           *)

insertLocationLocally(v, row) ==
    [rows |-> [v.rows EXCEPT ![row.id] = row], books |-> [v.books EXCEPT ![row.id] = 0]]

patchLocationLocally_RootOnly(v, id, par, name) ==
    [v EXCEPT !.rows[id] = computeLocationRepath(v.rows[id], RowOf(v.rows, par), name)]
patchLocationLocally(v, id, par, name) ==
    [v EXCEPT !.rows = Repath(@, @[id], computeLocationRepath(@[id], RowOf(@, par), name))]

deleteLocationLocally(v, id, target) ==
    LET scope == {id} \cup Under(v.rows, v.rows[id])
        moved == MapThenSumSet(LAMBDA i : v.books[i], scope)
    IN [rows |-> [i \in Location |-> IF i \in scope THEN None ELSE v.rows[i]],
        books |-> [i \in Location |-> IF i \in scope THEN 0
                                      ELSE IF i = target THEN v.books[i] + moved
                                      ELSE v.books[i]]]

\* what the page shows before the answer is there
Optimistic(v, r) ==
    CASE r.do = "rename" -> patchLocationLocally(v, r.id, v.rows[r.id].parent, r.name)
      [] r.do = "move" -> patchLocationLocally(v, r.id, r.to, v.rows[r.id].name)
      [] r.do = "delete" ->
           LET scope == {r.id} \cup Under(v.rows, v.rows[r.id]) IN
           IF r.mode = "block" /\ \E i \in scope : v.books[i] > 0 THEN v
           ELSE deleteLocationLocally(v, r.id, IF r.mode = "move" THEN r.to ELSE None)
      [] OTHER -> v

-----------------------------------------------------------------------------
(* A call begins with the row of its location (create: of the parent)      *)

\* the list to go back to
Kept(c) == IF c = Page THEN view ELSE None

Begin(c, r) ==
    /\ op[c] = Idle
    /\ Room(locationOps, MaxLocationOps)
    /\ locationOps' = locationOps + 1
    /\ op' = [op EXCEPT ![c] = r]
    /\ view' = IF c = Page /\ view # None THEN Optimistic(view, r) ELSE view
    /\ UNCHANGED <<rows, shelf, outdated>>

CreateRead(c) == \E p \in Present(rows) \cup {None}, n \in Name :
    Begin(c, [do |-> "create", at |-> "write", par |-> RowOf(rows, p), name |-> n, saved |-> Kept(c)])
RenameRead(c) == \E i \in Present(rows), n \in Name :
    Begin(c, [do |-> "rename", at |-> "parent", id |-> i, loc |-> rows[i], par |-> None, name |-> n,
              saved |-> Kept(c)])
MoveRead(c) == \E i \in Present(rows), p \in Present(rows) \cup {None} :
    Begin(c, [do |-> "move", at |-> "parent", id |-> i, loc |-> rows[i], par |-> None, to |-> p,
              saved |-> Kept(c)])
DeleteRead(c) == \E i \in Present(rows), m \in {"block", "clear", "move"}, t \in Present(rows) \cup {None} :
    /\ (m = "move") = (t # None)
    /\ Begin(c, [do |-> "delete", at |-> "check", id |-> i, loc |-> rows[i], par |-> None,
                 mode |-> m, to |-> t, scope |-> {}, saved |-> Kept(c)])
AssignRead(c) == \E k \in Shelved, i \in Present(rows) \cup {None} :
    /\ c # Page
    /\ Begin(c, [do |-> "assign", at |-> "write", copy |-> k, to |-> i, saved |-> Kept(c)])

\* the call is over: the page keeps what it shows, or goes back to what it saved
Answer(c, ok, shown) ==
    /\ op' = [op EXCEPT ![c] = Idle]
    /\ view' = IF view = None \/ (c # Page /\ ok) THEN None
               ELSE IF c # Page THEN view
               ELSE IF ok THEN shown ELSE op[c].saved

Refuse(c) == Answer(c, FALSE, None) /\ UNCHANGED <<rows, shelf, outdated, locationOps>>
Go(c, r) == op' = [op EXCEPT ![c] = r] /\ UNCHANGED <<rows, shelf, view, outdated, locationOps>>
At(c, what, step) == op[c].do = what /\ op[c].at = step

-----------------------------------------------------------------------------
(* createLocation: the parent's path and depth are those that were read;   *)
(* the foreign key and the unique index are all that guards the insert     *)

createLocation(c) ==
    /\ At(c, "create", "write")
    /\ LET par == op[c].par IN
       \/ \E i \in Location \ Present(rows) :
             LET new == computeLocationRepath([id |-> i], par, op[c].name)
                 rs == [rows EXCEPT ![i] = new]
             IN /\ par # None => par.id \in Present(rows)
                /\ UniqueNames(rs)
                /\ rows' = rs
                /\ outdated' = IF StateIs(par) THEN outdated ELSE outdated \cup {i}
                /\ Answer(c, TRUE, IF view = None THEN None ELSE insertLocationLocally(view, new))
                /\ UNCHANGED <<shelf, locationOps>>
       \/ /\ \/ par # None /\ par.id \notin Present(rows)
             \/ \E i \in Present(rows) : /\ rows[i].name = op[c].name
                                          /\ rows[i].parent = IF par = None THEN None ELSE par.id
          /\ Refuse(c)

(* renameLocation and moveLocation: the parent is read, then one batch     *)
(* updates the subtree and the row, guarded by the rows as they were read  *)

ReadParent(c) ==
    \/ /\ At(c, "rename", "parent")
       /\ Go(c, [op[c] EXCEPT !.at = "write", !.par = RowOf(rows, op[c].loc.parent)])
    \/ /\ At(c, "move", "parent")
       /\ LET par == RowOf(rows, op[c].to) IN
          IF \/ op[c].to # None /\ par = None
             \/ par # None /\ (par.id = op[c].id \/ IsStrictPrefix(op[c].loc.path, par.path))
          THEN Refuse(c)
          ELSE Go(c, [op[c] EXCEPT !.at = "write", !.par = par])

WriteRepath(c, name, guarded) ==
    LET loc == op[c].loc
        new == computeLocationRepath(loc, op[c].par, name)
        rs == Repath(rows, loc, new)
    IN IF StateIs(loc) /\ guarded /\ UniqueNames(rs)
       THEN /\ rows' = rs
            /\ Answer(c, TRUE, IF view = None THEN None
                               ELSE patchLocationLocally(view, loc.id, new.parent, new.name))
            /\ outdated' = IF op[c].do = "move" \/ StateIs(op[c].par) THEN outdated
                           ELSE outdated \cup {loc.id}
            /\ UNCHANGED <<shelf, locationOps>>
       ELSE Refuse(c)

renameLocation(c) == At(c, "rename", "write") /\ WriteRepath(c, op[c].name, TRUE)
moveLocation_RootGuardOnly(c) == At(c, "move", "write") /\ WriteRepath(c, op[c].loc.name, TRUE)
moveLocation(c) == At(c, "move", "write") /\ WriteRepath(c, op[c].loc.name, StateIs(op[c].par))

-----------------------------------------------------------------------------
(* deleteLocation: counts and target, the scope, the target again, and a   *)
(* batch that names the rows by id, deepest first                          *)

CheckDelete(c) ==
    /\ At(c, "delete", "check")
    /\ LET loc == op[c].loc
           target == RowOf(rows, op[c].to)
       IN IF \/ op[c].mode = "block" /\ BooksIn({loc.id} \cup Under(rows, loc)) # {}
             \/ op[c].mode = "move" /\ target = None
             \/ target # None /\ (target.id = loc.id \/ IsStrictPrefix(loc.path, target.path))
          THEN Refuse(c)
          ELSE Go(c, [op[c] EXCEPT !.at = "scope", !.par = target])

ReadScope(c) ==
    /\ At(c, "delete", "scope")
    /\ LET loc == op[c].loc IN
       IF ~StateIs(loc) THEN Refuse(c)
       ELSE Go(c, [op[c] EXCEPT !.at = IF op[c].mode = "move" THEN "target" ELSE "write",
                                !.scope = {rows[i] : i \in {loc.id} \cup Under(rows, loc)}])

CheckTarget(c) ==
    /\ At(c, "delete", "target")
    /\ IF StateIs(op[c].par) THEN Go(c, [op[c] EXCEPT !.at = "write"]) ELSE Refuse(c)

\* no row outlives its parent: statements run by falling depth, equal depths in any order
DeletesInOrder(scope, ties) == \A s \in scope, i \in Present(rows) :
    rows[i].parent = s.id =>
        \E t \in scope : t.id = i /\ (t.depth > s.depth \/ (ties /\ t.depth = s.depth))

\* the copies follow to the target; if that is deleted with the scope, they lose it (ON DELETE SET NULL)
Deleted(scope, target) ==
    LET ids == {s.id : s \in scope} IN
    /\ rows' = [i \in Location |-> IF i \in ids THEN None ELSE rows[i]]
    /\ shelf' = [k \in Shelved |-> IF shelf[k] \notin ids THEN shelf[k]
                                    ELSE IF target \in ids THEN None ELSE target]

\* the batch runs and is answered, or the answer comes after the timeout
deleteLocation(c) ==
    /\ At(c, "delete", "write")
    /\ \E ties, late \in BOOLEAN :
          LET target == IF op[c].mode = "move" THEN op[c].to ELSE None
              done == /\ DeletesInOrder(op[c].scope, ties)
                      /\ target # None /\ BooksIn({s.id : s \in op[c].scope}) # {}
                           => target \in Present(rows)
          IN IF done
             THEN /\ Deleted(op[c].scope, target)
                  /\ op' = [op EXCEPT ![c] = Idle]
                  /\ view' = IF c = Page /\ ~late THEN view ELSE None
                  /\ UNCHANGED <<outdated, locationOps>>
             ELSE Refuse(c)

\* the 20 seconds are over and the batch still waits for the database: it may run later
DeleteTimesOut(c) ==
    /\ At(c, "delete", "write")
    /\ Refuse(c)

-----------------------------------------------------------------------------
(* updateLocation of a copy: the trigger refuses a location that is gone   *)

updateLocation(c) ==
    /\ At(c, "assign", "write")
    /\ IF op[c].to = None \/ op[c].to \in Present(rows)
       THEN /\ shelf' = [shelf EXCEPT ![op[c].copy] = op[c].to]
            /\ Answer(c, TRUE, None)
            /\ UNCHANGED <<rows, outdated, locationOps>>
       ELSE Refuse(c)

-----------------------------------------------------------------------------

\* what the page loads, with the books of each location
listLocations == [rows |-> rows, books |-> [i \in Location |-> Cardinality(BooksIn({i}))]]

LocationsInit ==
    /\ LET a == CHOOSE i \in Location : TRUE
           b == CHOOSE i \in Location \ {a} : TRUE
           x == CHOOSE n \in Name : TRUE
           room == computeLocationRepath([id |-> a], None, x)
       IN /\ rows = [i \in Location |->
                       CASE i = a -> room
                         [] i = b -> computeLocationRepath([id |-> b], room, x)
                         [] OTHER -> None]
          /\ shelf = [k \in Shelved |-> b]
    /\ op = [c \in Call |-> Idle]
    /\ view = listLocations
    /\ outdated = {}
    /\ locationOps = 0

LocationsNext == \E c \in Call :
    \/ CreateRead(c) \/ RenameRead(c) \/ MoveRead(c) \/ DeleteRead(c) \/ AssignRead(c)
    \/ ReadParent(c) \/ CheckDelete(c) \/ ReadScope(c) \/ CheckTarget(c)
    \/ createLocation(c) \/ renameLocation(c) \/ moveLocation(c)
    \/ deleteLocation(c) \/ DeleteTimesOut(c) \/ updateLocation(c)

LocationsSpec == LocationsInit /\ [][LocationsNext]_locationVars

-----------------------------------------------------------------------------

LocationsTypeOK ==
    /\ rows \in [Location -> LocationRow \cup {None}]
    /\ \A i \in Present(rows) : rows[i].id = i /\ rows[i].parent \in Present(rows) \cup {None}
    /\ UniqueNames(rows)
    /\ shelf \in [Shelved -> Present(rows) \cup {None}]
    /\ outdated \subseteq Location

(* Every path is the path of the parent and the name, and every depth      *)
(* counts the names, until createLocation or renameLocation writes a path  *)
(* from a parent that has changed since it was read: the guards of rename, *)
(* move and delete let no other interleaving spoil the tree.               *)
PathsAgree == outdated = {} =>
    \A i \in Present(rows) :
       /\ rows[i].path = locationChildPath(RowOf(rows, rows[i].parent), rows[i].name)
       /\ rows[i].depth = Len(rows[i].path) - 1

(* The list that locations.vue patches by itself, rolls back on an error   *)
(* and reconciles with the answer is the list the server would send, as    *)
(* long as nobody else writes and no outcome is unknown.                   *)
PageShowsTheTree == view # None /\ op[Page] = Idle =>
    /\ view.rows = rows
    /\ \A i \in Present(rows) : view.books[i] = Cardinality(BooksIn({i}))

(* Both: the stored tree agrees with itself, and the page with the tree.   *)
TreeAndPageAgree == PathsAgree /\ PageShowsTheTree
=============================================================================
