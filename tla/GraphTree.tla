----------------------------- MODULE GraphTree -----------------------------
(***************************************************************************)
(* The tree of a graph and its index (src/domain/graph/GraphElement.cpp,   *)
(* Graph.cpp): elements are added, inserted, moved and removed, each gets  *)
(* a name no sibling has, its id follows its path, and the graph that owns *)
(* a tree keeps an index from ids to elements.                             *)
(*                                                                         *)
(* md5 is taken to be injective, so that an id is the path it is computed  *)
(* from: the names from the top of the tree down.  That takes names without *)
(* a slash; the code accepts any (from_json_object, GraphElement.cpp:464).  *)
(* Callers keep the elements they use alive.                               *)
(***************************************************************************)
EXTENDS Naturals, Sequences, FiniteSets, SequencesExt

CONSTANTS
    Elems,      \* the elements, all of them created beforehand
    Root,       \* root_
    Nil,
    Bases,      \* texts without a slash that do not end in "_" and a number
    GivenNames, \* the names that callers give the elements
    MaxSuffix,  \* bound: how often a name is extended by a number
    MaxIndex    \* bound: entries of the index, stale ones included

ASSUME ElemsAssumption == IsFiniteSet(Elems) /\ Root \in Elems /\ Nil \notin Elems
ASSUME BoundsAssumption == MaxSuffix \in Nat /\ MaxIndex \in Nat

VARIABLES
    name,       \* name_
    parent,     \* parent_, which a removed element keeps
    children,   \* children_
    id,         \* id_
    owned,      \* whether owner_ is the graph (or null)
    index,      \* index_ of the graph: the element of each registered id
    ret         \* what the last call returned

vars == <<name, parent, children, id, owned, index, ret>>

-----------------------------------------------------------------------------
(* Names: the base "a" with the suffix <<1, 2>> is "a_1_2".  Callers may give *)
(* an element a name that looks like a generated one.                        *)

Name(base, suffix) == [base |-> base, suffix |-> suffix]
Names == [base : Bases, suffix : Seq(Nat)]

ASSUME NamesAssumption == "root" \in Bases /\ GivenNames \subseteq Names

Numbered(n, k) == [n EXCEPT !.suffix = Append(@, k)]

SiblingNames(s) == {name[e] : e \in Range(s)}

\* Mutant: the numbered name is not looked up in its turn.
NextAvailableName_OneTry(s, n) == IF n \notin SiblingNames(s) THEN n ELSE Numbered(n, 1)

\* compute_next_available_name
NextAvailableName(s, n) ==
    IF n \notin SiblingNames(s) THEN n
    ELSE LET Free(k) == k > 0 /\ Numbered(n, k) \notin SiblingNames(s)
         IN Numbered(n, CHOOSE k \in 1..(Len(s) + 1) :
                           Free(k) /\ \A j \in 1..(k - 1) : ~Free(j))

-----------------------------------------------------------------------------
(* Paths and subtrees, for any functions of parents, names and children. *)

Depth == 0..Cardinality(Elems)

\* path(): the names met on the way up through parent_, for at most n steps.
PathsUpTo(par, nam) ==
    LET path[n \in Depth] ==
            [e \in Elems |-> IF n = 0 \/ par[e] = Nil THEN <<nam[e]>>
                             ELSE Append(path[n - 1][par[e]], nam[e])]
    IN path

PathOf(par, nam) == PathsUpTo(par, nam)[Cardinality(Elems)]

\* traverse(): the elements met on the way down through children_, for at most
\* n steps.
SubtreesDownTo(ch) ==
    LET below[n \in Depth] ==
            [e \in Elems |-> {e} \cup (IF n = 0 THEN {}
                                       ELSE UNION {below[n - 1][c] : c \in Range(ch[e])})]
    IN below

SubtreeOf(ch) == SubtreesDownTo(ch)[Cardinality(Elems)]

Subtree(e) == SubtreeOf(children)[e]

\* The element is in no list of children.
Loose(e) == \A p \in Elems : e \notin Range(children[p])

\* The elements whose way up, through at most n parents that list them, ends.
AttachedWithin(par, ch) ==
    LET up[n \in Depth] ==
            LET ended == IF n = 0 THEN {} ELSE up[n - 1]
            IN  {e \in Elems : \/ par[e] = Nil
                               \/ par[e] \in ended /\ e \in Range(ch[par[e]])}
    IN up

AttachedIn(par, ch) == AttachedWithin(par, ch)[Cardinality(Elems)]

\* The element belongs to a tree whose top was never taken out of another
\* one: parent_ of a removed element still points to where it was.
Attached(e) == e \in AttachedIn(parent, children)

\* Mutant: reattribute_id does not descend.
Reattributed_TopOnly(e, par, nam, ch) ==
    [id EXCEPT ![e] = PathOf(par, nam)[e]]

\* invalidate_path_cache and reattribute_id of e.
Reattributed(e, par, nam, ch) ==
    LET below == SubtreeOf(ch)[e]
        path == PathOf(par, nam)
    IN  [x \in Elems |-> IF x \in below THEN path[x] ELSE id[x]]

\* Mutant: only the element itself is registered.
Registered_TopOnly(e, ids, ch) ==
    [x \in DOMAIN index \cup {ids[e]} |-> IF x = ids[e] THEN e ELSE index[x]]

\* Mutant: an id that is registered already is left as it is.
Registered_IfNew(e, ids, ch) ==
    LET fresh == SubtreeOf(ch)[e]
    IN [x \in DOMAIN index \cup {ids[d] : d \in fresh} |->
            IF x \in DOMAIN index THEN index[x]
            ELSE CHOOSE d \in fresh : ids[d] = x]

\* register_element for every element of the subtree of e.
Registered(e, ids, ch) ==
    LET fresh == SubtreeOf(ch)[e]
    IN [x \in DOMAIN index \cup {ids[d] : d \in fresh} |->
            IF \E d \in fresh : ids[d] = x
            THEN CHOOSE d \in fresh : ids[d] = x
            ELSE index[x]]

\* unregister_element for every element of the subtree of e.
Unregistered(e) ==
    [x \in DOMAIN index \ {id[d] : d \in Subtree(e)} |-> index[x]]

-----------------------------------------------------------------------------
(* Operations of an element p.  Calls that find no child of the given id   *)
(* return at once and are not steps.                                       *)

Init ==
    /\ \E given \in [Elems \ {Root} -> GivenNames] :
          name = [e \in Elems |-> IF e = Root THEN Name("root", <<>>) ELSE given[e]]
    /\ parent = [e \in Elems |-> Nil]
    /\ children = [e \in Elems |-> <<>>]
    /\ id = [e \in Elems |-> <<name[e]>>]
    \* Graph(id) owns and registers its root; parse_from puts another root in
    \* its place, which nobody owns, and leaves no live entry in the index.
    /\ \E constructed \in BOOLEAN :
          /\ owned = [e \in Elems |-> e = Root /\ constructed]
          /\ index = [x \in IF constructed THEN {id[Root]} ELSE {} |-> Root]
    /\ ret = TRUE

\* What the code leaves to its callers: an element has one place, no element
\* gets below itself, and removed subtrees are not edited.
MayAdd(p, c) == c # Root /\ Loose(c) /\ p \notin Subtree(c) /\ Attached(p)

\* set_owner
OwnedBelow(c, own, ch) ==
    LET below == SubtreeOf(ch)[c]
    IN  [x \in Elems |-> IF x \in below THEN own ELSE owned[x]]

\* c gets a free name among the children ch[p] and becomes one of them, which
\* are s from now on; the ids of the subtree of top are computed again.
Attach(p, c, ch, s, top) ==
    LET nam == [name EXCEPT ![c] = NextAvailableName(ch[p], name[c])]
        par == [parent EXCEPT ![c] = p]
        new == [ch EXCEPT ![p] = s]
        ids == Reattributed(top, par, nam, new)
    IN  /\ Len(nam[c].suffix) <= MaxSuffix
        /\ name' = nam
        /\ parent' = par
        /\ children' = new
        /\ id' = ids
        /\ owned' = OwnedBelow(c, owned[p], new)
        /\ index' = IF owned[p] THEN Registered(c, ids, new) ELSE index
        /\ Cardinality(DOMAIN index') <= MaxIndex
        /\ ret' = TRUE

AddChild(p, c) ==
    /\ MayAdd(p, c)
    /\ Attach(p, c, children, Append(children[p], c), c)

InsertChildAt(p, c, i) ==
    /\ MayAdd(p, c)
    /\ Attach(p, c, children, InsertAt(children[p], i, c), p)

\* find_if over children_: a position, or 0.
Position(p, x) == SelectInSeq(children[p], LAMBDA c : id[c] = x)

InsertChildBefore(p, c, target) ==
    /\ Position(p, target) # 0
    /\ InsertChildAt(p, c, Position(p, target))

InsertChildAfter(p, c, target) ==
    /\ Position(p, target) # 0
    /\ InsertChildAt(p, c, Position(p, target) + 1)

RemoveChild(p, x) ==
    /\ Attached(p) /\ Position(p, x) # 0
    /\ LET removed == children[p][Position(p, x)]
       IN index' = IF owned[p] THEN Unregistered(removed) ELSE index
    /\ children' = [children EXCEPT ![p] = RemoveAt(@, Position(p, x))]
    /\ ret' = TRUE
    /\ UNCHANGED <<name, parent, id, owned>>

\* The code erases the moving child and then uses the iterator of the target
\* it had before.  An iterator of a vector is an address: behind the erased
\* place it now denotes the next child, and for the last one the end, where the
\* code gives up with the child already out.
Move(p, x, target, offset) ==
    /\ Attached(p) /\ Position(p, x) # 0 /\ Position(p, target) # 0
    /\ LET moving == children[p][Position(p, x)]
           rest == RemoveAt(children[p], Position(p, x))
           at == Position(p, target)
       IN IF at > Len(rest)
          THEN /\ children' = [children EXCEPT ![p] = rest]
               /\ ret' = FALSE
               /\ UNCHANGED id
          ELSE /\ children' = [children EXCEPT ![p] = InsertAt(rest, at + offset, moving)]
               /\ ret' = TRUE
               /\ id' = Reattributed(p, parent, name, children')
    /\ UNCHANGED <<name, parent, owned, index>>

MoveChildBefore(p, x, target) == Move(p, x, target, 0)
MoveChildAfter(p, x, target) == Move(p, x, target, 1)

\* Mutant: the child is not taken out of the old list.
Erased_Kept(p, x) == children

Erased(p, x) == [children EXCEPT ![p] = RemoveAt(@, Position(p, x))]

MoveChildIn(p, x, q) ==
    /\ Attached(p) /\ Attached(q) /\ Position(p, x) # 0
    /\ LET moving == children[p][Position(p, x)]
           ch == Erased(p, x)
       IN /\ q \notin Subtree(moving)
          /\ Attach(q, moving, ch, Append(ch[q], moving), q)

Next ==
    \E p \in Elems :
        \/ \E c \in Elems :
              \/ AddChild(p, c)
              \/ \E i \in 1..(Len(children[p]) + 1) : InsertChildAt(p, c, i)
              \/ \E t \in Range(children[p]) :
                    \/ InsertChildBefore(p, c, id[t])
                    \/ InsertChildAfter(p, c, id[t])
        \/ \E c \in Range(children[p]) :
              \/ RemoveChild(p, id[c])
              \/ \E t \in Range(children[p]) :
                    \/ MoveChildBefore(p, id[c], id[t])
                    \/ MoveChildAfter(p, id[c], id[t])
              \/ \E q \in Elems : MoveChildIn(p, id[c], q)

Spec == Init /\ [][Next]_vars

-----------------------------------------------------------------------------
(* Properties *)

TypeOK ==
    /\ name \in [Elems -> Names]
    /\ parent \in [Elems -> Elems \cup {Nil}]
    /\ \A e \in Elems : children[e] \in Seq(Elems)
    /\ \A e \in Elems : id[e] \in Seq(Names) /\ Len(id[e]) <= Cardinality(Elems)
    /\ owned \in [Elems -> BOOLEAN]
    /\ \A x \in DOMAIN index : x \in Seq(Names) /\ index[x] \in Elems
    /\ ret \in BOOLEAN

\* Whatever is added, moved, lost or removed, the elements form trees: no
\* element has two places or is below itself, and a child knows its parent
\* (GraphElement.cpp:53, 169, 293).
TreeShape ==
    /\ \A p \in Elems : IsInjective(children[p])
    /\ \A p, q \in Elems : p # q => Range(children[p]) \cap Range(children[q]) = {}
    /\ \A p \in Elems : \A c \in Range(children[p]) : parent[c] = p /\ p \notin Subtree(c)

\* INVARIANT #1 (GraphElement.cpp:11-17): the id is that of the path, for every
\* element of a tree that was not cut out of another, however far below the
\* element that was moved.
IdIsPath ==
    LET path == PathOf(parent, name)
    IN  \A e \in Elems : Attached(e) => id[e] = path[e]

\* INVARIANT #2 (GraphElement.cpp:19-21): siblings have different names, also
\* when a given name looks like a generated one.  So no two elements of a tree
\* have the same id, as long as no name holds a slash.
UniqueNames ==
    /\ \A p \in Elems : \A c, d \in Range(children[p]) : c # d => name[c] # name[d]
    /\ \A d, e \in Subtree(Root) : d # e => id[d] # id[e]

\* INVARIANT #3 (GraphElement.cpp:23-25): in a graph that owns its root every
\* element of the tree is owned, and registered under its present id, even if
\* that id once belonged to an element which has moved away since.
RegisteredInTree ==
    owned[Root] => \A e \in Subtree(Root) :
                      owned[e] /\ id[e] \in DOMAIN index /\ index[id[e]] = e

\* find_element: the index first, then the tree.
FindElement(x) ==
    IF x \in DOMAIN index THEN index[x]
    ELSE IF \E e \in Subtree(Root) : id[e] = x
         THEN CHOOSE e \in Subtree(Root) : id[e] = x
         ELSE Nil

\* The element found under the id of an element of the tree is that element,
\* whether the graph was constructed or parsed (Graph.cpp:81-87).
FindsElement == \A e \in Subtree(Root) : FindElement(id[e]) = e
=============================================================================
