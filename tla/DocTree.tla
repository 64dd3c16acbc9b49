------------------------------- MODULE DocTree -------------------------------
(***************************************************************************)
(* A JSON/YAML/TOML document as a tree (data/doc.rs) and its projection    *)
(* into a table (data/view.rs): finding, setting, removing and renaming    *)
(* nodes by path, and laying a subtree out as records, as key/value rows   *)
(* or as a list, with columns expanded into the children of their cells.   *)
(* A node is <<kind, content>>, a step of a path <<"key", k>> or           *)
(* <<"idx", i>>; positions count from one.                                 *)
(***************************************************************************)
EXTENDS Orders, SequencesExt

CONSTANTS
    Blanks,     \* texts read as null
    Numbers     \* texts read as numbers

\* No node there, and the outcome of an operation that is refused.
Absent == <<"absent", "">>
Refused == <<"refused", "">>

Kind(n) == n[1]
Content(n) == n[2]
Key(k) == <<"key", k>>
Idx(i) == <<"idx", i>>
IsContainer(n) == Kind(n) \in {"list", "dict"}
Null == <<"null", "">>

KeysOf(n) == IF Kind(n) = "dict" THEN [i \in DOMAIN Content(n) |-> Content(n)[i][1]] ELSE <<>>
HasKey(n, k) == k \in ToSet(KeysOf(n))
KeyPos(n, k) == CHOOSE i \in DOMAIN Content(n) : Content(n)[i][1] = k

Child(n, seg) ==
    CASE seg[1] = "key" /\ HasKey(n, seg[2]) -> Content(n)[KeyPos(n, seg[2])][2]
      [] seg[1] = "idx" /\ Kind(n) = "list" /\ seg[2] \in DOMAIN Content(n) -> Content(n)[seg[2]]
      [] OTHER -> Absent

Get(root, path) ==
    LET down[i \in 0 .. Len(path)] == IF i = 0 THEN root ELSE Child(down[i - 1], path[i])
    IN  down[Len(path)]

\* The nodes right under a node, and when it is one: a list of nodes, a dictionary
\* whose keys differ, or no container.
Below(n) ==
    CASE Kind(n) = "dict" -> {Content(n)[i][2] : i \in DOMAIN Content(n)}
      [] Kind(n) = "list" -> ToSet(Content(n))
      [] OTHER -> {}
IsList(s) == Len(s) \in Nat /\ s = [i \in 1 .. Len(s) |-> s[i]]
NodeOK(n) ==
    /\ n = <<Kind(n), Content(n)>> /\ Kind(n) \notin {"absent", "refused"}
    /\ IsContainer(n) => IsList(Content(n)) /\ Absent \notin Below(n)
    /\ Kind(n) = "dict" =>
          /\ \A i \in DOMAIN Content(n) : Content(n)[i] = <<Content(n)[i][1], Content(n)[i][2]>>
          /\ \A i, j \in DOMAIN Content(n) : Content(n)[i][1] = Content(n)[j][1] => i = j

IsPath(p) ==
    /\ IsList(p)
    /\ \A i \in DOMAIN p : p[i] = <<p[i][1], p[i][2]>> /\ p[i][1] \in {"key", "idx"}

-----------------------------------------------------------------------------
(* Writing.                                                                *)

\* A key that is there keeps its position, a new one goes last.
WithChild(n, seg, child) ==
    CASE seg[1] = "idx" -> <<"list", [Content(n) EXCEPT ![seg[2]] = child]>>
      [] HasKey(n, seg[2]) -> <<"dict", [Content(n) EXCEPT ![KeyPos(n, seg[2])] = <<seg[2], child>>]>>
      [] OTHER -> <<"dict", Append(Content(n), <<seg[2], child>>)>>

\* The tree with node at a path whose parent is there.
Graft(root, path, node) ==
    LET up[i \in 0 .. Len(path)] ==
            IF i = Len(path) THEN node
            ELSE WithChild(Get(root, SubSeq(path, 1, i)), path[i + 1], up[i + 1])
    IN  up[0]

\* Node::set: object keys are created, arrays never grow.
SetNode(root, path, node) ==
    IF path = <<>> THEN node
    ELSE LET parent == Get(root, Front(path))
         IN  CASE Kind(parent) = "dict" /\ Last(path)[1] = "key" -> Graft(root, path, node)
               [] Kind(parent) = "list" /\ Child(parent, Last(path)) # Absent -> Graft(root, path, node)
               [] OTHER -> Refused

\* Node::remove: later elements of an array move up.
RemoveNode(root, path) ==
    IF path = <<>> \/ Get(root, path) = Absent THEN Refused
    ELSE LET parent == Get(root, Front(path))
             at == IF Kind(parent) = "list" THEN Last(path)[2] ELSE KeyPos(parent, Last(path)[2])
         IN  Graft(root, Front(path), <<Kind(parent), Removed(Content(parent), at)>>)

\* rename_key: in place; onto itself it succeeds without looking.
RenameKey(root, path, new) ==
    LET parent == Get(root, Front(path))
        old == Last(path)[2]
        renamed == [Content(parent) EXCEPT ![KeyPos(parent, old)] = <<new, @[2]>>]
    IN  IF path = <<>> \/ Last(path)[1] # "key" \/ Kind(parent) # "dict" THEN Refused
        ELSE IF old = new THEN root
        ELSE IF HasKey(parent, new) \/ ~HasKey(parent, old) THEN Refused
        ELSE Graft(root, Front(path), <<"dict", renamed>>)

\* Node::parse_scalar: a text stays one, anything else takes the type it looks like.
ParseScalar(text, old) ==
    IF Kind(old) = "str" THEN <<"str", text>>
    ELSE IF text \in Blanks THEN Null
    ELSE IF text \in Numbers THEN <<"int", text>>
    ELSE <<"str", text>>

\* What a cell shows of a node: containers by their contents, null as nothing.
Shown(n) == IF IsContainer(n) THEN n ELSE <<"text", Content(n)>>

\* All places in the tree, the root excepted.
Places(root) ==
    LET below(n, p) ==
            {Append(p, Key(k)) : k \in ToSet(KeysOf(n))}
            \cup (IF Kind(n) = "list" THEN {Append(p, Idx(i)) : i \in DOMAIN Content(n)} ELSE {})
        deeper(P) == UNION {below(Get(root, p), p) : p \in P}
    IN  LET one == deeper({<<>>})
            two == deeper(one)
            three == deeper(two)
        IN  one \cup two \cup three \cup deeper(three)

\* doc::search: a node is a hit by its key, a scalar by its text.
Hits(root, pattern) ==
    {p \in Places(root) : \/ Last(p) = Key(pattern)
                          \/ Shown(Get(root, p)) = <<"text", pattern>>}

-----------------------------------------------------------------------------
(* Projecting.  A view is the path of its node, how it is laid out and the *)
(* columns shown as their children, by paths from the row.                 *)

AutoMode(n) ==
    CASE Kind(n) = "list" /\ (\E i \in DOMAIN Content(n) : Kind(Content(n)[i]) = "dict") -> "Records"
      [] Kind(n) = "dict" -> "KeyValue"
      [] OTHER -> "Scalars"

AutoView(n, path) == [anchor |-> path, mode |-> AutoMode(n), expanded |-> {}]

\* In the order the m key takes them.
ModesFor(n) ==
    CASE Kind(n) = "list" -> <<"Records", "Scalars", "KeyValue">>
      [] Kind(n) = "dict" -> <<"KeyValue", "Records">>
      [] OTHER -> <<"Scalars">>

Field(path) == <<"Field", path>>
RowRole == <<"Row", <<>>>>
KeyRole == <<"Key", <<>>>>
TypeRole == <<"Type", <<>>>>

\* The distinct keys of the given nodes, in order of first appearance.
AllKeys(nodes) ==
    LET upTo[i \in 0 .. Len(nodes)] ==
            IF i = 0 THEN <<>>
            ELSE upTo[i - 1] \o Retain(KeysOf(nodes[i]), ToSet(KeysOf(nodes[i])) \ ToSet(upTo[i - 1]))
    IN  upTo[Len(nodes)]

\* Keys win over positions when a column holds both.
ChildSegments(nodes) ==
    LET keys == AllKeys(nodes)
        sizes == {0} \cup {Len(Content(nodes[i])) : i \in {j \in DOMAIN nodes : Kind(nodes[j]) = "list"}}
        longest == CHOOSE m \in sizes : \A n \in sizes : n <= m
    IN  IF keys # <<>> THEN [i \in DOMAIN keys |-> Key(keys[i])]
        ELSE [i \in 1 .. longest |-> Idx(i)]

\* push_column, a level of expansions at a time.
Children(p, segs) ==
    IF segs = <<>> THEN <<p>> ELSE [i \in DOMAIN segs |-> Append(p, segs[i])]

ExpandedColumns(rows, tops, expanded) ==
    LET cells(p) == [i \in DOMAIN rows |-> Get(rows[i], p)]
        widen(p) == IF p \in expanded THEN Children(p, ChildSegments(cells(p))) ELSE <<p>>
        level[n \in 0 .. Cardinality(expanded)] ==
            IF n = 0 THEN tops
            ELSE FlattenSeq([i \in DOMAIN level[n - 1] |-> widen(level[n - 1][i])])
    IN  level[Cardinality(expanded)]

\* The rows of a list are its elements, those of a dictionary its keys or itself.
RowPaths(n, path, keyed) ==
    CASE keyed -> [i \in DOMAIN Content(n) |-> Append(path, Key(Content(n)[i][1]))]
      [] Kind(n) = "list" -> [i \in DOMAIN Content(n) |-> Append(path, Idx(i))]
      [] OTHER -> <<path>>

Fields(cols) == [i \in DOMAIN cols |-> Field(cols[i])]
OfKeys(keys) == [i \in DOMAIN keys |-> <<Key(keys[i])>>]

\* A column of their own for rows that have no fields.
RecordRoles(rows, expanded) ==
    LET bare == \A i \in DOMAIN rows : KeysOf(rows[i]) = <<>>
        mixed == \E i \in DOMAIN rows : Kind(rows[i]) # "dict"
    IN  (IF bare \/ mixed THEN <<RowRole>> ELSE <<>>)
        \o Fields(ExpandedColumns(rows, OfKeys(AllKeys(rows)), expanded))

\* What a cell shows: the field of its row, the bare row, its key or its type.
CellOf(root, path, role, mode) ==
    LET node == Get(root, path)
    IN  CASE role[1] = "Field" -> Shown(Get(node, role[2]))
          [] role = RowRole /\ mode = "Records" /\ Kind(node) = "dict" -> Shown(Absent)
          [] role = RowRole /\ (mode # "Records" \/ Kind(node) # "dict") -> Shown(node)
          [] role = KeyRole -> <<"text", Last(path)[2]>>
          [] role = TypeRole -> <<"text", Kind(node)>>

Cells(root, paths, roles, mode) ==
    [r \in DOMAIN paths |-> [c \in DOMAIN roles |-> CellOf(root, paths[r], roles[c], mode)]]

\* View::project: the rows' paths, what each column means and the cells; Refused
\* when there is no node to show.
Keyed(n, view) == view.mode = "KeyValue" /\ Kind(n) = "dict"

Roles(root, paths, view, keyed) ==
    CASE keyed -> <<KeyRole, RowRole, TypeRole>>
      [] ~keyed /\ view.mode = "Records" ->
           RecordRoles([i \in DOMAIN paths |-> Get(root, paths[i])], view.expanded)
      [] OTHER -> <<RowRole>>

Table(root, paths, roles, mode) ==
    <<"table", [paths |-> paths, roles |-> roles, cells |-> Cells(root, paths, roles, mode)]>>

LaidOut(root, paths, view, keyed) == Table(root, paths, Roles(root, paths, view, keyed), view.mode)

ProjectNode(root, n, view) ==
    IF n = Absent THEN Refused
    ELSE LaidOut(root, RowPaths(n, view.anchor, Keyed(n, view)), view, Keyed(n, view))

Project(root, view) == ProjectNode(root, Get(root, view.anchor), view)

\* cell_path, for a column that stands for nodes: all but the type column.
CellPath(paths, roles, r, c) == paths[r] \o roles[c][2]
=============================================================================
