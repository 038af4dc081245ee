------------------------------ MODULE JoinOrder ------------------------------
(***************************************************************************)
(* The join-order optimizer of src/join_order: dynamic programming over    *)
(* the relation sets of one join component.  A RelSet (a 64-bit mask) is   *)
(* a set of relation indexes, an f64 an exact ratio [n, d]: rounding is    *)
(* left out, a value that is not finite or is negative has n < 0.          *)
(***************************************************************************)
EXTENDS Integers, Sequences, FiniteSets, FiniteSetsExt

CONSTANTS
  TimeoutCheckInterval,  \* pairs between two looks at the clock
  MaxSetRels             \* a relation index must be below the width of a word

-----------------------------------------------------------------------------
(* Ratios.                                                                 *)

Gcd[a \in Nat, b \in Nat] == IF b = 0 THEN a ELSE Gcd[b, a % b]

Abs(n) == IF n < 0 THEN -n ELSE n

Ratio(n, d) == LET g == Gcd[Abs(n), d] IN [n |-> n \div g, d |-> d \div g]

Zero == [n |-> 0, d |-> 1]
One == [n |-> 1, d |-> 1]

Plus(x, y) == Ratio(x.n * y.d + y.n * x.d, x.d * y.d)
Times(x, y) == LET g == Gcd[Abs(x.n), y.d] h == Gcd[Abs(y.n), x.d]
               IN  Ratio((x.n \div g) * (y.n \div h), (x.d \div h) * (y.d \div g))
Over(x, y) == Times(x, [n |-> y.d, d |-> y.n])
Less(x, y) == x.n * y.d < y.n * x.d
MinRatio(x, y) == IF Less(y, x) THEN y ELSE x
MaxRatio(x, y) == IF Less(x, y) THEN y ELSE x

-----------------------------------------------------------------------------
(* A problem is [rels, edges, preds]: rels a sequence of [rows, bytes],    *)
(* edges a sequence of [left, right, kind, commutative, sel, pred_end],    *)
(* preds the length of edge_preds.  Relation i is rels[i + 1].             *)

Universe(p) == 0 .. (Len(p.rels) - 1)

Mask(set) == MapThenSumSet(LAMBDA r : 2 ^ r, set)

Searched == {"Inner", "Cross"}

(* Body of a value computed once.                                          *)
With(x, Body(_)) == CHOOSE y \in {Body(v) : v \in {x}} : TRUE

Ok == [ok |-> TRUE]
Err(e) == [ok |-> FALSE, err |-> e]

EdgeError(p, e) ==
  CASE e.kind \notin Searched -> "UnsupportedJoinKind"
    [] e.left = {} \/ e.right = {} \/ e.left \cap e.right # {} -> "InvalidEdge"
    [] ~(e.left \cup e.right \subseteq Universe(p)) -> "InvalidRelSet"
    [] e.pred_end > p.preds \/ e.sel.n < 0 -> "InvalidEdge"
    [] OTHER -> "none"

Validate(p, c) ==
  LET n == Len(p.rels)
      bad == {i \in 1 .. Len(p.edges) : EdgeError(p, p.edges[i]) # "none"}
  IN  CASE n = 0 -> Err("EmptyProblem")
        [] n >= MaxSetRels \/ n > c.max_relations -> Err("TooManyRelations")
        [] \E i \in 1 .. n : p.rels[i].rows.n < 0 \/ p.rels[i].bytes.n < 0 -> Err("InvalidEdge")
        [] bad # {} -> Err(EdgeError(p, p.edges[Min(bad)]))
        [] OTHER -> Ok

(* Edges inside the set, followed from its lowest relation.                *)
IsConnected(p, set) ==
  LET inside == {p.edges[i].left \cup p.edges[i].right :
                   i \in {j \in 1 .. Len(p.edges) : p.edges[j].kind \in Searched}} \cap SUBSET set
      visited[k \in 0 .. Cardinality(set)] ==
        IF k = 0 THEN {Min(set)}
        ELSE visited[k - 1] \cup UNION {e \in inside : e \cap visited[k - 1] # {}}
  IN  visited[Cardinality(set)] = set

JoinLink(p, left, right) ==
  LET crossing == {i \in 1 .. Len(p.edges) :
                     LET e == p.edges[i]
                     IN  /\ e.kind \in Searched
                         /\ \/ e.left \subseteq left /\ e.right \subseteq right
                            \/ e.left \subseteq right /\ e.right \subseteq left}
  IN  [found |-> crossing # {},
       sel |-> FoldSet(LAMBDA i, acc : Times(p.edges[i].sel, acc), One, crossing),
       commutative |-> \A i \in crossing : p.edges[i].commutative]

CrossLink == [found |-> TRUE, sel |-> One, commutative |-> TRUE]

Link(p, c, left, right) ==
  LET link == JoinLink(p, left, right)
  IN  IF ~link.found /\ c.allow_cross_joins THEN CrossLink ELSE link

Width(s) == IF s.rows.n > 0 THEN Over(s.bytes, s.rows) ELSE Zero

EstimateJoin(left, right, ls, rs, link) ==
  LET rows == Times(Times(ls.rows, rs.rows), link.sel)
      bytes == Times(rows, Plus(Width(ls), Width(rs)))
      left_build_cost == Plus(ls.bytes, rs.rows)
      right_build_cost == Plus(rs.bytes, ls.rows)
      to_right == link.commutative /\ Less(right_build_cost, left_build_cost)
      join_work == IF to_right THEN right_build_cost ELSE left_build_cost
  IN  [cost |-> Plus(Plus(Plus(Plus(ls.cost, rs.cost), join_work), rows), bytes),
       rows |-> rows, bytes |-> bytes, left |-> left, right |-> right,
       build_side |-> IF to_right THEN "Right" ELSE "Left"]

(* Every unordered split once: the lowest relation stays on the left.      *)
Splits(set) == {left \in (SUBSET set) \ {{}, set} : Min(set) \in left}

NoPlan == [cost |-> [n |-> -1, d |-> 1]]

LeafEntry(p, rel) ==
  [cost |-> Zero, rows |-> p.rels[rel + 1].rows, bytes |-> p.rels[rel + 1].bytes,
   left |-> {}, right |-> {}, build_side |-> "Right"]

Searchable(p, c, set) == c.allow_cross_joins \/ IsConnected(p, set)

(* The splits of a set whose pair is observed, the entries of the smaller  *)
(* sets (or, for the prepass, their reachability) being known.             *)
Pairs(p, c, entries, set) ==
  {left \in Splits(set) :
     /\ IF c.allow_cross_joins THEN entries[left] # NoPlan /\ entries[set \ left] # NoPlan
        ELSE IsConnected(p, left) /\ IsConnected(p, set \ left)
     /\ Link(p, c, left, set \ left).found}

Cheaper(x, y) == Less(x.cost, y.cost)

(* The first of the cheapest candidates, splits taken from the largest     *)
(* left mask down.                                                         *)
BestOf(candidates) ==
  With(candidates, LAMBDA all :
    IF all = {} THEN NoPlan
    ELSE CHOOSE b \in all :
           \A x \in all \ {b} : Cheaper(b, x) \/ (~Cheaper(x, b) /\ Mask(x.left) < Mask(b.left)))

Entries(p, c) ==
  LET sets(w) == {set \in SUBSET Universe(p) : Cardinality(set) \in 1 .. w}
      upto[w \in 1 .. Len(p.rels)] ==
        LET smaller == upto[w - 1]
            entry(set) ==
              IF ~Searchable(p, c, set) THEN NoPlan
              ELSE BestOf({EstimateJoin(left, set \ left, smaller[left], smaller[set \ left],
                                        Link(p, c, left, set \ left)) :
                             left \in {l \in Pairs(p, c, smaller, set) :
                                         smaller[l] # NoPlan /\ smaller[set \ l] # NoPlan}})
        IN  [set \in sets(w) |-> IF w = 1 THEN LeafEntry(p, Min(set))
                                 ELSE IF Cardinality(set) < w THEN smaller[set] ELSE entry(set)]
  IN  upto[Len(p.rels)]

PairCount(p, c, entries) ==
  MapThenSumSet(LAMBDA set : Cardinality(Pairs(p, c, entries, set)),
                {set \in SUBSET Universe(p) : Cardinality(set) > 1 /\ Searchable(p, c, set)})

(* What observing so many pairs ends with; late says that the deadline has *)
(* passed when the clock is first looked at.                               *)
Observed(pairs, c, late) ==
  CASE late /\ TimeoutCheckInterval <= pairs /\ TimeoutCheckInterval <= c.max_pairs -> Err("Timeout")
    [] pairs > c.max_pairs -> Err("BudgetExceeded")
    [] OTHER -> Ok

(* The reachability of the prepass is that a set has an entry: both passes *)
(* observe the same pairs.                                                 *)
CountPartitions(p, c) ==
  LET valid == Validate(p, c)
      counted(pairs) == LET seen == Observed(pairs, c, c.late_count)
                        IN  IF seen.ok THEN [ok |-> TRUE, pairs |-> pairs] ELSE seen
  IN  IF ~valid.ok THEN valid
      ELSE With(Entries(p, c), LAMBDA entries : counted(PairCount(p, c, entries)))

Optimize(p, c) ==
  LET searched(pairs, entries) ==
        LET seen == Observed(pairs, c, c.late_search)
        IN  IF ~seen.ok THEN seen
            ELSE IF entries[Universe(p)] = NoPlan THEN Err("NoPlan")
            ELSE [ok |-> TRUE, entries |-> entries]
  IN  With(CountPartitions(p, c), LAMBDA prepass :
        IF ~prepass.ok THEN prepass
        ELSE IF ~c.allow_cross_joins /\ ~IsConnected(p, Universe(p)) THEN Err("DisconnectedGraph")
        ELSE With(Entries(p, c), LAMBDA entries : searched(prepass.pairs, entries)))

=============================================================================
