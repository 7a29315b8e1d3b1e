----------------------------- MODULE PairDesign -----------------------------
(***************************************************************************)
(* balanced_pair_assignments (evaluators/pairwise.py): the cells of a      *)
(* pairwise study, taken in a shuffled order, each assigned the variant it *)
(* displays first so that no pair of variants favours a position.  The     *)
(* seeded shuffle and the seeded bit are arbitrary choices here; a cell    *)
(* merges judge slot and repetition into one slot.                         *)
(***************************************************************************)
EXTENDS Integers, FiniteSets, FiniteSetsExt, Verdicts

CONSTANTS
    Records, Slots,
    NumVariants,        \* the variants are numbered in sorted order
    SampleSize          \* how many cells are assigned

Variants == 1..NumVariants

Pairs == {p \in Variants \X Variants : p[1] < p[2]}

Cells == [record : Records, pair : Pairs, slot : Slots]

ASSUME DesignAssumption ==
    /\ IsFiniteSet(Records) /\ IsFiniteSet(Slots)
    /\ NumVariants \in Nat \ {0, 1}
    /\ SampleSize \in 1..Cardinality(Cells)

VARIABLES
    reversed,     \* reversed_duplicates
    cells,        \* the cells not yet taken from the shuffled list
    firsts,       \* pair_position_counts: [Pairs -> displays first, 1 or 2]
    assignments   \* the assignments made

designVars == <<reversed, cells, firsts, assignments>>

\* variant_a_id, variant_b_id when side is shown first.
Shown(pair, side) == <<pair[side], pair[3 - side]>>

Assignment(cell, shown, orientation) ==
    [cell |-> cell, shown |-> shown, orientation |-> orientation]

\* The identity hashed into the id: the variants sorted, and the orientation.
Id(a) == <<a.cell, a.orientation>>

DesignInit ==
    /\ reversed \in BOOLEAN
    /\ cells = Cells
    /\ firsts = [p \in Pairs |-> [side \in {1, 2} |-> 0]]
    /\ assignments = {}

\* Mutant: the comparison of the counts is the wrong way round.
SideForPopular(pair, side) ==
    firsts[pair][side] = firsts[pair][3 - side] \/ firsts[pair][side] > firsts[pair][3 - side]

\* The side shown first: the one shown first less often, either at a draw.
SideFor(pair, side) == firsts[pair][side] <= firsts[pair][3 - side]

\* Mutant: the duplicate keeps the order of the original.
DuplicateUnturned(cell, side) ==
    IF reversed THEN {Assignment(cell, Shown(cell.pair, side), 1)} ELSE {}

Duplicate(cell, side) ==
    IF reversed THEN {Assignment(cell, Shown(cell.pair, 3 - side), 1)} ELSE {}

Assign(cell, side) ==
    /\ cell \in cells
    /\ Cardinality(Cells \ cells) < SampleSize
    /\ SideFor(cell.pair, side)
    /\ cells' = cells \ {cell}
    /\ firsts' = [firsts EXCEPT ![cell.pair][side] = @ + 1]
    /\ assignments' = assignments
          \union {Assignment(cell, Shown(cell.pair, side), 0)}
          \union Duplicate(cell, side)
    /\ UNCHANGED reversed

DesignNext == \E cell \in cells, side \in {1, 2} : Assign(cell, side)

DesignSpec == DesignInit /\ [][DesignNext]_designVars

-----------------------------------------------------------------------------
(* winner_variant, reversed_order_consistency and position_bias *)

Winner(a, verdict) ==
    CASE verdict = "A" -> a.shown[1] [] verdict = "B" -> a.shown[2] [] OTHER -> 0

\* Mutant: verdicts are compared, not the variants they name.
ConsistentVerdicts(original, v, duplicate, w) ==
    IF {v, w} \subseteq {"A", "B"} THEN v = w ELSE "unknown"

Consistent(original, v, duplicate, w) ==
    IF {v, w} \subseteq {"A", "B"}
    THEN Winner(original, v) = Winner(duplicate, w)
    ELSE "unknown"

\* wins_a - wins_b over decisive judgements.
PositionEffect(judged, verdictOf) ==
    Cardinality({a \in judged : verdictOf[a] = "A"})
        - Cardinality({a \in judged : verdictOf[a] = "B"})

-----------------------------------------------------------------------------
(* Properties *)

Originals == {a \in assignments : a.orientation = 0}

\* Each variable has its shape.
DesignTypeOK ==
    /\ reversed \in BOOLEAN
    /\ cells \subseteq Cells
    /\ firsts \in [Pairs -> [{1, 2} -> Nat]]
    /\ \A a \in assignments : a.cell \in Cells /\ a.orientation \in {0, 1}

\* After any prefix of any shuffled order, so for any sample size, no pair of
\* variants has shown one of its variants first more than once more often.
Balanced ==
    \A p \in Pairs : firsts[p][1] - firsts[p][2] \in {-1, 0, 1}

\* The counts the order is decided on are the counts of the design produced, and
\* no two assignments share an identity.
CountsAreOfTheDesign ==
    /\ \A p \in Pairs, side \in {1, 2} :
          firsts[p][side] = Cardinality({a \in Originals : /\ a.cell.pair = p
                                                          /\ a.shown[1] = p[side]})
    /\ \A a, b \in assignments : Id(a) = Id(b) => a = b

\* A judge that always prefers the same variant of a pair shows no position
\* effect beyond one judgement per pair; with reversed duplicates, none at all.
FairJudgeLooksFair ==
    \A favourite \in [Pairs -> {1, 2}] :
        LET verdictOf == [a \in assignments |->
                IF a.shown[1] = a.cell.pair[favourite[a.cell.pair]] THEN "A" ELSE "B"]
            effect == PositionEffect(assignments, verdictOf)
        IN  IF reversed THEN effect = 0
            ELSE effect \in -Cardinality(Pairs)..Cardinality(Pairs)

\* On every reversed pair, a judge that prefers a variant is found consistent and
\* one that prefers a position is found inconsistent.
ReversalsTellBias ==
    \A a, b \in assignments : a.cell = b.cell /\ a.orientation = 0 /\ b.orientation = 1 =>
        /\ \A v \in {"A", "B"} :
              /\ Consistent(a, v, b, Mirror(v)) = TRUE
              /\ Consistent(a, v, b, v) = FALSE
        /\ Consistent(a, "tie", b, "A") = "unknown"
=============================================================================
