------------------------------ MODULE DragSort ------------------------------
(***************************************************************************)
(* Dragging an account's card on the pool's page (DragSortArea.tsx): what a *)
(* drop on a card or on the empty part of a zone asks of the server.  The    *)
(* enabled accounts are listed first in the order of their priority, the     *)
(* disabled ones after them; the list sent names every member of the pool.   *)
(***************************************************************************)
EXTENDS Naturals, Sequences, FiniteSets, SequencesExt

CONSTANT Tiles                \* members of the pool

VARIABLES order,              \* members, in the order of their positions
          enabledCards,       \* the enabled ones
          drop                \* the last drop: card, over, the list it sent

dragVars == <<order, enabledCards, drop>>

Zones == {"enabled-drop", "disabled-drop"}

ZoneOf(x) == IF x \in enabledCards \/ x = "enabled-drop" THEN "enabled-drop" ELSE "disabled-drop"

InZone(z) == SelectSeq(order, LAMBDA c : ZoneOf(c) = z)

\* targetList.findIndex: where the card dropped on stands, else the end.
DropIndex(s, over) == IF Contains(s, over) THEN SelectInSeq(s, LAMBDA x : x = over) ELSE Len(s) + 1

\* Faulty variant: the two cards change places.
ArrayMove_Swap(s, c, over) ==
  [i \in 1 .. Len(s) |-> IF s[i] = c THEN over ELSE IF s[i] = over THEN c ELSE s[i]]

\* arrayMove of the card to the place of the one it is dropped on.
ArrayMove(s, c, over) ==
  InsertAt(Remove(s, c), DropIndex(s, over), c)

Join(z, changed, other) == IF z = "enabled-drop" THEN changed \o other ELSE other \o changed

Other(z) == CHOOSE y \in Zones : y # z

\* A drop inside the zone reorders it; one on itself or on the zone's empty
\* part does nothing.
Reorder(c, over) ==
  /\ ZoneOf(c) = ZoneOf(over)
  /\ over \in Tiles \ {c}
  /\ LET ids == Join(ZoneOf(c), ArrayMove(InZone(ZoneOf(c)), c, over), InZone(Other(ZoneOf(c))))
     IN order' = ids /\ drop' = [card |-> c, over |-> over, ids |-> ids]
  /\ UNCHANGED enabledCards

\* A drop in the other zone enables or disables the card and puts it before
\* the card it was dropped on, or last.
CrossZone(c, over) ==
  /\ ZoneOf(c) # ZoneOf(over)
  /\ LET target == InZone(ZoneOf(over))
         ids == Join(ZoneOf(over), InsertAt(target, DropIndex(target, over), c),
                     Remove(InZone(ZoneOf(c)), c))
     IN order' = ids /\ drop' = [card |-> c, over |-> over, ids |-> ids]
  /\ enabledCards' = IF c \in enabledCards THEN enabledCards \ {c} ELSE enabledCards \cup {c}

DragInit ==
  /\ order \in SetToSeqs(Tiles)
  /\ enabledCards \in SUBSET Tiles
  /\ drop = [card |-> order[1], over |-> order[1], ids |-> order]

handleDragEnd == \E c \in Tiles, over \in Tiles \cup Zones : Reorder(c, over) \/ CrossZone(c, over)

DragNext == handleDragEnd

-----------------------------------------------------------------------------
(* Properties *)

Before(s, x, y) == \E i, j \in 1 .. Len(s) : i < j /\ s[i] = x /\ s[j] = y

\* However cards are dragged, the list sent names every member once, with the
\* enabled ones first, so the server's positions and the page's two zones agree.
ListIsWhole ==
  /\ Len(drop.ids) = Cardinality(Tiles)
  /\ ToSet(drop.ids) = Tiles
  /\ drop.card # drop.over =>
       \A x \in enabledCards, y \in Tiles \ enabledCards : Before(drop.ids, x, y)

\* A drop moves one card only: all others keep their order within their zone,
\* and a card dropped in the other zone lands right before the one under it.  The
\* list it sends is whole.
DropMovesOneCard ==
  [][/\ ListIsWhole'
     /\ order' # order \/ enabledCards' # enabledCards =>
       /\ \A x, y \in Tiles \ {drop'.card} :
            (x \in enabledCards <=> y \in enabledCards) /\ Before(order, x, y) => Before(order', x, y)
       /\ (drop'.card \in enabledCards <=> drop'.card \notin enabledCards') /\ drop'.over \in Tiles
            => \E i \in 1 .. Len(order') - 1 : order'[i] = drop'.card /\ order'[i + 1] = drop'.over
    ]_dragVars

=============================================================================
