------------------------------ MODULE Combobox ------------------------------
(***************************************************************************)
(* The searchable select (silicon-ui/combobox/combobox.tsx), enabled, with *)
(* options that do not change and a value that it keeps itself.  The list  *)
(* stays mounted, with the options and handlers it last had, while it      *)
(* animates out.  Positions in the list start at 1; 0 is the code's -1.    *)
(***************************************************************************)
EXTENDS Naturals, Sequences, FiniteSets, SequencesExt

CONSTANTS
  Options,  \* in order
  Disabled, \* the options that cannot be chosen
  Queries,  \* what can be typed, the empty query included
  Empty,    \* the empty query, to which a blank one amounts
  Finds,    \* the options that each query finds in a label or keyword
  NoOption

VARIABLES
  value,   \* the option chosen, or NoOption
  popover, \* absent, open or leaving: open is the code's `open`
  query,
  active,  \* activeIndex
  typing,  \* the input has the focus
  listed   \* the options that the list mounted shows

comboVars == <<value, popover, query, active, typing, listed>>

Offered == Range(Options)

ASSUME ComboAssumption == Options \in Seq(Offered) /\ Empty \in Queries

(* The options that the query finds, in order.                              *)
FoundAt(text) == {i \in DOMAIN Options : text = Empty \/ Options[i] \in Finds[text]}
InPlace(k, positions) == CHOOSE i \in positions : Cardinality({j \in positions : j <= i}) = k
Filtered(text) == [k \in 1..Cardinality(FoundAt(text)) |-> Options[InPlace(k, FoundAt(text))]]

ComboTypeOK ==
  /\ value \in Offered \cup {NoOption}
  /\ popover \in {"absent", "open", "leaving"}
  /\ query \in Queries
  /\ active \in 0..Len(Options)
  /\ typing \in BOOLEAN
  /\ Range(listed) \subseteq Offered

ComboInit ==
  /\ value \in Offered \cup {NoOption}
  /\ popover = "absent" /\ query = Empty /\ active = 0 /\ typing = FALSE /\ listed = Options

ShowsList(text) == popover' = "open" /\ query' = text /\ listed' = Filtered(text)
HidesList ==
  /\ popover' = IF popover = "open" THEN "leaving" ELSE popover
  /\ query' = Empty /\ UNCHANGED listed

openMenu == ShowsList(Empty) /\ active' = 0

(* The input is entered or clicked.                                         *)
Enters == openMenu /\ typing' = TRUE /\ UNCHANGED value
TabsAway == typing /\ typing' = FALSE /\ UNCHANGED <<value, popover, query, active, listed>>

TypesQuery(text) ==
  /\ typing
  /\ ShowsList(text) /\ active' = 0
  /\ UNCHANGED <<value, typing>>

PointerDownOutside ==
  /\ HidesList /\ typing' = FALSE
  /\ UNCHANGED <<value, active>>

(* The focus returns to the input; one that was elsewhere opens the menu    *)
(* again as it arrives.                                                     *)
choose(option) ==
  /\ option \notin Disabled
  /\ value' = option
  /\ IF typing THEN HidesList /\ UNCHANGED active ELSE openMenu
  /\ typing' = TRUE

ClickOption(position) ==
  /\ popover # "absent" /\ position \in DOMAIN listed
  /\ choose(listed[position])

(* The cross is there while an option is chosen.                            *)
Clearable == value # NoOption

(* A press on the cross keeps the focus where it is; the active position    *)
(* stays unless the focus comes from elsewhere.                             *)
clear ==
  /\ Clearable /\ value' = NoOption
  /\ ShowsList(Empty)
  /\ active' = IF typing THEN active ELSE 0
  /\ typing' = TRUE

MouseEnter(position) ==
  /\ popover # "absent" /\ position \in DOMAIN listed
  /\ listed[position] \notin Disabled
  /\ active' = position
  /\ UNCHANGED <<value, popover, query, typing, listed>>

(***************************************************************************)
(* handleKeyDown.                                                          *)
(***************************************************************************)
Enabled == {i \in DOMAIN Filtered(query) : Filtered(query)[i] \notin Disabled}
Nearest(of, down) == CHOOSE i \in of : \A j \in of : IF down THEN i <= j ELSE j <= i

(* Down from a position that is not enabled starts at the first one; up     *)
(* from there comes to the last but one, as from the code's position -1.    *)
NextPosition(down) ==
  LET others == IF active \notin Enabled THEN Enabled
                ELSE {i \in Enabled : IF down THEN i > active ELSE i < active}
      last == Nearest(Enabled, FALSE)
  IN  IF active \notin Enabled /\ ~down
      THEN IF Cardinality(Enabled) = 1 THEN last ELSE Nearest(Enabled \ {last}, FALSE)
      ELSE Nearest(IF others = {} THEN Enabled ELSE others, down)

Arrow(down) ==
  /\ typing
  /\ IF popover # "open" THEN openMenu
     ELSE /\ active' = (IF Enabled = {} THEN active ELSE NextPosition(down))
          /\ UNCHANGED <<popover, query, listed>>
  /\ UNCHANGED <<value, typing>>

Enter ==
  /\ typing /\ popover = "open" /\ active \in DOMAIN Filtered(query)
  /\ choose(Filtered(query)[active])

Escape ==
  /\ typing /\ popover = "open"
  /\ HidesList
  /\ UNCHANGED <<value, active, typing>>

ListGone ==
  /\ popover = "leaving" /\ popover' = "absent"
  /\ UNCHANGED <<value, query, active, typing, listed>>

(* The text in the field, and the option that a screen reader is told of.   *)
inputValue == IF popover = "open" THEN query ELSE value
activeOption == IF active = 0 THEN NoOption ELSE Filtered(query)[active]

ComboStep ==
  \/ Enters \/ TabsAway \/ PointerDownOutside \/ clear \/ Enter \/ Escape \/ ListGone
  \/ \E text \in Queries : TypesQuery(text)
  \/ \E position \in DOMAIN Options : ClickOption(position) \/ MouseEnter(position)
  \/ \E down \in BOOLEAN : Arrow(down)

ComboSpec == ComboInit /\ [][ComboStep]_comboVars

(***************************************************************************)
(* Properties.                                                             *)
(***************************************************************************)
(* However it was closed, the field shows the option chosen and not what    *)
(* was typed before; and an open list never has an active position that it  *)
(* does not show, whichever query the position was reached under.           *)
FieldIsCoherent ==
  /\ popover # "open" => query = Empty /\ inputValue = value
  /\ popover = "open" =>
       /\ listed = Filtered(query) /\ active <= Len(listed)
       /\ activeOption \in Range(listed) \cup {NoOption}
==============================================================================
