------------------------------- MODULE JsonTree -------------------------------
(***************************************************************************)
(* The tree that shows the data of a ting                                  *)
(* (web/components/silicon-ui/json-viewer/json-viewer.tsx): which branches *)
(* are open, how many pages of a branch are loaded, the search that opens  *)
(* branches of its own, and the current row that the keyboard moves.       *)
(*                                                                         *)
(* A path is the sequence of the positions of children, so a branch holds  *)
(* what it is a prefix of.  The row "Show more" of a branch is its child   *)
(* in position `MoreRow`, after all others.  A needle stands for a query   *)
(* once trimmed and lowered; a document says which of its nodes it hits.   *)
(* Props that would control the open branches or the query from outside    *)
(* are left out.                                                           *)
(***************************************************************************)
EXTENDS Naturals, Sequences, FiniteSets, SequencesExt

CONSTANTS
  Documents,  \* [nodes, branches, hits] that the tree may be given
  Needles,    \* queries
  PageSize,   \* children per page
  MaxMatches, \* matches that a search stops at
  ExpandDepth,\* levels open at first
  NoNeedle,   \* an empty query
  MoreRow     \* the position of a row "Show more"

Root == <<>>
(* The children of a branch have the first positions.                       *)
IsDocument(d) ==
  /\ IsFiniteSet(d.nodes) /\ d.nodes \subseteq Seq(1..(MoreRow - 1))
  /\ Root \in d.nodes /\ d.branches \subseteq d.nodes
  /\ \A p \in d.nodes : \A k \in DOMAIN p :
       /\ SubSeq(p, 1, k - 1) \in d.branches
       /\ \A i \in 1..p[k] : Append(SubSeq(p, 1, k - 1), i) \in d.nodes
  /\ \A n \in Needles : d.hits[n] \subseteq d.nodes

ASSUME JsonTreeAssumption ==
  /\ MoreRow \in Nat /\ {PageSize, MaxMatches} \subseteq Nat \ {0}
  /\ \A d \in Documents : IsDocument(d)

VARIABLES
  doc,        \* the prop `data`
  base,       \* expandedInternal: the branches opened by hand
  needle,     \* the query
  closed,     \* closedWhileSearching: branches closed, and the needle they were closed for
  matchIndex,
  pages,      \* pages loaded of each branch
  activeRaw   \* the row last made current

treeVars == <<doc, base, needle, closed, matchIndex, pages, activeRaw>>

AllBranches == UNION {d.branches : d \in Documents}
AllRows == (UNION {d.nodes : d \in Documents}) \cup {Append(f, MoreRow) : f \in AllBranches}
IsMore(r) == r # Root /\ Last(r) = MoreRow

JsonTreeTypeOK ==
  /\ doc \in Documents /\ base \subseteq AllBranches
  /\ needle \in Needles \cup {NoNeedle}
  /\ closed.needle \in Needles \cup {NoNeedle} /\ closed.ids \subseteq AllBranches
  /\ matchIndex \in 0..MaxMatches
  /\ pages \in [AllBranches -> Nat \ {0}]
  /\ activeRaw \in AllRows

(* branchesToDepth                                                          *)
ToDepth(d) == {f \in d.branches : Len(f) < ExpandDepth}
JsonTreeInit ==
  /\ doc \in Documents /\ base = ToDepth(doc)
  /\ needle = NoNeedle /\ closed = [needle |-> NoNeedle, ids |-> {}] /\ matchIndex = 0
  /\ pages = [f \in AllBranches |-> 1] /\ activeRaw = Root

(***************************************************************************)
(* Search.                                                                 *)
(***************************************************************************)
(* The order of the document.                                               *)
Precedes(p, q) ==
  \/ IsStrictPrefix(p, q)
  \/ \E k \in DOMAIN p \cap DOMAIN q :
       p[k] < q[k] /\ \A j \in 1..(k - 1) : p[j] = q[j]
Rank(p, S) == Cardinality({q \in S : Precedes(q, p)})

(* searchJson: the matches, the branches that hold them, and how far their  *)
(* pages must reach.                                                        *)
MatchesOf(n) ==
  IF n = NoNeedle THEN {} ELSE {m \in doc.hits[n] : Rank(m, doc.hits[n]) < MaxMatches}
Matches == MatchesOf(needle)
Ancestors == {f \in doc.branches : \E m \in Matches : IsStrictPrefix(f, m)}
NeededShort(f) ==
  LET below == {m[Len(f) + 1] - 1 : m \in {n \in Matches : IsStrictPrefix(f, n)}}
  IN IF below = {} THEN 0 ELSE Max(below)

Needed(f) ==
  LET below == {m[Len(f) + 1] : m \in {n \in Matches : IsStrictPrefix(f, n)}}
  IN IF below = {} THEN 0 ELSE Max(below)

ClosedNow == IF closed.needle = needle THEN closed.ids ELSE {}
IsOpen(f) == IF f \in Ancestors THEN f \notin ClosedNow ELSE f \in base
LimitOf(f) == Max({pages[f] * PageSize, Needed(f)})

(***************************************************************************)
(* Rows.                                                                   *)
(***************************************************************************)
Count(f) == Cardinality({p \in doc.nodes : Len(p) = Len(f) + 1 /\ IsPrefix(f, p)})
Rows ==
  LET open == {f \in doc.branches : IsOpen(f)}
      limit == [f \in doc.branches |-> LimitOf(f)]
  IN  {p \in doc.nodes \cup {Append(f, MoreRow) : f \in doc.branches} :
         \A k \in DOMAIN p :
           LET f == SubSeq(p, 1, k - 1) IN
           /\ f \in open
           /\ IF p[k] = MoreRow THEN Count(f) > limit[f] ELSE p[k] <= limit[f]}

(* When the current row is folded away, a visible branch takes over: the    *)
(* longest path that a row's text continues with "." or "[".  That of a row *)
(* "Show more" continues its branch with "::", so the branch is passed by.  *)
Within(p, q) == p = q \/ (IsStrictPrefix(p, q) /\ q # Append(p, MoreRow))
Active ==
  LET rows == Rows
      holds == {p \in rows : ~IsMore(p) /\ (p = Root \/ Within(p, activeRaw))}
  IN IF activeRaw \in rows THEN activeRaw
     ELSE CHOOSE p \in holds : \A q \in holds : Len(q) <= Len(p)

(***************************************************************************)
(* Opening, closing and paging.                                            *)
(***************************************************************************)
MoveTo(p) == activeRaw' = p

(* A branch that the search opened is closed and opened again in a set of   *)
(* its own; opening it also opens it by hand.                               *)
Toggle(f, want) ==
  /\ want # IsOpen(f)
  /\ IF f \in Ancestors
     THEN /\ closed' = [needle |-> needle,
                        ids |-> IF want THEN ClosedNow \ {f} ELSE ClosedNow \cup {f}]
          /\ base' = IF want THEN base \cup {f} ELSE base
     ELSE base' = (IF want THEN base \cup {f} ELSE base \ {f}) /\ UNCHANGED closed

ShowMore(f) ==
  pages' = [pages EXCEPT ![f] = (LimitOf(f) + PageSize - 1) \div PageSize + 1]

(* What a press of a row does to the tree.                                  *)
Opens(r) ==
  CASE IsMore(r) -> ShowMore(Front(r)) /\ UNCHANGED <<base, closed>>
    [] r \in doc.branches -> Toggle(r, ~IsOpen(r)) /\ UNCHANGED pages
    [] OTHER -> UNCHANGED <<base, closed, pages>>

ClickRow(r) ==
  /\ Opens(r) /\ MoveTo(r)
  /\ UNCHANGED <<doc, needle, matchIndex>>

ExpandAll ==
  /\ base' = doc.branches
  /\ closed' = [needle |-> needle, ids |-> {}]
  /\ MoveTo(Active)
  /\ UNCHANGED <<doc, needle, matchIndex, pages>>

CollapseAll ==
  /\ base' = doc.branches \cap {Root}
  /\ closed' = [needle |-> needle, ids |-> Ancestors \ {Root}]
  /\ pages' = [f \in AllBranches |-> 1]
  /\ MoveTo(Root)
  /\ UNCHANGED <<doc, needle, matchIndex>>

(***************************************************************************)
(* The keyboard.                                                           *)
(***************************************************************************)
InOrder(k, S) == CHOOSE m \in S : Rank(m, S) = k

(* Up, Down, Home and End stay on the rows; a press beyond an end moves to   *)
(* the row that is current already.                                         *)
Go(key) ==
  /\ LET rows == Rows
         index == Rank(Active, rows)
         last == Cardinality(rows) - 1
     IN MoveTo(CASE key = "ArrowDown" -> IF index = last THEN Active ELSE InOrder(index + 1, rows)
                 [] key = "ArrowUp" -> IF index = 0 THEN Active ELSE InOrder(index - 1, rows)
                 [] key = "Home" -> InOrder(0, rows)
                 [] key = "End" -> InOrder(last, rows))
  /\ UNCHANGED <<doc, base, needle, closed, matchIndex, pages>>

FocusRow(r) ==
  /\ r # Active /\ MoveTo(r)
  /\ UNCHANGED <<doc, base, needle, closed, matchIndex, pages>>

(* Enter or Space: the row stays the one that was made current.             *)
OpenCurrent ==
  /\ Opens(Active)
  /\ UNCHANGED <<doc, needle, matchIndex, activeRaw>>

ArrowRight ==
  LET r == Active IN
  /\ r \in doc.branches
  /\ IF ~IsOpen(r) THEN Toggle(r, TRUE) /\ UNCHANGED activeRaw
     ELSE /\ Count(r) > 0 /\ MoveTo(Append(r, 1))
          /\ UNCHANGED <<base, closed>>
  /\ UNCHANGED <<doc, needle, matchIndex, pages>>

ArrowLeft ==
  LET r == Active IN
  /\ IF r \in doc.branches /\ IsOpen(r) THEN Toggle(r, FALSE) /\ UNCHANGED activeRaw
     ELSE r # Root /\ MoveTo(Front(r)) /\ UNCHANGED <<base, closed>>
  /\ UNCHANGED <<doc, needle, matchIndex, pages>>

(***************************************************************************)
(* The query.                                                              *)
(***************************************************************************)
StepMatch(forward) ==
  /\ Matches # {}
  /\ LET count == Cardinality(Matches)
         at == IF matchIndex < count THEN matchIndex ELSE count - 1
         next == (at + (IF forward THEN 1 ELSE count - 1)) % count
     IN matchIndex' = next /\ MoveTo(InOrder(next, Matches))
  /\ UNCHANGED <<doc, base, needle, closed, pages>>

OnQuery(n) ==
  /\ needle' = n /\ matchIndex' = 0
  /\ IF MatchesOf(n) # {} THEN MoveTo(InOrder(0, MatchesOf(n))) ELSE UNCHANGED activeRaw
  /\ UNCHANGED <<doc, base, closed, pages>>

(* The keys of the field: Escape empties it, Enter goes from match to match, *)
(* and Down enters the tree at the current row.                             *)
SearchKey(key) ==
  CASE key = "Escape" -> needle # NoNeedle /\ OnQuery(NoNeedle)
    [] key = "Enter" -> StepMatch(TRUE)
    [] key = "Shift+Enter" -> StepMatch(FALSE)
    [] key = "ArrowDown" -> MoveTo(Active) /\ UNCHANGED <<doc, base, needle, closed, matchIndex, pages>>

(* The ting was loaded again, with other data.                              *)
NewData(d) ==
  /\ d # doc /\ doc' = d
  /\ UNCHANGED <<base, needle, closed, matchIndex, pages, activeRaw>>

JsonTreeNext ==
  \/ ExpandAll \/ CollapseAll \/ ArrowRight \/ ArrowLeft \/ OpenCurrent
  \/ \E r \in Rows : ClickRow(r) \/ FocusRow(r)
  \/ \E key \in {"ArrowDown", "ArrowUp", "Home", "End"} : Go(key)
  \/ \E key \in {"Escape", "Enter", "Shift+Enter", "ArrowDown"} : SearchKey(key)
  \/ \E forward \in BOOLEAN : StepMatch(forward)
  \/ \E n \in Needles \cup {NoNeedle} : OnQuery(n)
  \/ \E d \in Documents : NewData(d)

JsonTreeSpec == JsonTreeInit /\ [][JsonTreeNext]_treeVars

(***************************************************************************)
(* Properties.                                                             *)
(***************************************************************************)
(* A search shows what it counts: every match is a row of the tree, on      *)
(* whatever page and in whatever branch, unless a branch above it was       *)
(* closed under this query; and the current row is one of the rows.         *)
MatchesAreVisible ==
  /\ \A m \in Matches : m \in Rows \/ \E f \in ClosedNow : IsStrictPrefix(f, m)
  /\ Active \in Rows
==============================================================================
