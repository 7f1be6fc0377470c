---------------------------- MODULE CopyFeedback ----------------------------
(***************************************************************************)
(* The copy buttons: silicon-ui/lib/use-copy-feedback.ts as copy-button    *)
(* uses it, and the button of the JSON viewer, which keeps its own timer.  *)
(* A copy clears the timer it finds, waits for the clipboard and then sets *)
(* a new one without looking again: the timers of copies that overlapped   *)
(* are forgotten, but still fire.                                          *)
(***************************************************************************)
EXTENDS Naturals, Sequences, FiniteSets

CONSTANTS
  Text,      \* the letters that the button shows when it is idle, copied or error
  MaxCopies  \* bound on the presses of a button

States == {"idle", "copied", "error"}
Chars == UNION {{Text[s][j] : j \in DOMAIN Text[s]} : s \in States}

ASSUME CopyAssumption == (\A s \in States : Text[s] \in Seq(Chars)) /\ MaxCopies \in Nat

VARIABLES
  viewer,    \* the button is one of the JSON viewer
  feedback,  \* state: idle, copied or error
  timing,    \* the timer that timeout.current (timer.current) holds has yet to fire
  strays,    \* timers that were forgotten and have yet to fire
  writing,   \* calls of writeText that have yet to settle
  copies,    \* presses so far
  announced, \* the viewer's announcement: what its last copy came to
  glyphs     \* useGlyphs: the letters shown, each with its key

copyVars == <<viewer, feedback, timing, strays, writing, copies, announced, glyphs>>

CopyTypeOK ==
  /\ {viewer, timing} \subseteq BOOLEAN
  /\ feedback \in States /\ announced \in States
  /\ strays \in Nat /\ writing \in Nat /\ copies \in Nat
  /\ \A i \in DOMAIN glyphs.letters :
       glyphs.letters[i] \in [id : Nat \X Nat, char : Chars]

(***************************************************************************)
(* Letters shared at the start and the end keep their key, so that only    *)
(* the others are replaced.                                                *)
(***************************************************************************)
toGlyphs(chars, seq) == [i \in DOMAIN chars |-> [id |-> <<seq, i>>, char |-> chars[i]]]

SharedStart(prev, next) ==
  CHOOSE n \in 0..Len(prev) :
    /\ n <= Len(next) /\ \A i \in 1..n : prev[i] = next[i]
    /\ n = Len(prev) \/ n = Len(next) \/ prev[n + 1] # next[n + 1]
SharedEnd(prev, next, start) ==
  CHOOSE n \in 0..(Len(prev) - start) :
    LET prevAt(i) == prev[Len(prev) + 1 - i]  nextAt(i) == next[Len(next) + 1 - i] IN
      /\ n <= Len(next) - start /\ \A i \in 1..n : prevAt(i) = nextAt(i)
      /\ n = Len(prev) - start \/ n = Len(next) - start \/ prevAt(n + 1) # nextAt(n + 1)

(* A letter that stands alone is replaced with the others.                  *)
Kept(n) == IF n < 2 THEN 0 ELSE n
Spliced(letters, start, between, end) ==
  LET n == Len(letters) IN SubSeq(letters, 1, start) \o between \o SubSeq(letters, n - end + 1, n)

useGlyphs(shown, next) ==
  IF shown.text = next THEN shown ELSE
    LET first == SharedStart(shown.text, next)
        start == Kept(first)
        end == Kept(SharedEnd(shown.text, next, first))
        between == toGlyphs(SubSeq(next, start + 1, Len(next) - end), shown.seq + 1)
    IN  [text |-> next, seq |-> shown.seq + 1, letters |-> Spliced(shown.letters, start, between, end)]

NewGlyphs == [text |-> Text["idle"], seq |-> 0, letters |-> toGlyphs(Text["idle"], 0)]
Feedback(state) ==
  /\ feedback' = state
  /\ glyphs' = IF viewer THEN glyphs ELSE useGlyphs(glyphs, Text[state])

(***************************************************************************)
(* Copying.                                                                *)
(***************************************************************************)
CopyInit ==
  /\ viewer \in BOOLEAN
  /\ feedback = "idle" /\ timing = FALSE /\ strays = 0 /\ writing = 0 /\ copies = 0
  /\ announced = "idle" /\ glyphs = NewGlyphs

copy ==
  /\ copies < MaxCopies /\ copies' = copies + 1
  /\ timing' = FALSE /\ writing' = writing + 1
  /\ UNCHANGED <<viewer, feedback, strays, announced, glyphs>>

(* The viewer announces what its last copy came to.                         *)
Announces(state) == announced' = IF viewer THEN state ELSE announced

Written(state) ==
  /\ writing > 0 /\ writing' = writing - 1
  /\ Feedback(state)
  /\ strays' = IF timing THEN strays + 1 ELSE strays
  /\ timing' = TRUE
  /\ Announces(state)
  /\ UNCHANGED <<viewer, copies>>

(* reset of the hook also clears the timer held, whichever timer calls it;   *)
(* the viewer's only goes back to idle.                                      *)
TimeoutFires ==
  /\ timing /\ timing' = FALSE
  /\ Feedback("idle")
  /\ UNCHANGED <<viewer, strays, writing, copies, announced>>

StrayFires ==
  /\ strays > 0 /\ strays' = strays - 1
  /\ Feedback("idle")
  /\ timing' = (timing /\ viewer)
  /\ UNCHANGED <<viewer, writing, copies, announced>>

(* The button unmounts: what is still under way can no longer show.         *)
Unmounts ==
  /\ feedback' = "idle" /\ timing' = FALSE /\ strays' = 0 /\ writing' = 0
  /\ announced' = "idle" /\ glyphs' = NewGlyphs
  /\ UNCHANGED <<viewer, copies>>

CopyStep ==
  \/ copy \/ TimeoutFires \/ StrayFires \/ Unmounts
  \/ \E state \in {"copied", "error"} : Written(state)

CopySpec == CopyInit /\ [][CopyStep]_copyVars

(***************************************************************************)
(* Properties.                                                             *)
(***************************************************************************)
(* Whatever copies overlap, what a button shows of a copy does not stay: a  *)
(* timer or another copy under way will take it away.                       *)
FeedbackEnds == feedback # "idle" => timing \/ strays > 0 \/ writing > 0

(* The letters always spell what the button says, with keys of their own,   *)
(* however the three words follow each other.                               *)
GlyphsSpell ==
  /\ ~viewer => [i \in DOMAIN glyphs.letters |-> glyphs.letters[i].char] = Text[feedback]
  /\ Cardinality({glyphs.letters[i].id : i \in DOMAIN glyphs.letters}) = Len(glyphs.letters)
==============================================================================
