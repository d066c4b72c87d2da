----------------------------- MODULE SplitPane -----------------------------
(* The split of the request page: the handle between the ledger and the event
   details (TrajectorySplit.tsx) and the width it keeps in the browser's
   storage (detailsWidth.ts).  Widths are whole pixels.  Where the pointer is
   on the handle only shifts what a drag asks for, so a drag asks for any of
   Drags.  Every window of the dashboard has the same storage.  *)
EXTENDS Integers

CONSTANTS MinDetails,   \* MIN_DETAILS_PX, 320
          MinLedger,    \* MIN_LEDGER_PX, 280
          Nudge,        \* an arrow key moves the handle by 24 ...
          BigNudge,     \* ... and with shift by 80
          DefaultWidth, \* what the style sheet gives without a preference
          Containers,   \* widths the split may be laid out with, 0: hidden
          Drags,        \* widths a drag may ask for
          NoWidth,      \* no preference
          Garbage       \* a stored text that is no positive number

ASSUME SplitAssumption ==
    /\ MinDetails \in Nat /\ MinLedger \in Nat /\ DefaultWidth \in Nat
    /\ Nudge \in Nat /\ BigNudge \in Nat
    /\ Containers \subseteq Nat
    /\ Drags \subseteq Int
    /\ NoWidth \notin Int /\ Garbage \notin Int /\ NoWidth # Garbage

VARIABLES split,  \* the component's state, or NoSplit
          stored, \* the width in localStorage
          cursor  \* the cursor of document.body

splitVars == <<split, stored, cursor>>

NoSplit == [mounted |-> FALSE]

Cursors == {"", "col-resize"}

Splits == [mounted : {TRUE}, preferred : Nat \cup {NoWidth},
           dragging : BOOLEAN, saved : Cursors, container : Containers,
           fallback : Nat]

SplitTypeOK == /\ split \in Splits \cup {NoSplit}
               /\ stored \in Nat \cup {NoWidth, Garbage}
               /\ cursor \in Cursors

-----------------------------------------------------------------------------
Larger(a, b)  == IF a >= b THEN a ELSE b
Smaller(a, b) == IF a <= b THEN a ELSE b

\* the widest the details may get
MaxDetails(container) == Larger(0, container - MinLedger)

\* mutant: the details' minimum wins over the ledger's
ClampMinimumLast(requested, container) ==
    IF container <= 0
    THEN Larger(MinDetails, requested)
    ELSE Larger(Smaller(requested, MaxDetails(container)), MinDetails)

\* an unmeasured split keeps what is asked for, at least the minimum
ClampDetailsWidth(requested, container) ==
    IF container <= 0
    THEN Larger(MinDetails, requested)
    ELSE LET max == MaxDetails(container)
             min == Smaller(MinDetails, max)
         IN  Smaller(Larger(requested, min), max)

\* readStoredDetailsWidth: anything that is no positive number is none
ReadStored(text) == IF text \in Nat \ {0} THEN text ELSE NoWidth

\* writeStoredDetailsWidth: null removes it, and storage that is blocked
\* or full keeps what it has
WriteStored(width) == stored' \in {width, stored}

\* the width put into the style; null before the layout is measured
Applied(s) == IF s.preferred = NoWidth \/ s.container <= 0
              THEN NoWidth
              ELSE ClampDetailsWidth(s.preferred, s.container)

\* the width the style sheet lays the details out with
ScreenWidth(s) ==
    IF s.container <= 0 THEN 0
    ELSE Smaller(IF Applied(s) = NoWidth THEN DefaultWidth ELSE Applied(s),
                 MaxDetails(s.container))

\* the layout effect: without a width of its own the split remembers the one
\* on the screen
Measured(s) == IF Applied(s) = NoWidth /\ ScreenWidth(s) > 0
               THEN [s EXCEPT !.fallback = ScreenWidth(s)]
               ELSE s

\* applied ?? fallbackWidth
Width(s) == IF Applied(s) = NoWidth THEN s.fallback ELSE Applied(s)

MeasureDetails(s) == IF ScreenWidth(s) > 0 THEN ScreenWidth(s) ELSE Width(s)

\* aria-valuemin, aria-valuemax, aria-valuenow of the handle
AriaMax(s) == IF s.container > 0 THEN MaxDetails(s.container)
                                 ELSE Larger(MinDetails, s.fallback)
AriaMin(s) == IF s.container > 0 THEN Smaller(MinDetails, AriaMax(s))
                                 ELSE MinDetails
AriaNow(s) == Smaller(Larger(Width(s), AriaMin(s)), AriaMax(s))

-----------------------------------------------------------------------------
SplitInit == split = NoSplit /\ stored = NoWidth /\ cursor = ""

\* rendered for the first time: the stored width is read, if it can be, and
\* the layout effect measures the container before anything is painted
SplitEnters ==
    /\ \E c \in Containers, w \in {ReadStored(stored), NoWidth} :
          split' = Measured(
             [mounted |-> TRUE, preferred |-> w, dragging |-> FALSE,
              saved |-> "", container |-> c, fallback |-> MinDetails])
    /\ UNCHANGED <<stored, cursor>>

\* mutant: the effect cleans nothing up
KeptCursor == cursor

\* the effect that set the body's cursor puts back what it found
RestoredCursor ==
    IF split.mounted /\ split.dragging THEN split.saved ELSE cursor

SplitLeaves == split' = NoSplit /\ cursor' = RestoredCursor

\* a new document: its body has no cursor of its own
SplitReloads == split' = NoSplit /\ cursor' = ""

Resize(c) == /\ split.mounted
             /\ split' = Measured([split EXCEPT !.container = c])
             /\ UNCHANGED <<stored, cursor>>

\* onPointerDown, and the effect that follows dragging
PointerDown ==
    /\ split.mounted /\ ~split.dragging
    /\ split' = [split EXCEPT !.dragging = TRUE, !.saved = cursor]
    /\ cursor' = "col-resize"
    /\ UNCHANGED stored

\* onPointerMove: commit without persisting
PointerMove(requested) ==
    /\ split.mounted /\ split.dragging
    /\ split' = [split EXCEPT
                   !.preferred = ClampDetailsWidth(requested, split.container)]
    /\ UNCHANGED <<stored, cursor>>

\* finishDrag: pointer up, cancelled, or its capture lost
FinishDrag ==
    /\ split.mounted /\ split.dragging
    /\ split' = [split EXCEPT !.dragging = FALSE]
    /\ cursor' = RestoredCursor
    /\ WriteStored(split.preferred)

\* where the arrow keys, Home and End ask the handle to go
KeyRequests(s) ==
    {MeasureDetails(s) + d : d \in {Nudge, BigNudge, -Nudge, -BigNudge}}
    \cup {MinDetails}
    \cup {IF s.container > 0 THEN s.container - MinLedger
                             ELSE MeasureDetails(s)}

HandleKey(requested) ==
    /\ split.mounted
    /\ LET w == ClampDetailsWidth(requested, split.container)
       IN  split' = [split EXCEPT !.preferred = w] /\ WriteStored(w)
    /\ UNCHANGED cursor

\* a double click resets the split
DoubleClick == /\ split.mounted
               /\ split' = Measured([split EXCEPT !.preferred = NoWidth])
               /\ WriteStored(NoWidth)
               /\ UNCHANGED cursor

\* another window of the dashboard stores a width, or something else does
OtherWindow == /\ split.mounted
               /\ stored' \in (Drags \cap Nat) \cup {NoWidth, Garbage}
               /\ UNCHANGED <<split, cursor>>

SplitStep == \/ \E c \in Containers : Resize(c)
             \/ PointerDown
             \/ \E r \in Drags : PointerMove(r)
             \/ FinishDrag
             \/ split.mounted /\ \E r \in KeyRequests(split) : HandleKey(r)
             \/ DoubleClick
             \/ OtherWindow

SplitNext == \/ ~split.mounted /\ SplitEnters
             \/ split.mounted /\ SplitLeaves /\ UNCHANGED stored
             \/ split.mounted /\ SplitReloads /\ UNCHANGED stored
             \/ SplitStep

SplitSpec == SplitInit /\ [][SplitNext]_splitVars

-----------------------------------------------------------------------------
(* Neither side of the split collapses: the details never take the ledger's
   minimum, and where both minimums fit both are kept, whatever was stored,
   dragged or resized; what the handle announces is within its own bounds
   (detailsWidth.ts:9-13, TrajectorySplit.tsx:124-126).  *)
PanesFit ==
    split.mounted =>
    /\ split.container > 0 =>
          /\ Applied(split) # NoWidth
             => Applied(split) <= MaxDetails(split.container)
          /\ Applied(split) # NoWidth
                /\ split.container >= MinDetails + MinLedger
             => /\ Applied(split) >= MinDetails
                /\ split.container - Applied(split) >= MinLedger
    /\ AriaMin(split) <= AriaNow(split)
    /\ AriaNow(split) <= AriaMax(split)

(* The body has the resize cursor exactly while a mounted split is being
   dragged: a drag that is cut short by leaving the page gives it back
   (TrajectorySplit.tsx:57-68).  *)
CursorIsRestored ==
    cursor = IF split.mounted /\ split.dragging THEN "col-resize" ELSE ""
=============================================================================
