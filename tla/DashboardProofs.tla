--------------------------- MODULE DashboardProofs ---------------------------
(* Proofs about Dashboard, for any sessions, requests, models, periods, filters
   and bounds: what a page promises holds in the whole window, however its user
   moves among the routes.  Each page is first cut out of the next-state
   relation (what may happen to it), then its invariant is shown to be kept.  *)
EXTENDS Dashboard, ListLemmas, TLAPS

-----------------------------------------------------------------------------
(* The split of the request page, for any minimums, steps and widths *)

(* What a drag has saved is the cursor of a body that was not being dragged. *)
SavedIsFree == split.mounted /\ split.dragging => split.saved = ""

SplitInv == SplitTypeOK /\ CursorIsRestored /\ SavedIsFree

(* Where both minimums fit, a clamped width keeps both; where they do not, it   *)
(* keeps what it can of the details' without going past the container.         *)
LEMMA ClampBounds ==
    ASSUME NEW r \in Int, NEW c \in Nat
    PROVE  LET w == ClampDetailsWidth(r, c)
           IN  /\ w \in Nat
               /\ c > 0 => w <= MaxDetails(c)
               /\ c >= MinDetails + MinLedger /\ c > 0
                  => w >= MinDetails /\ c - w >= MinLedger
  BY SplitAssumption DEF ClampDetailsWidth, MaxDetails, Larger, Smaller

LEMMA WidthTypes == ASSUME NEW s \in Splits
                    PROVE  /\ Applied(s) \in Nat \cup {NoWidth}
                           /\ ScreenWidth(s) \in Nat
                           /\ Width(s) \in Nat
                           /\ MeasureDetails(s) \in Nat
                           /\ KeyRequests(s) \subseteq Int
  <1>0. s.container \in Nat /\ s.fallback \in Nat
        /\ s.preferred \in Nat \cup {NoWidth}
    BY SplitAssumption DEF Splits
  <1>1. Applied(s) \in Nat \cup {NoWidth}
    <2>1. CASE s.preferred = NoWidth \/ s.container <= 0
      BY <2>1 DEF Applied
    <2>2. CASE ~(s.preferred = NoWidth \/ s.container <= 0)
      <3>1. s.preferred \in Int
        BY <1>0, <2>2
      <3> QED BY <1>0, <2>2, <3>1, ClampBounds DEF Applied
    <2> QED BY <2>1, <2>2
  <1>2. MaxDetails(s.container) \in Nat
    BY <1>0, SplitAssumption DEF MaxDetails, Larger
  <1>3. ScreenWidth(s) \in Nat
    <2>1. CASE s.container <= 0
      BY <2>1 DEF ScreenWidth
    <2>2. CASE ~(s.container <= 0)
      <3>1. (IF Applied(s) = NoWidth THEN DefaultWidth ELSE Applied(s)) \in Nat
        BY <1>1, SplitAssumption
      <3> QED BY <2>2, <3>1, <1>2 DEF ScreenWidth, Smaller
    <2> QED BY <2>1, <2>2
  <1>4. Width(s) \in Nat
    BY <1>0, <1>1 DEF Width
  <1>5. MeasureDetails(s) \in Nat
    BY <1>3, <1>4 DEF MeasureDetails
  <1>6. KeyRequests(s) \subseteq Int
    BY <1>0, <1>5, SplitAssumption DEF KeyRequests
  <1> QED BY <1>1, <1>3, <1>4, <1>5, <1>6

(* The fields of a split may change one at a time. *)
LEMMA MeasuredType == ASSUME NEW s \in Splits
                      PROVE  /\ Measured(s) \in Splits
                             /\ Measured(s).dragging = s.dragging
                             /\ Measured(s).saved = s.saved
  <1>1. ScreenWidth(s) \in Nat
    BY WidthTypes
  <1>2. [s EXCEPT !.fallback = ScreenWidth(s)] \in Splits
        /\ [s EXCEPT !.fallback = ScreenWidth(s)].dragging = s.dragging
        /\ [s EXCEPT !.fallback = ScreenWidth(s)].saved = s.saved
    BY <1>1 DEF Splits
  <1> QED BY <1>2 DEF Measured

(* A split that is there can be dragged; none that is not is. *)
LEMMA SplitIsThere == ASSUME NEW s \in Splits \cup {NoSplit}
                      PROVE  s.mounted <=> s \in Splits
  <1>1. CASE s = NoSplit
    BY <1>1 DEF NoSplit, Splits
  <1>2. CASE s \in Splits
    <2>1. s.mounted
      BY <1>2 DEF Splits
    <2> QED BY <1>2, <2>1
  <1> QED BY <1>1, <1>2

LEMMA NoSplitIsNotThere == ~NoSplit.mounted
  BY DEF NoSplit

(* The cursor the body gets back is the one it has without a drag. *)
LEMMA CursorComesBack == SplitInv => RestoredCursor = ""
  BY DEF SplitInv, CursorIsRestored, SavedIsFree, RestoredCursor

LEMMA SplitStarts == SplitInit => SplitInv
  <1> SUFFICES ASSUME SplitInit PROVE SplitInv
    OBVIOUS
  <1>1. ~split.mounted
    BY NoSplitIsNotThere DEF SplitInit
  <1>2. CursorIsRestored
    BY <1>1 DEF SplitInit, CursorIsRestored
  <1>3. SplitTypeOK
    BY DEF SplitInit, SplitTypeOK, Cursors
  <1>4. SavedIsFree
    BY <1>1 DEF SavedIsFree
  <1> QED BY <1>2, <1>3, <1>4 DEF SplitInv

(* The page is left, in the same document or for a new one. *)
LEMMA LeavingRestores ==
    SplitInv /\ (SplitLeaves \/ SplitReloads) /\ UNCHANGED stored => SplitInv'
  <1> SUFFICES ASSUME SplitInv, SplitLeaves \/ SplitReloads, UNCHANGED stored
               PROVE  SplitInv'
    OBVIOUS
  <1>1. split' = NoSplit
    BY DEF SplitLeaves, SplitReloads
  <1>2. cursor' = ""
    BY CursorComesBack DEF SplitLeaves, SplitReloads
  <1>3. ~split'.mounted
    BY <1>1, NoSplitIsNotThere
  <1>4. SplitTypeOK'
    BY <1>1, <1>2 DEF SplitInv, SplitTypeOK, Cursors
  <1>5. CursorIsRestored' /\ SavedIsFree'
    BY <1>2, <1>3 DEF CursorIsRestored, SavedIsFree
  <1> QED BY <1>4, <1>5 DEF SplitInv

(* The split is drawn: whatever is stored, it starts undragged. *)
LEMMA EnteringRestores == SplitInv /\ ~split.mounted /\ SplitEnters => SplitInv'
  <1> SUFFICES ASSUME SplitInv, ~split.mounted, SplitEnters
               PROVE  SplitInv'
    OBVIOUS
  <1>1. PICK c \in Containers, w \in {ReadStored(stored), NoWidth} :
          split' = Measured([mounted |-> TRUE, preferred |-> w,
                             dragging |-> FALSE, saved |-> "", container |-> c,
                             fallback |-> MinDetails])
    BY DEF SplitEnters
  <1> DEFINE new == [mounted |-> TRUE, preferred |-> w, dragging |-> FALSE,
                     saved |-> "", container |-> c, fallback |-> MinDetails]
  <1>2. w \in Nat \cup {NoWidth}
    BY DEF ReadStored
  <1>3. new \in Splits /\ ~new.dragging
    BY <1>2, SplitAssumption DEF Splits, Cursors
  <1>4. split' \in Splits /\ ~split'.dragging
    BY <1>1, <1>3, MeasuredType
  <1>5. cursor' = "" /\ stored' = stored
    BY DEF SplitEnters, SplitInv, CursorIsRestored
  <1>6. SplitTypeOK'
    BY <1>4, <1>5 DEF SplitInv, SplitTypeOK, Cursors
  <1>7. CursorIsRestored' /\ SavedIsFree'
    BY <1>4, <1>5 DEF CursorIsRestored, SavedIsFree
  <1> QED BY <1>6, <1>7 DEF SplitInv

(* Each way the user, the window or the storage moves the handle. *)
LEMMA StepRestores == SplitInv /\ SplitStep => SplitInv'
  <1> SUFFICES ASSUME SplitInv, SplitStep
               PROVE  SplitInv'
    OBVIOUS
  <1>t. split \in Splits \cup {NoSplit} /\ cursor \in Cursors
        /\ stored \in Nat \cup {NoWidth, Garbage}
    BY DEF SplitInv, SplitTypeOK
  <1>m. split.mounted
    BY DEF SplitStep, Resize, PointerDown, PointerMove, FinishDrag, DoubleClick,
           OtherWindow
  <1>s. split \in Splits /\ split.mounted = TRUE
    BY <1>t, <1>m, SplitIsThere DEF Splits
  <1>f. /\ split.preferred \in Nat \cup {NoWidth} /\ split.dragging \in BOOLEAN
        /\ split.saved \in Cursors /\ split.container \in Containers
        /\ split.fallback \in Nat /\ split.container \in Nat
    BY <1>s, SplitAssumption DEF Splits
  <1>1. ASSUME split' \in Splits, split'.dragging = split.dragging,
               split'.saved = split.saved, cursor' = cursor,
               stored' \in Nat \cup {NoWidth, Garbage}
        PROVE  SplitInv'
    <2>1. split'.mounted = TRUE
      BY <1>1 DEF Splits
    <2>2. SplitTypeOK'
      BY <1>1, <1>t DEF SplitTypeOK
    <2>3. CursorIsRestored'
      BY <1>1, <1>s, <2>1 DEF SplitInv, CursorIsRestored
    <2>4. SavedIsFree'
      BY <1>1, <1>s, <2>1 DEF SplitInv, SavedIsFree
    <2> QED BY <2>2, <2>3, <2>4 DEF SplitInv
  <1>2. ASSUME NEW c \in Containers, Resize(c)
        PROVE  SplitInv'
    <2> DEFINE new == [split EXCEPT !.container = c]
    <2>1. new \in Splits /\ new.dragging = split.dragging /\ new.saved = split.saved
      BY <1>s DEF Splits
    <2>2. split' = Measured(new) /\ stored' = stored /\ cursor' = cursor
      BY <1>2 DEF Resize
    <2>3. split' \in Splits /\ split'.dragging = split.dragging
          /\ split'.saved = split.saved
      BY <2>1, <2>2, MeasuredType
    <2> QED BY <1>1, <1>t, <2>2, <2>3
  <1>3. CASE PointerDown
    <2>1. cursor = ""
      BY <1>3, <1>s DEF SplitInv, CursorIsRestored, PointerDown
    <2>2. split' = [split EXCEPT !.dragging = TRUE, !.saved = cursor]
          /\ cursor' = "col-resize" /\ stored' = stored
      BY <1>3 DEF PointerDown
    <2>3. split' \in Splits /\ split'.mounted = TRUE /\ split'.dragging = TRUE
          /\ split'.saved = ""
      BY <1>s, <2>1, <2>2 DEF Splits, Cursors
    <2>4. SplitTypeOK'
      BY <1>t, <2>2, <2>3 DEF SplitTypeOK, Cursors
    <2>5. CursorIsRestored' /\ SavedIsFree'
      BY <2>2, <2>3 DEF CursorIsRestored, SavedIsFree
    <2> QED BY <2>4, <2>5 DEF SplitInv
  <1>4. ASSUME NEW r \in Drags, PointerMove(r)
        PROVE  SplitInv'
    <2> DEFINE w == ClampDetailsWidth(r, split.container)
    <2>1. w \in Nat
      BY <1>f, ClampBounds, SplitAssumption
    <2>2. split' = [split EXCEPT !.preferred = w]
          /\ stored' = stored /\ cursor' = cursor
      BY <1>4 DEF PointerMove
    <2>3. split' \in Splits /\ split'.dragging = split.dragging
          /\ split'.saved = split.saved
      BY <1>s, <2>1, <2>2 DEF Splits
    <2> QED BY <1>1, <1>t, <2>2, <2>3
  <1>5. CASE FinishDrag
    <2>1. cursor' = ""
      BY <1>5, CursorComesBack DEF FinishDrag
    <2>2. split' = [split EXCEPT !.dragging = FALSE]
          /\ stored' \in {split.preferred, stored}
      BY <1>5 DEF FinishDrag, WriteStored
    <2>3. split' \in Splits /\ split'.dragging = FALSE
      BY <1>s, <2>2 DEF Splits
    <2>4. SplitTypeOK'
      BY <1>t, <1>f, <2>1, <2>2, <2>3 DEF SplitTypeOK, Cursors
    <2>5. CursorIsRestored' /\ SavedIsFree'
      BY <2>1, <2>3 DEF CursorIsRestored, SavedIsFree
    <2> QED BY <2>4, <2>5 DEF SplitInv
  <1>6. ASSUME NEW r \in KeyRequests(split), HandleKey(r)
        PROVE  SplitInv'
    <2> DEFINE w == ClampDetailsWidth(r, split.container)
    <2>1. w \in Nat
      BY <1>s, <1>f, ClampBounds, WidthTypes
    <2>2. split' = [split EXCEPT !.preferred = w]
          /\ stored' \in {w, stored} /\ cursor' = cursor
      BY <1>6 DEF HandleKey, WriteStored
    <2>3. split' \in Splits /\ split'.dragging = split.dragging
          /\ split'.saved = split.saved
      BY <1>s, <2>1, <2>2 DEF Splits
    <2> QED BY <1>1, <1>t, <2>1, <2>2, <2>3
  <1>7. CASE DoubleClick
    <2> DEFINE new == [split EXCEPT !.preferred = NoWidth]
    <2>1. new \in Splits /\ new.dragging = split.dragging /\ new.saved = split.saved
      BY <1>s DEF Splits
    <2>2. split' = Measured(new) /\ stored' \in {NoWidth, stored}
          /\ cursor' = cursor
      BY <1>7 DEF DoubleClick, WriteStored
    <2>3. split' \in Splits /\ split'.dragging = split.dragging
          /\ split'.saved = split.saved
      BY <2>1, <2>2, MeasuredType
    <2> QED BY <1>1, <1>t, <2>2, <2>3
  <1>8. CASE OtherWindow
    BY <1>1, <1>s, <1>t, <1>8 DEF OtherWindow
  <1> QED BY <1>2, <1>3, <1>4, <1>5, <1>6, <1>7, <1>8 DEF SplitStep

LEMMA SplitMoves == SplitInv /\ [SplitNext]_splitVars => SplitInv'
  <1> SUFFICES ASSUME SplitInv, [SplitNext]_splitVars
               PROVE  SplitInv'
    OBVIOUS
  <1>1. CASE UNCHANGED splitVars
    BY <1>1 DEF splitVars, SplitInv, SplitTypeOK, CursorIsRestored, SavedIsFree
  <1> QED BY <1>1, EnteringRestores, LeavingRestores, StepRestores DEF SplitNext

(* The panes fit in every state that is well typed. *)
LEMMA TypedPanesFit == SplitTypeOK => PanesFit
  <1> SUFFICES ASSUME SplitTypeOK, split.mounted
               PROVE  PanesFit
    BY DEF PanesFit
  <1>1. split \in Splits
    BY SplitIsThere DEF SplitTypeOK
  <1>2. /\ split.container \in Nat /\ split.fallback \in Nat
        /\ split.preferred \in Nat \cup {NoWidth}
    BY <1>1, SplitAssumption DEF Splits
  <1>3. Applied(split) # NoWidth
        => /\ split.container > 0
           /\ split.preferred \in Int
           /\ Applied(split) = ClampDetailsWidth(split.preferred, split.container)
    BY <1>2 DEF Applied
  <1>4. Applied(split) # NoWidth
        => /\ Applied(split) <= MaxDetails(split.container)
           /\ split.container >= MinDetails + MinLedger
              => /\ Applied(split) >= MinDetails
                 /\ split.container - Applied(split) >= MinLedger
    BY <1>2, <1>3, ClampBounds
  <1>5. Width(split) \in Nat /\ AriaMin(split) \in Nat /\ AriaMax(split) \in Nat
        /\ AriaMin(split) <= AriaMax(split)
    BY <1>1, <1>2, WidthTypes, SplitAssumption
       DEF AriaMin, AriaMax, MaxDetails, Larger, Smaller
  <1>6. AriaMin(split) <= AriaNow(split) /\ AriaNow(split) <= AriaMax(split)
    BY <1>5 DEF AriaNow, Larger, Smaller
  <1> QED BY <1>4, <1>6 DEF PanesFit

(* Of the split alone, with any page around it: its state is well typed, the *)
(* panes fit and the cursor is given back.                                   *)
THEOREM SplitInvariance == SplitSpec => [](SplitInv /\ PanesFit)
  <1>1. SplitInv => PanesFit
    BY TypedPanesFit DEF SplitInv
  <1> QED BY <1>1, SplitStarts, SplitMoves, PTL DEF SplitSpec

-----------------------------------------------------------------------------
(* Whatever moves the window shows a route. *)
LEMMA MovesShow == Moves => \E route, same : Show(route, same)
  BY DEF Moves, Start, Assign, Traverse, Reload, NavLink, Navigate, OpenSession,
         SessionLink, WindowBlocked

(* What may happen to the page of debug runs. *)
LEMMA DebugChanges ==
    [Next]_vars
    => DebugEnters \/ DebugLeaves \/ DebugStep \/ UNCHANGED debugVars
  <1>1. ASSUME NEW route, NEW same, Show(route, same)
        PROVE  DebugEnters \/ DebugLeaves \/ UNCHANGED debugVars
    BY <1>1 DEF Show, Outlet
  <1>2. Moves => DebugEnters \/ DebugLeaves \/ UNCHANGED debugVars
    BY <1>1, MovesShow
  <1> QED BY <1>2 DEF Next, InFeed, InSessions, InDetail, InDebug, InUsage,
                      vars, pageVars

(* A discovery is under way exactly while the page says it is loading, and     *)
(* never beside a run: the buttons that start the two disable each other.      *)
OneAtATime == debug.mounted => /\ debug.loading <=> discovering = 1
                               /\ ~(debug.loading /\ debug.pending)

DebugInv == DebugTypeOK /\ RunIsSelected /\ OneAtATime

LEMMA DebugStarts == Init => DebugInv
  <1>1. ~NoDebug.mounted
    BY DEF NoDebug
  <1>2. Init => debug = NoDebug /\ discovering = 0 /\ runs = <<>>
    BY DEF Init, DebugInit
  <1> QED BY <1>1, <1>2 DEF DebugInv, DebugTypeOK, RunIsSelected, OneAtATime

LEMMA DebugMountedType == ASSUME DebugTypeOK
                          PROVE  debug.mounted <=> debug \in Debugs
  <1>1. CASE debug = NoDebug
    BY <1>1 DEF NoDebug, Debugs
  <1>2. CASE debug \in Debugs
    <2>1. debug.mounted
      BY <1>2 DEF Debugs
    <2> QED BY <1>2, <2>1
  <1> QED BY <1>1, <1>2 DEF DebugTypeOK

LEMMA DebugEntersInv == DebugEnters => DebugInv' /\ debug'.mounted
  <1> SUFFICES ASSUME DebugEnters PROVE DebugInv' /\ debug'.mounted
    OBVIOUS
  <1> DEFINE new == [mounted |-> TRUE, catalog |-> NoCatalog, model |-> NoModel,
                     prompt |-> FALSE, loading |-> TRUE, error |-> FALSE,
                     pending |-> FALSE, result |-> NoResult]
  <1>1. debug' = new /\ discovering' = 1 /\ runs' = <<>>
    BY DEF DebugEnters
  <1>c. NoCatalog \in Catalogs
    BY DEF Catalogs
  <1>2. new \in Debugs
    BY <1>c DEF Debugs
  <1>2a. new.mounted /\ new.loading /\ ~new.pending
    OBVIOUS
  <1>3. DebugTypeOK'
    BY <1>1, <1>2 DEF DebugTypeOK
  <1>4. RunIsSelected'
    BY <1>1, <1>2a DEF RunIsSelected
  <1>5. OneAtATime'
    BY <1>1, <1>2a DEF OneAtATime
  <1> QED BY <1>1, <1>2a, <1>3, <1>4, <1>5 DEF DebugInv

LEMMA DebugLeavesInv == DebugLeaves => DebugInv'
  <1> SUFFICES ASSUME DebugLeaves PROVE DebugInv'
    OBVIOUS
  <1>1. debug' = NoDebug /\ discovering' = 0 /\ runs' = <<>>
    BY DEF DebugLeaves
  <1>2. ~debug'.mounted
    BY <1>1 DEF NoDebug
  <1> QED BY <1>1, <1>2 DEF DebugInv, DebugTypeOK, RunIsSelected, OneAtATime

(* What a mounted page is like, field by field. *)
LEMMA DebugFields ==
    ASSUME DebugInv, debug.mounted
    PROVE  /\ debug \in Debugs /\ debug.mounted = TRUE
           /\ debug.catalog \in Catalogs
           /\ debug.model \in Models \cup {NoModel}
           /\ debug.prompt \in BOOLEAN /\ debug.loading \in BOOLEAN
           /\ debug.error \in BOOLEAN /\ debug.pending \in BOOLEAN
           /\ runs \in Seq(Models) /\ discovering \in 0 .. 1
           /\ debug.loading <=> discovering = 1
           /\ ~(debug.loading /\ debug.pending)
           /\ debug.pending <=> runs # <<>>
           /\ debug.pending => /\ Len(runs) = 1 /\ debug.result = NoResult
                               /\ Head(runs) = debug.model /\ IsSelected(debug)
  <1>1. debug \in Debugs
    BY DebugMountedType DEF DebugInv
  <1>2. /\ debug.mounted = TRUE
        /\ debug.catalog \in Catalogs
        /\ debug.model \in Models \cup {NoModel}
        /\ debug.prompt \in BOOLEAN /\ debug.loading \in BOOLEAN
        /\ debug.error \in BOOLEAN /\ debug.pending \in BOOLEAN
    BY <1>1 DEF Debugs
  <1>3. runs \in Seq(Models) /\ discovering \in 0 .. 1
    BY DEF DebugInv, DebugTypeOK
  <1>4. /\ debug.loading <=> discovering = 1
        /\ ~(debug.loading /\ debug.pending)
    BY DEF DebugInv, OneAtATime
  <1>5. /\ debug.pending <=> runs # <<>>
        /\ debug.pending => /\ Len(runs) = 1 /\ debug.result = NoResult
                            /\ Head(runs) = debug.model /\ IsSelected(debug)
    BY DEF DebugInv, RunIsSelected
  <1> QED BY <1>1, <1>2, <1>3, <1>4, <1>5

(* To show the invariant of a mounted page it is enough to show these. *)
LEMMA DebugKept ==
    ASSUME debug' \in Debugs, runs' \in Seq(Models), discovering' \in 0 .. 1,
           debug'.loading <=> discovering' = 1,
           ~(debug'.loading /\ debug'.pending),
           debug'.pending <=> runs' # <<>>,
           debug'.pending => /\ Len(runs') = 1 /\ debug'.result = NoResult
                             /\ Head(runs') = debug'.model /\ IsSelected(debug')
    PROVE  DebugInv' /\ debug'.mounted
  <1>1. debug'.mounted
    BY DEF Debugs
  <1>2. DebugTypeOK'
    BY <1>1 DEF DebugTypeOK
  <1>3. RunIsSelected'
    BY <1>1 DEF RunIsSelected
  <1>4. OneAtATime'
    BY <1>1 DEF OneAtATime
  <1> QED BY <1>1, <1>2, <1>3, <1>4 DEF DebugInv

LEMMA DebugStepInv == DebugInv /\ DebugStep => DebugInv' /\ debug'.mounted
  <1> SUFFICES ASSUME DebugInv, DebugStep PROVE DebugInv' /\ debug'.mounted
    OBVIOUS
  <1>m. debug.mounted
    BY DEF DebugStep
  <1>f. /\ debug \in Debugs
        /\ runs \in Seq(Models) /\ discovering \in 0 .. 1
        /\ debug.loading <=> discovering = 1
        /\ ~(debug.loading /\ debug.pending)
        /\ debug.pending <=> runs # <<>>
        /\ debug.pending => /\ Len(runs) = 1 /\ debug.result = NoResult
                            /\ Head(runs) = debug.model /\ IsSelected(debug)
    BY <1>m, DebugFields
  <1>d. debug \in Debugs
    BY <1>f
  <1>g. discovering \in 0 .. 1
    BY <1>f
  <1>1. CASE Refresh
    <2>1. ~debug.loading /\ ~debug.pending
      BY <1>1 DEF Refresh, Enabled
    <2>2. debug' = [debug EXCEPT !.loading = TRUE, !.error = FALSE]
          /\ discovering' = discovering + 1 /\ runs' = runs
      BY <1>1 DEF Refresh
    <2>3. debug' \in Debugs /\ debug'.loading = TRUE
          /\ debug'.pending = debug.pending
      BY <1>f, <2>2 DEF Debugs
    <2>4. discovering' = 1
      BY <1>f, <2>1, <2>2
    <2> QED BY <1>f, <2>1, <2>2, <2>3, <2>4, DebugKept
  <1>2. CASE Discovery
    <2>0. discovering > 0
      BY <1>2 DEF Discovery, Discovered, DiscoveryFails
    <2>1a. discovering = 1
      BY <2>0, <1>g
    <2>1. debug.loading /\ discovering = 1 /\ ~debug.pending
      BY <2>1a, <1>f
    <2>2. debug' \in Debugs /\ debug'.loading = FALSE
          /\ debug'.pending = debug.pending
      <3>1. ASSUME NEW models \in SUBSET Models, NEW first \in Models \cup {NoModel},
                   Discovered(models, first)
            PROVE  debug' \in Debugs /\ debug'.loading = FALSE
                   /\ debug'.pending = debug.pending
        <4>0. models \in Catalogs
          BY DEF Catalogs
        <4>1. debug' = [debug EXCEPT !.catalog = models, !.loading = FALSE,
                          !.model = IF @ \in models THEN @ ELSE first]
          BY <3>1 DEF Discovered
        <4>2. (IF debug.model \in models THEN debug.model ELSE first)
              \in Models \cup {NoModel}
          BY <1>d DEF Debugs
        <4> QED BY <1>d, <4>0, <4>1, <4>2 DEF Debugs
      <3>2. CASE DiscoveryFails
        <4>1. debug' = [debug EXCEPT !.catalog = NoCatalog, !.error = TRUE,
                                     !.loading = FALSE]
          BY <3>2 DEF DiscoveryFails
        <4>2. NoCatalog \in Catalogs
          BY DEF Catalogs
        <4> QED BY <1>d, <4>1, <4>2 DEF Debugs
      <3> QED BY <1>2, <3>1, <3>2 DEF Discovery
    <2>3. discovering' = discovering - 1 /\ runs' = runs
      BY <1>2 DEF Discovery, Discovered, DiscoveryFails
    <2>4. discovering' = 0
      BY <2>1, <2>3
    <2> QED BY <1>f, <2>1, <2>2, <2>3, <2>4, DebugKept
  <1>3. ASSUME NEW m \in Models, ChooseModel(m)
        PROVE  DebugInv' /\ debug'.mounted
    <2>1. ~debug.loading /\ ~debug.pending
      BY <1>3 DEF ChooseModel, Enabled
    <2>2. debug' = [debug EXCEPT !.model = m]
          /\ discovering' = discovering /\ runs' = runs
      BY <1>3 DEF ChooseModel
    <2>3. debug' \in Debugs /\ debug'.loading = debug.loading
          /\ debug'.pending = debug.pending
      BY <1>f, <2>2 DEF Debugs
    <2> QED BY <1>f, <2>1, <2>2, <2>3, DebugKept
  <1>4. CASE EditPrompt
    <2>1. ~debug.pending
      BY <1>4 DEF EditPrompt, Enabled
    <2>2. debug' = [debug EXCEPT !.prompt = ~@]
          /\ discovering' = discovering /\ runs' = runs
      BY <1>4 DEF EditPrompt
    <2>3. debug' \in Debugs /\ debug'.loading = debug.loading
          /\ debug'.pending = debug.pending
      BY <1>f, <2>2 DEF Debugs
    <2> QED BY <1>f, <2>1, <2>2, <2>3, DebugKept
  <1>5. CASE Submit
    <2>1. runs = <<>> /\ IsSelected(debug) /\ ~debug.loading
          /\ debug' = [debug EXCEPT !.pending = TRUE, !.result = NoResult]
          /\ runs' = Append(runs, debug.model) /\ discovering' = discovering
      BY <1>5 DEF Submit
    <2>2. debug' \in Debugs /\ debug'.loading = debug.loading
          /\ debug'.pending = TRUE /\ debug'.result = NoResult
          /\ debug'.model = debug.model /\ debug'.catalog = debug.catalog
      BY <1>f, <2>1 DEF Debugs
    <2>2a. debug.catalog \in Catalogs
      BY <1>d DEF Debugs
    <2>2b. Listed(debug) \subseteq Models
      BY <2>2a DEF Listed, Catalogs
    <2>3. debug.model \in Models
      <3>1. IsSelected(debug)
        BY <2>1
      <3> QED BY <3>1, <2>2b DEF IsSelected
    <2>4. runs' \in Seq(Models) /\ Len(runs') = 1 /\ Head(runs') = debug.model
          /\ runs' # <<>>
      BY <2>1, <2>3
    <2>5. IsSelected(debug')
      BY <2>1, <2>2 DEF IsSelected, Listed
    <2> QED BY <1>f, <2>1, <2>2, <2>4, <2>5, DebugKept
  <1>6. ASSUME NEW i \in DOMAIN runs, NEW reply \in Replies, RunEnds(i, reply)
        PROVE  DebugInv' /\ debug'.mounted
    <2>1. debug' = [debug EXCEPT !.pending = FALSE,
                                 !.result = RunDebug(runs[i], reply)]
          /\ runs' = RemoveAt(runs, i) /\ discovering' = discovering
      BY <1>6 DEF RunEnds
    <2>2. runs[i] \in Models
      BY <1>f, <1>6
    <2>3. RunDebug(runs[i], reply) \in Results
      BY <2>2 DEF Results
    <2>4. debug' \in Debugs /\ debug'.pending = FALSE
          /\ debug'.loading = debug.loading
      BY <1>f, <2>1, <2>3 DEF Debugs
    <2>5. runs # <<>> /\ Len(runs) = 1
      BY <1>f, <1>6
    <2>6. runs' \in Seq(Models) /\ Len(runs') = 0
      BY <1>f, <2>1, <2>5, RemovedPlace
    <2>7. runs' = <<>>
      BY <2>6, EmptySeq
    <2> QED BY <1>f, <2>1, <2>4, <2>6, <2>7, DebugKept
  <1> QED BY <1>1, <1>2, <1>3, <1>4, <1>5, <1>6 DEF DebugStep, RunAnswers

LEMMA DebugNext == DebugInv /\ [Next]_vars => DebugInv'
  <1>1. DebugInv /\ UNCHANGED debugVars => DebugInv'
    BY DEF DebugInv, DebugTypeOK, RunIsSelected, OneAtATime, debugVars,
           IsSelected, Listed
  <1> QED BY <1>1, DebugChanges, DebugEntersInv, DebugLeavesInv, DebugStepInv

(* However the user edits, refreshes, runs and leaves, the run under way is of *)
(* the model the page shows, and there is one at most.                         *)
THEOREM RunsAreOfTheShownModel == Spec => []RunIsSelected
  <1>1. DebugInv => RunIsSelected
    BY DEF DebugInv
  <1> QED BY <1>1, DebugStarts, DebugNext, PTL DEF Spec

-----------------------------------------------------------------------------
(* What may happen to the split of the request page. *)
LEMMA SplitChanges ==
    [Next]_vars
    => \/ (SplitLeaves \/ SplitReloads) /\ UNCHANGED stored
       \/ ~split.mounted /\ SplitEnters
       \/ SplitStep
       \/ UNCHANGED splitVars
  <1>1. ASSUME NEW route, NEW same, Show(route, same)
        PROVE  \/ (SplitLeaves \/ SplitReloads) /\ UNCHANGED stored
               \/ UNCHANGED splitVars
    BY <1>1 DEF Show, splitVars
  <1>2. Moves => \/ (SplitLeaves \/ SplitReloads) /\ UNCHANGED stored
                 \/ UNCHANGED splitVars
    BY <1>1, MovesShow
  <1>3. ASSUME DetailStep
        PROVE  \/ (SplitLeaves \/ SplitReloads) /\ UNCHANGED stored
               \/ ~split.mounted /\ SplitEnters
               \/ SplitStep
               \/ UNCHANGED splitVars
    BY <1>3 DEF DetailStep, DetailAnswers, DetailArrives
  <1> QED BY <1>2, <1>3 DEF Next, InFeed, InSessions, InDetail, InDebug, InUsage,
                            vars, pageVars, detailVars, splitVars

LEMMA SplitNextInv == SplitInv /\ [Next]_vars => SplitInv'
  <1>1. SplitInv /\ UNCHANGED splitVars => SplitInv'
    BY SplitMoves
  <1> QED BY <1>1, SplitChanges, LeavingRestores, EnteringRestores, StepRestores

(* In the whole window, whatever it shows: neither side of the split collapses *)
(* and the body's cursor is the one of a drag only during a drag.              *)
LEMMA SplitInWindow == Spec => [](SplitInv /\ PanesFit)
  <1>1. Init => SplitInv
    BY SplitStarts DEF Init, DetailInit
  <1>2. SplitInv => PanesFit
    BY TypedPanesFit DEF SplitInv
  <1> QED BY <1>1, <1>2, SplitNextInv, PTL DEF Spec

(* In the window, with reloads, moves and what other windows store, the details  *)
(* never take the ledger's minimum, and both minimums are kept wherever both fit *)
(* (detailsWidth.ts).                                                            *)
THEOREM PanesAlwaysFit == Spec => []PanesFit
  BY SplitInWindow, PTL

(* However the page is left in the middle of a drag, the body has the resize     *)
(* cursor only while one goes on (TrajectorySplit.tsx).                          *)
THEOREM CursorAlwaysRestored == Spec => []CursorIsRestored
  <1>1. SplitInv => CursorIsRestored
    BY DEF SplitInv
  <1> QED BY <1>1, SplitInWindow, PTL

-----------------------------------------------------------------------------
(* What may happen to the page of token usage. *)
LEMMA UsageChanges ==
    [Next]_vars
    => UsageEnters \/ UsageLeaves \/ UsageStep \/ UNCHANGED usageVars
  <1>1. ASSUME NEW route, NEW same, Show(route, same)
        PROVE  UsageEnters \/ UsageLeaves \/ UNCHANGED usageVars
    BY <1>1 DEF Show, Outlet
  <1>2. Moves => UsageEnters \/ UsageLeaves \/ UNCHANGED usageVars
    BY <1>1, MovesShow
  <1> QED BY <1>2 DEF Next, InFeed, InSessions, InDetail, InDebug, InUsage,
                      vars, pageVars

Load1 == [period : Periods, live : BOOLEAN]

(* A load that may still store something is of the period shown. *)
LiveAreShown ==
    usage.mounted
    => \A i \in DOMAIN loads : loads[i].live => loads[i].period = usage.period

(* A series comes with the summary of its period. *)
SeriesIsShown ==
    usage.mounted /\ usage.series # NoData
    => usage.series.period = usage.period /\ usage.usage = usage.period

UsageInv == UsageTypeOK /\ LiveAreShown /\ SeriesIsShown /\ ChartAgrees

LEMMA UsageStarts == Init => UsageInv
  <1>1. ~NoUsage.mounted
    BY DEF NoUsage
  <1>2. Init => usage = NoUsage /\ loads = <<>>
    BY DEF Init, UsageInit
  <1> QED BY <1>1, <1>2
          DEF UsageInv, UsageTypeOK, LiveAreShown, SeriesIsShown, ChartAgrees

LEMMA UsageMountedType == ASSUME UsageTypeOK, usage.mounted
                          PROVE  usage \in Usages
  BY DEF UsageTypeOK, NoUsage

(* Drawing the chart changes nothing but the chart, which is the series then. *)
LEMMA ChartedFields ==
    ASSUME NEW u \in Usages
    PROVE  /\ Charted(u) \in Usages
           /\ Charted(u).period = u.period /\ Charted(u).usage = u.usage
           /\ Charted(u).series = u.series /\ Charted(u).chart \in {u.series, NoData}
  BY DEF Charted, Usages

(* To show the invariant of a mounted page it is enough to show these. *)
LEMMA UsageKept ==
    ASSUME usage' \in Usages, loads' \in Seq(Load1),
           \A i \in DOMAIN loads' :
              loads'[i].live => loads'[i].period = usage'.period,
           usage'.series # NoData
           => usage'.series.period = usage'.period /\ usage'.usage = usage'.period,
           usage'.chart \in {usage'.series, NoData}
    PROVE  UsageInv' /\ usage'.mounted
  <1>1. usage'.mounted
    BY DEF Usages
  <1>2. UsageTypeOK'
    BY <1>1 DEF UsageTypeOK, Load1
  <1>3. LiveAreShown'
    BY DEF LiveAreShown
  <1>4. SeriesIsShown'
    BY DEF SeriesIsShown
  <1>5. ChartAgrees'
    BY DEF ChartAgrees
  <1> QED BY <1>1, <1>2, <1>3, <1>4, <1>5 DEF UsageInv

(* One load more. *)
LEMMA BegunLoads ==
    ASSUME NEW c \in Seq(Load1), NEW p \in Periods
    PROVE  /\ Begun(c, p) \in Seq(Load1)
           /\ \A i \in DOMAIN Begun(c, p) :
                 \/ Begun(c, p)[i] = [period |-> p, live |-> TRUE]
                 \/ i \in DOMAIN c /\ Begun(c, p)[i] = c[i]
  <1>1. [period |-> p, live |-> TRUE] \in Load1
    BY DEF Load1
  <1> QED BY <1>1 DEF Begun

LEMMA CancelledLoads ==
    ASSUME NEW c \in Seq(Load1)
    PROVE  /\ Cancelled(c) \in Seq(Load1)
           /\ \A i \in DOMAIN Cancelled(c) : ~Cancelled(c)[i].live
  <1>1. ASSUME NEW l \in Load1
        PROVE  [l EXCEPT !.live = FALSE] \in Load1 /\ ~[l EXCEPT !.live = FALSE].live
    <2>1. [l EXCEPT !.live = FALSE] \in Load1
      BY DEF Load1
    <2>2. [l EXCEPT !.live = FALSE].live = FALSE
      BY DEF Load1
    <2> QED BY <2>1, <2>2
  <1>2. DOMAIN c = 1 .. Len(c) /\ Len(c) \in Nat
        /\ \A i \in 1 .. Len(c) : c[i] \in Load1
    OBVIOUS
  <1> HIDE DEF Load1
  <1>3. Cancelled(c) = [i \in 1 .. Len(c) |-> [c[i] EXCEPT !.live = FALSE]]
    BY <1>2 DEF Cancelled
  <1>4. \A i \in 1 .. Len(c) : /\ [c[i] EXCEPT !.live = FALSE] \in Load1
                               /\ ~[c[i] EXCEPT !.live = FALSE].live
    BY <1>1, <1>2
  <1>5. Cancelled(c) \in [1 .. Len(c) -> Load1]
    BY <1>3, <1>4
  <1>6. Cancelled(c) \in Seq(Load1)
    BY <1>2, <1>5, SeqDef
  <1> QED BY <1>3, <1>4, <1>6

LEMMA UsageEntersInv == UsageEnters => UsageInv' /\ usage'.mounted
  <1> SUFFICES ASSUME UsageEnters PROVE UsageInv' /\ usage'.mounted
    OBVIOUS
  <1> DEFINE new == [mounted |-> TRUE, period |-> "today", usage |-> NoData,
                     series |-> NoData, chart |-> NoData, loading |-> TRUE]
  <1>1. usage' = new /\ loads' = Begun(<<>>, "today")
    BY DEF UsageEnters
  <1>2. new \in Usages /\ new.period = "today" /\ new.series = NoData
        /\ new.chart = NoData
    <2>1. "today" \in Periods
      BY UsageAssumption
    <2> QED BY <2>1 DEF Usages
  <1>3. <<>> \in Seq(Load1) /\ "today" \in Periods
    BY UsageAssumption
  <1>4. loads' \in Seq(Load1) /\ \A i \in DOMAIN loads' : loads'[i].period = "today"
    <2>1. /\ Begun(<<>>, "today") \in Seq(Load1)
          /\ \A i \in DOMAIN Begun(<<>>, "today") :
                \/ Begun(<<>>, "today")[i] = [period |-> "today", live |-> TRUE]
                \/ i \in DOMAIN <<>> /\ Begun(<<>>, "today")[i] = <<>>[i]
      BY <1>3, BegunLoads
    <2>2. ~ \E i : i \in DOMAIN <<>>
      OBVIOUS
    <2> QED BY <1>1, <2>1, <2>2
  <1> QED BY <1>1, <1>2, <1>4, UsageKept

LEMMA UsageLeavesInv == UsageLeaves => UsageInv'
  <1> SUFFICES ASSUME UsageLeaves PROVE UsageInv'
    OBVIOUS
  <1>1. usage' = NoUsage /\ loads' = <<>>
    BY DEF UsageLeaves
  <1>2. ~usage'.mounted
    BY <1>1 DEF NoUsage
  <1> QED BY <1>1, <1>2
          DEF UsageInv, UsageTypeOK, LiveAreShown, SeriesIsShown, ChartAgrees

(* Every step on the page keeps the invariant: a chosen period cancels the     *)
(* loads of the others, and one that is not cancelled stores its own period.   *)
LEMMA UsageStepInv == UsageInv /\ UsageStep => UsageInv' /\ usage'.mounted
  <1> SUFFICES ASSUME UsageInv, UsageStep PROVE UsageInv' /\ usage'.mounted
    OBVIOUS
  <1>m. usage.mounted
    BY DEF UsageStep
  <1>u. usage \in Usages
    BY <1>m, UsageMountedType DEF UsageInv
  <1>l. loads \in Seq(Load1)
    BY DEF UsageInv, UsageTypeOK, Load1
  <1>live. \A i \in DOMAIN loads : loads[i].live => loads[i].period = usage.period
    BY <1>m DEF UsageInv, LiveAreShown
  <1>ser. usage.series # NoData
          => usage.series.period = usage.period /\ usage.usage = usage.period
    BY <1>m DEF UsageInv, SeriesIsShown
  <1>ch. usage.chart \in {usage.series, NoData}
    BY <1>m DEF UsageInv, ChartAgrees
  <1>1. ASSUME NEW p \in Periods, SetPeriod(p)
        PROVE  UsageInv' /\ usage'.mounted
    <2> DEFINE u == [usage EXCEPT !.period = p]
               v == [u EXCEPT !.loading = TRUE, !.series = NoData]
    <2>1. usage' = Charted(v) /\ loads' = Begun(Cancelled(loads), p)
      BY <1>1 DEF SetPeriod, Begin
    <2>2. u \in Usages /\ u.period = p
      BY <1>u DEF Usages
    <2> HIDE DEF u
    <2>3. v \in Usages /\ v.period = p /\ v.series = NoData
      BY <2>2 DEF Usages
    <2> HIDE DEF v
    <2>4. usage' \in Usages /\ usage'.period = p /\ usage'.series = NoData
          /\ usage'.chart \in {usage'.series, NoData}
      BY <2>1, <2>3, ChartedFields
    <2>5. /\ Cancelled(loads) \in Seq(Load1)
          /\ \A i \in DOMAIN Cancelled(loads) : ~Cancelled(loads)[i].live
      BY <1>l, CancelledLoads
    <2>6. /\ loads' \in Seq(Load1)
          /\ \A i \in DOMAIN loads' : loads'[i].live => loads'[i].period = p
      BY <2>1, <2>5, BegunLoads
    <2> QED BY <2>4, <2>6, UsageKept
  <1>2. CASE Poll
    <2>1. usage' = usage /\ loads' = Begun(loads, usage.period)
      BY <1>2 DEF Poll
    <2>2. usage.period \in Periods
      BY <1>u DEF Usages
    <2>3. /\ loads' \in Seq(Load1)
          /\ \A i \in DOMAIN loads' : loads'[i].live => loads'[i].period = usage.period
      BY <1>l, <1>live, <2>1, <2>2, BegunLoads
    <2> QED BY <1>u, <1>ser, <1>ch, <2>1, <2>3, UsageKept
  <1>3. ASSUME NEW i \in DOMAIN loads, NEW u,
               loads' = RemoveAt(loads, i), usage' \in {usage, Charted(u)},
               u \in Usages, u.period = usage.period,
               u.series # NoData => u.series.period = u.period /\ u.usage = u.period
        PROVE  UsageInv' /\ usage'.mounted
    <2>1. /\ usage' \in Usages /\ usage'.period = usage.period
          /\ usage'.chart \in {usage'.series, NoData}
          /\ usage'.series # NoData
             => usage'.series.period = usage'.period /\ usage'.usage = usage'.period
      <3>1. CASE usage' = usage
        BY <1>u, <1>ser, <1>ch, <3>1
      <3>2. CASE usage' = Charted(u)
        BY <1>3, <3>2, ChartedFields
      <3> QED BY <1>3, <3>1, <3>2
    <2>2. /\ loads' \in Seq(Load1)
          /\ \A j \in DOMAIN loads' : \E k \in DOMAIN loads : loads'[j] = loads[k]
      BY <1>l, <1>3, RemovedPlace
    <2>3. \A j \in DOMAIN loads' : loads'[j].live => loads'[j].period = usage'.period
      BY <1>live, <2>1, <2>2
    <2> QED BY <2>1, <2>2, <2>3, UsageKept
  <1>4. ASSUME NEW i \in DOMAIN loads, NEW series, LoadEnds(i, series),
               series = NoData \/ (series \in Series /\ series.period = loads[i].period)
        PROVE  UsageInv' /\ usage'.mounted
    <2> DEFINE u == [usage EXCEPT !.usage = loads[i].period, !.series = series,
                                  !.loading = FALSE]
    <2>1. loads[i] \in Load1
      BY <1>l
    <2>2. loads[i].period \in Periods
      BY <2>1 DEF Load1
    <2>3. u \in Usages /\ u.period = usage.period /\ u.series = series
          /\ u.usage = loads[i].period
      BY <1>u, <1>4, <2>2 DEF Usages
    <2>4. usage' = IF loads[i].live THEN Charted(u) ELSE usage
      BY <1>4 DEF LoadEnds
    <2>5. loads' = RemoveAt(loads, i)
      BY <1>4 DEF LoadEnds
    <2> HIDE DEF u
    <2>6. CASE loads[i].live
      <3>1. u.series # NoData => u.series.period = u.period /\ u.usage = u.period
        BY <1>4, <1>live, <2>3, <2>6
      <3> QED BY <1>3, <2>3, <2>4, <2>5, <2>6, <3>1
    <2>7. CASE ~loads[i].live
      BY <1>3, <1>u, <1>ser, <2>4, <2>5, <2>7
    <2> QED BY <2>6, <2>7
  <1>5. ASSUME NEW i \in DOMAIN loads, LoadFails(i)
        PROVE  UsageInv' /\ usage'.mounted
    <2> DEFINE u == [usage EXCEPT !.loading = FALSE]
    <2>1. u \in Usages /\ u.period = usage.period /\ u.series = usage.series
          /\ u.usage = usage.usage
      BY <1>u DEF Usages
    <2>2. usage' \in {usage, Charted(u)} /\ loads' = RemoveAt(loads, i)
      BY <1>5 DEF LoadFails
    <2> HIDE DEF u
    <2> QED BY <1>3, <1>ser, <2>1, <2>2
  <1>6. CASE LoadAnswers
    <2>1. ASSUME NEW i \in DOMAIN loads, NEW b \in BOOLEAN
          PROVE  /\ [period |-> loads[i].period, points |-> b] \in Series
                 /\ [period |-> loads[i].period, points |-> b].period = loads[i].period
      <3>1. loads[i] \in Load1
        BY <1>l
      <3>2. loads[i].period \in Periods
        BY <3>1 DEF Load1
      <3> QED BY <3>2 DEF Series
    <2>2. PICK i \in DOMAIN loads :
             \/ LoadEnds(i, NoData)
             \/ \E b \in BOOLEAN :
                   LoadEnds(i, [period |-> loads[i].period, points |-> b])
             \/ LoadFails(i)
      BY <1>6 DEF LoadAnswers
    <2>3. CASE LoadEnds(i, NoData)
      BY <1>4, <2>3
    <2>4. ASSUME NEW b \in BOOLEAN,
                 LoadEnds(i, [period |-> loads[i].period, points |-> b])
          PROVE  UsageInv' /\ usage'.mounted
      <3> DEFINE r == [period |-> loads[i].period, points |-> b]
      <3>1. r \in Series /\ r.period = loads[i].period /\ LoadEnds(i, r)
        BY <2>1, <2>4
      <3> HIDE DEF r
      <3> QED BY <1>4, <3>1
    <2>5. CASE LoadFails(i)
      BY <1>5, <2>5
    <2> QED BY <2>2, <2>3, <2>4, <2>5
  <1> QED BY <1>1, <1>2, <1>6 DEF UsageStep

LEMMA UsageNext == UsageInv /\ [Next]_vars => UsageInv'
  <1>1. UsageInv /\ UNCHANGED usageVars => UsageInv'
    BY DEF UsageInv, UsageTypeOK, LiveAreShown, SeriesIsShown, ChartAgrees, usageVars
  <1> QED BY <1>1, UsageChanges, UsageEntersInv, UsageLeavesInv, UsageStepInv

(* However slow a load is and whatever is chosen meanwhile, the chart, the     *)
(* cards and the tab are of one period.                                        *)
THEOREM ChartAlwaysAgrees == Spec => []ChartAgrees
  <1>1. UsageInv => ChartAgrees
    BY DEF UsageInv
  <1> QED BY <1>1, UsageStarts, UsageNext, PTL DEF Spec

-----------------------------------------------------------------------------
(* What may happen to the request list. *)
LEMMA FeedChanges ==
    [Next]_vars
    => \/ (FeedEnters \/ FeedLeaves \/ UNCHANGED feedState) /\ UNCHANGED log
       \/ FeedStep
  <1>1. ASSUME NEW route, NEW same, Show(route, same)
        PROVE  (FeedEnters \/ FeedLeaves \/ UNCHANGED feedState) /\ UNCHANGED log
    BY <1>1 DEF Show, Outlet
  <1>2. Moves => (FeedEnters \/ FeedLeaves \/ UNCHANGED feedState) /\ UNCHANGED log
    BY <1>1, MovesShow
  <1> QED BY <1>2 DEF Next, InFeed, InSessions, InDetail, InDebug, InUsage,
                      vars, pageVars

LEMMA FeedMounted == ~Away.mounted /\ \A f \in Feeds : f.mounted
  BY DEF Away, Feeds

(* The button follows the stack, unless a fetch is under way. *)
Follows(f) == f.loading = TRUE \/ f.back = (f.stack # <<>>)

FeedInv == FeedTypeOK /\ (feed.mounted => Follows(feed))

(* The ids of a page, newest first: a set of numbers has such an order because *)
(* it has the other one.                                                       *)
LEMMA NewestFirstLists ==
    ASSUME NEW S \in SUBSET Nat, IsFiniteSet(S)
    PROVE  NewestFirst(S) \in Seq(Nat)
  <1> DEFINE n == Cardinality(S)
  <1>1. PICK f \in [1 .. n -> S] : \A i, j \in DOMAIN f : i < j => f[i] < f[j]
    BY AscendingList
  <1>2. n \in Nat
    BY AscendingList
  <1> HIDE DEF n
  <1> DEFINE g == [i \in 1 .. n |-> f[n + 1 - i]]
  <1>3. \A i \in 1 .. n : n + 1 - i \in 1 .. n
    BY <1>2
  <1>4. g \in [1 .. n -> S]
    BY <1>3
  <1>5. ASSUME NEW i \in DOMAIN g, NEW j \in DOMAIN g, i < j
        PROVE  g[i] > g[j]
    <2>1. f[n + 1 - j] < f[n + 1 - i]
      BY <1>1, <1>2, <1>3, <1>5
    <2>2. f[n + 1 - j] \in Nat /\ f[n + 1 - i] \in Nat
      BY <1>3
    <2> QED BY <2>1, <2>2
  <1> HIDE DEF g
  <1>6. NewestFirst(S) \in [1 .. n -> S]
    BY <1>4, <1>5 DEF NewestFirst, n
  <1>7. [1 .. n -> Nat] \subseteq Seq(Nat)
    BY <1>2
  <1> QED BY <1>6, <1>7

LEMMA PageOfRequests ==
    ASSUME log \in Seq(Row), NEW filter, NEW from \in Nat
    PROVE  LET page == GetRequests(filter, from)
           IN  /\ page.data \in Seq(Nat) /\ page.total \in Nat
               /\ page.cursor \in Nat /\ page.next \in Nat
               /\ page.more \in BOOLEAN
  <1> DEFINE hits == {id \in DOMAIN log : Matches(log[id], filter)}
             asked == {id \in hits : from > 0 => id < from}
             rows == NewestFirst(asked)
             more == Len(rows) > PageLimit
             data == IF more THEN SubSeq(rows, 1, PageLimit) ELSE rows
             next == IF more THEN Last(data) ELSE 0
  <1>1. PageLimit \in Nat \ {0} /\ Len(log) \in Nat /\ DOMAIN log = 1 .. Len(log)
    BY StoreAssumption
  <1>2. IsFiniteSet(1 .. Len(log))
    BY <1>1, FS_Interval
  <1>3. hits \in SUBSET (1 .. Len(log)) /\ asked \in SUBSET hits
    BY <1>1
  <1> HIDE DEF hits
  <1>4. IsFiniteSet(hits) /\ Cardinality(hits) \in Nat
    BY <1>2, <1>3, FS_Subset, FS_CardinalityType
  <1> HIDE DEF asked
  <1>5. IsFiniteSet(asked) /\ asked \in SUBSET Nat
    <2>1. IsFiniteSet(asked)
      BY <1>3, <1>4, FS_Subset
    <2> QED BY <1>3, <2>1
  <1>6. rows \in Seq(Nat) /\ Len(rows) \in Nat
    BY <1>5, NewestFirstLists
  <1> HIDE DEF rows
  <1>7. data \in Seq(Nat) /\ (more => Len(data) = PageLimit)
    <2>1. CASE more
      <3>1. \A i \in 1 .. PageLimit : rows[i] \in Nat
        BY <1>1, <1>6, <2>1
      <3>2. /\ SubSeq(rows, 1, PageLimit) \in Seq(Nat)
            /\ Len(SubSeq(rows, 1, PageLimit)) = PageLimit
        BY <1>1, <3>1, SubSeqProperties
      <3> QED BY <2>1, <3>2
    <2>2. CASE ~more
      BY <1>6, <2>2
    <2> QED BY <2>1, <2>2
  <1> HIDE DEF data
  <1>8. next \in Nat
    BY <1>1, <1>7 DEF Last
  <1>9. more \in BOOLEAN
    BY <1>1, <1>6
  <1> HIDE DEF next, more
  <1>10. GetRequests(filter, from) =
            [data |-> data, total |-> Cardinality(hits), cursor |-> from,
             next |-> next, more |-> more]
    BY DEF GetRequests, hits, asked, rows, more, data, next
  <1> QED BY <1>4, <1>7, <1>8, <1>9, <1>10

(* What the hook makes of a page is a page, whose button follows the stack if  *)
(* it is rendered.                                                             *)
LEMMA RenderedFollows ==
    ASSUME NEW f \in Feeds
    PROVE  Rendered(f) \in Feeds /\ Follows(Rendered(f))
  <1> DEFINE b == f.stack # <<>>
  <1>1. b \in BOOLEAN
    OBVIOUS
  <1>2. Rendered(f) = [f EXCEPT !.back = b]
    BY DEF Rendered
  <1>3. Rendered(f) \in Feeds /\ Rendered(f).back = b /\ Rendered(f).stack = f.stack
    <2> HIDE DEF b
    <2> QED BY <1>1, <1>2 DEF Feeds
  <1> QED BY <1>3 DEF Follows

LEMMA FetchingFollows ==
    ASSUME NEW f \in Feeds
    PROVE  Fetching(f) \in Feeds /\ Follows(Fetching(f))
  <1>1. CASE f.loading /\ ~f.error
    BY <1>1 DEF Fetching, Follows, Feeds
  <1>2. CASE ~(f.loading /\ ~f.error)
    <2>1. [f EXCEPT !.loading = TRUE, !.error = FALSE] \in Feeds
      BY DEF Feeds
    <2>2. Fetching(f) = Rendered([f EXCEPT !.loading = TRUE, !.error = FALSE])
      BY <1>2 DEF Fetching
    <2> QED BY <2>1, <2>2, RenderedFollows
  <1> QED BY <1>1, <1>2

LEMMA FiltersOf == ASSUME NEW f \in Feeds PROVE Filters(f) \in Filter
  BY DEF Feeds, Filters, Filter

(* Another selection or timer says nothing about the button. *)
LEMMA AsideFollows ==
    ASSUME NEW f \in Feeds, Follows(f)
    PROVE  /\ \A id \in Nat : /\ [f EXCEPT !.selected = id] \in Feeds
                              /\ Follows([f EXCEPT !.selected = id])
           /\ \A q \in Filter \cup {NoTimer} : /\ [f EXCEPT !.timer = q] \in Feeds
                                               /\ Follows([f EXCEPT !.timer = q])
  BY DEF Feeds, Follows

LEMMA DebounceFollows ==
    ASSUME NEW f \in Feeds, Follows(f)
    PROVE  Debounce(f) \in Feeds /\ Follows(Debounce(f))
  BY AsideFollows, FiltersOf DEF Debounce

LEMMA RestartFollows ==
    ASSUME NEW f \in Feeds
    PROVE  Restart(f) \in Feeds /\ Follows(Restart(f))
  <1>0. <<>> \in Seq(Nat)
    OBVIOUS
  <1>1. [f EXCEPT !.stack = <<>>] \in Feeds
    BY <1>0 DEF Feeds
  <1> QED BY <1>1, FetchingFollows DEF Restart

(* To show the invariant of a mounted page it is enough to show these. *)
LEMMA FeedKept ==
    ASSUME feed' \in Feeds, Follows(feed'), log' \in Seq(Row), calls' \in Seq(Call)
    PROVE  FeedInv' /\ feed'.mounted
  BY FeedMounted DEF FeedInv, FeedTypeOK

LEMMA CallsSent ==
    ASSUME calls \in Seq(Call), NEW q \in Filter, NEW c \in Nat, Send(q, c)
    PROVE  calls' \in Seq(Call)
  <1>1. [filter |-> q, cursor |-> c] \in Call
    BY DEF Call
  <1> QED BY <1>1 DEF Send

LEMMA FeedStepInv == FeedInv /\ FeedStep => FeedInv' /\ feed'.mounted
  <1> SUFFICES ASSUME FeedInv, FeedStep PROVE FeedInv' /\ feed'.mounted
    OBVIOUS
  <1>0. log \in Seq(Row) /\ calls \in Seq(Call)
    BY DEF FeedInv, FeedTypeOK
  <1>m. feed.mounted => feed \in Feeds /\ Follows(feed)
    BY FeedMounted DEF FeedInv, FeedTypeOK
  <1>n. feed.mounted =>
          /\ feed.cursor \in Nat /\ feed.stack \in Seq(Nat) /\ feed.rows \in Seq(Nat)
          /\ feed.timer \in Filter \cup {NoTimer}
    BY <1>m DEF Feeds
  <1>1. ASSUME NEW v \in Words \cup {NoFilter}, SetSearch(v)
        PROVE  FeedInv' /\ feed'.mounted
    <2>1. /\ feed.mounted /\ feed' = Debounce(Rendered([feed EXCEPT !.search = v]))
          /\ log' = log /\ calls' = calls
      BY <1>1 DEF SetSearch
    <2>2. [feed EXCEPT !.search = v] \in Feeds
      BY <1>m, <2>1 DEF Feeds
    <2> QED BY <1>0, <2>1, <2>2, RenderedFollows, DebounceFollows, FeedKept
  <1>3. ASSUME NEW f \in Feeds, Choose(f)
        PROVE  FeedInv' /\ feed'.mounted
    <2>1. feed' = Restart(Rendered(f)) /\ Send(Filters(f), 0) /\ log' = log
      BY <1>3 DEF Choose
    <2>2. calls' \in Seq(Call)
      BY <1>0, <2>1, FiltersOf, CallsSent
    <2> QED BY <1>0, <2>1, <2>2, RenderedFollows, RestartFollows, FeedKept
  <1>4. ASSUME NEW v \in Verbs \cup {NoFilter}, SetMethod(v)
        PROVE  FeedInv' /\ feed'.mounted
    <2>1. [feed EXCEPT !.method = v] \in Feeds
      BY <1>4, <1>m DEF SetMethod, Feeds
    <2> QED BY <1>3, <1>4, <2>1 DEF SetMethod
  <1>5. ASSUME NEW v \in Codes \cup {NoFilter}, SetStatus(v)
        PROVE  FeedInv' /\ feed'.mounted
    <2>1. [feed EXCEPT !.status = v] \in Feeds
      BY <1>5, <1>m DEF SetStatus, Feeds
    <2> QED BY <1>3, <1>5, <2>1 DEF SetStatus
  <1>6. CASE SearchTimer
    <2>1. /\ feed.mounted /\ feed' = [Restart(feed) EXCEPT !.timer = NoTimer]
          /\ feed.timer # NoTimer /\ Send(feed.timer, 0) /\ log' = log
      BY <1>6 DEF SearchTimer
    <2>2. calls' \in Seq(Call)
      BY <1>0, <1>n, <2>1, CallsSent
    <2>3. feed' \in Feeds /\ Follows(feed')
      BY <1>m, <2>1, RestartFollows, AsideFollows
    <2> QED BY <1>0, <2>1, <2>2, <2>3, FeedKept
  <1>7. CASE GoNext
    <2>1. /\ feed.mounted
          /\ feed' = Fetching([feed EXCEPT !.stack = Append(feed.stack, feed.cursor)])
          /\ Send(Filters(feed), feed.cursor) /\ log' = log
      BY <1>7 DEF GoNext
    <2>2. Append(feed.stack, feed.cursor) \in Seq(Nat)
      BY <1>n, <2>1
    <2>3. [feed EXCEPT !.stack = Append(feed.stack, feed.cursor)] \in Feeds
      BY <1>m, <2>1, <2>2 DEF Feeds
    <2>4. calls' \in Seq(Call)
      BY <1>0, <1>m, <1>n, <2>1, FiltersOf, CallsSent
    <2> QED BY <1>0, <2>1, <2>3, <2>4, FetchingFollows, FeedKept
  <1>8. CASE GoPrev
    <2>1. /\ feed.mounted /\ feed.stack # <<>>
          /\ feed' = Fetching([feed EXCEPT !.stack = Front(feed.stack)])
          /\ Send(Filters(feed), Last(feed.stack)) /\ log' = log
      BY <1>8 DEF GoPrev
    <2>2. Front(feed.stack) \in Seq(Nat) /\ Last(feed.stack) \in Nat
      <3>1. feed.stack \in Seq(Nat) /\ feed.stack # <<>>
        BY <1>n, <2>1
      <3> DEFINE s == feed.stack
      <3> HIDE DEF s
      <3>2. Len(s) \in Nat \ {0}
        BY <3>1, EmptySeq DEF s
      <3>3. s[Len(s)] \in Nat /\ \A i \in 1 .. Len(s) - 1 : s[i] \in Nat
        BY <3>1, <3>2 DEF s
      <3>4. SubSeq(s, 1, Len(s) - 1) \in Seq(Nat)
        BY <3>2, <3>3, SubSeqProperties
      <3> QED BY <3>3, <3>4 DEF Front, Last, s
    <2>3. [feed EXCEPT !.stack = Front(feed.stack)] \in Feeds
      BY <1>m, <2>1, <2>2 DEF Feeds
    <2>4. calls' \in Seq(Call)
      BY <1>0, <1>m, <2>1, <2>2, FiltersOf, CallsSent
    <2> QED BY <1>0, <2>1, <2>3, <2>4, FetchingFollows, FeedKept
  <1>9. ASSUME NEW id \in Nat, feed.mounted, Select(id)
        PROVE  FeedInv' /\ feed'.mounted
    <2>1. feed' = [Rendered(feed) EXCEPT !.selected = id] /\ log' = log /\ calls' = calls
      BY <1>9 DEF Select
    <2>2. feed' \in Feeds /\ Follows(feed')
      BY <1>9, <1>m, <2>1, RenderedFollows, AsideFollows
    <2> QED BY <1>0, <2>1, <2>2, FeedKept
  <1>10. CASE KeyDown
    <2>1. feed.mounted
      BY <1>10 DEF KeyDown
    <2>2. \A i \in DOMAIN feed.rows : feed.rows[i] \in Nat
      BY <1>n, <2>1
    <2> QED BY <1>7, <1>9, <1>10, <2>1, <2>2 DEF KeyDown
  <1>11. CASE KeyUp
    <2> DEFINE i == SelectedAt(feed)
    <2>1. feed.mounted /\ ((i > 1 /\ Select(feed.rows[i - 1])) \/ GoPrev)
      BY <1>11 DEF KeyUp
    <2>2. i > 1 => feed.rows[i - 1] \in Nat
      <3>1. feed.rows \in Seq(Nat)
        BY <1>n, <2>1
      <3>2. i = 0 \/ i \in DOMAIN feed.rows
        BY DEF SelectedAt, Range
      <3> HIDE DEF i
      <3> QED BY <3>1, <3>2
    <2> HIDE DEF i
    <2> QED BY <1>8, <1>9, <2>1, <2>2
  <1>12. CASE FeedAnswers
    <2>1. PICK i \in DOMAIN calls : Answer(i) \/ Fail(i)
      BY <1>12 DEF FeedAnswers
    <2>2. feed.mounted
      BY <2>1 DEF FeedInv, FeedTypeOK
    <2>3. log' = log /\ calls' = RemoveAt(calls, i)
      BY <2>1 DEF Answer, Fail
    <2>4. calls' \in Seq(Call)
      BY <1>0, <2>3, RemovedPlace
    <2>5. CASE Answer(i)
      <3> DEFINE page == GetRequests(calls[i].filter, calls[i].cursor)
      <3>0. calls[i] \in Call
        BY <1>0
      <3>1. calls[i].cursor \in Nat
        BY <3>0 DEF Call
      <3>2. /\ page.data \in Seq(Nat) /\ page.total \in Nat
            /\ page.cursor \in Nat /\ page.next \in Nat /\ page.more \in BOOLEAN
        BY <1>0, <3>1, PageOfRequests
      <3>3. feed' = Answered(feed, page)
        BY <2>5 DEF Answer
      <3> HIDE DEF page
      <3>4. [feed EXCEPT !.rows = page.data, !.total = page.total,
                         !.more = page.more, !.cursor = page.cursor,
                         !.loading = FALSE] \in Feeds
        BY <1>m, <2>2, <3>2 DEF Feeds
      <3> QED BY <1>0, <2>3, <2>4, <3>3, <3>4, RenderedFollows, FeedKept DEF Answered
    <2>6. CASE Fail(i)
      <3>1. feed' = Failed(feed)
        BY <2>6 DEF Fail
      <3>2. [feed EXCEPT !.error = TRUE, !.loading = FALSE] \in Feeds
        BY <1>m, <2>2 DEF Feeds
      <3>3. feed' \in Feeds /\ Follows(feed')
        BY <1>m, <2>2, <3>1, <3>2, RenderedFollows DEF Failed
      <3> QED BY <1>0, <2>3, <2>4, <3>3, FeedKept
    <2> QED BY <2>1, <2>5, <2>6
  <1>13. ASSUME feed.mounted, UNCHANGED <<feed, calls>>, log' \in Seq(Row)
         PROVE  FeedInv' /\ feed'.mounted
    BY <1>0, <1>13, <1>m, FeedKept
  <1>14. ASSUME NEW id, Open(id)
         PROVE  FeedInv' /\ feed'.mounted
    <2>1. CASE OpenRow(id)
      <3>1. feed.mounted /\ Select(id) /\ id \in Range(feed.rows)
        BY <2>1 DEF OpenRow, LedgerRows, TimelineBars
      <3>2. id \in Nat
        BY <1>n, <3>1 DEF Range
      <3> QED BY <1>9, <3>1, <3>2
    <2>2. CASE KeyEnter(id)
      BY <1>0, <1>13, <2>2 DEF KeyEnter, feedVars
    <2> QED BY <1>14, <2>1, <2>2 DEF Open
  <1>15. CASE feed.mounted /\ LogRow /\ UNCHANGED <<feed, calls>>
    <2>1. log' \in Seq(Row)
      BY <1>0, <1>15 DEF LogRow
    <2> QED BY <1>13, <1>15, <2>1
  <1> QED BY <1>1, <1>4, <1>5, <1>6, <1>7, <1>8, <1>10, <1>11, <1>12, <1>14, <1>15
          DEF FeedStep, NextPage, PrevPage

LEMMA FeedStarts == Init => FeedInv
  <1>1. Init => log = <<>> /\ feed = Away /\ calls = <<>>
    BY DEF Init, FeedInit, StoreInit
  <1>2. <<>> \in Seq(Row) /\ <<>> \in Seq(Call)
    OBVIOUS
  <1> QED BY <1>1, <1>2, FeedMounted DEF FeedInv, FeedTypeOK

LEMMA FeedEntersInv == FeedInv /\ FeedEnters /\ UNCHANGED log => FeedInv' /\ feed'.mounted
  <1> SUFFICES ASSUME FeedInv, FeedEnters, UNCHANGED log
               PROVE  FeedInv' /\ feed'.mounted
    OBVIOUS
  <1> DEFINE new == [mounted |-> TRUE, search |-> NoFilter, method |-> NoFilter,
                     status |-> NoFilter, rows |-> <<>>, total |-> 0,
                     loading |-> TRUE, error |-> FALSE, more |-> FALSE,
                     cursor |-> 0, stack |-> <<>>, back |-> FALSE,
                     selected |-> NoRow, timer |-> NoTimer]
  <1>1. new \in Feeds /\ Follows(new)
    BY DEF Feeds, Follows
  <1>2. feed' = Debounce(new) /\ calls' = <<[filter |-> Filters(feed'), cursor |-> 0]>>
    BY DEF FeedEnters
  <1> HIDE DEF new
  <1>3. feed' \in Feeds /\ Follows(feed')
    BY <1>1, <1>2, DebounceFollows
  <1>4. calls' \in Seq(Call)
    <2>1. [filter |-> Filters(feed'), cursor |-> 0] \in Call
      BY <1>3, FiltersOf DEF Call
    <2> QED BY <1>2, <2>1
  <1> QED BY <1>3, <1>4, FeedKept DEF FeedInv, FeedTypeOK

LEMMA FeedMoves == FeedInv /\ [Next]_vars => FeedInv'
  <1> SUFFICES ASSUME FeedInv, [Next]_vars PROVE FeedInv'
    OBVIOUS
  <1>1. FeedLeaves /\ UNCHANGED log => FeedInv'
    BY FeedMounted DEF FeedLeaves, FeedInv, FeedTypeOK
  <1>2. UNCHANGED feedState /\ UNCHANGED log => FeedInv'
    BY DEF feedState, FeedInv, FeedTypeOK
  <1> QED BY <1>1, <1>2, FeedChanges, FeedEntersInv, FeedStepInv

(* Prev is never left behind by the stack it would pop, but while a fetch that *)
(* will render it again is under way.                                          *)
THEOREM PrevFollowsTheStack == Spec => []BackIsCurrent
  <1>1. FeedInv => BackIsCurrent
    BY FeedMounted DEF FeedInv, FeedTypeOK, Feeds, Follows, BackIsCurrent, PrevEnabled
  <1> QED BY <1>1, FeedStarts, FeedMoves, PTL DEF Spec

-----------------------------------------------------------------------------
(* The sections of a session, of any length and any texts *)

(* The breaks up to a row: what its turn index counts. *)
BreaksUpTo(rows, i) == {k \in TurnBreaks(rows) : k <= i}

LEMMA BreaksAreFinite ==
    ASSUME NEW T, NEW rows \in Seq(T), NEW i \in DOMAIN rows
    PROVE  IsFiniteSet(BreaksUpTo(rows, i))
  <1>1. DOMAIN rows = 1 .. Len(rows) /\ Len(rows) \in Nat
    OBVIOUS
  <1>2. BreaksUpTo(rows, i) \in SUBSET (1 .. Len(rows))
    BY <1>1 DEF BreaksUpTo, TurnBreaks
  <1>3. IsFiniteSet(1 .. Len(rows))
    BY <1>1, FS_Interval
  <1> QED BY <1>2, <1>3, FS_Subset

(* Turns are numbered from 1, and a later row never has an earlier number. *)
LEMMA TurnsAscend ==
    ASSUME NEW T, NEW rows \in Seq(T), NEW i \in DOMAIN rows, NEW j \in DOMAIN rows
    PROVE  /\ TurnIndex(rows)[i] \in Nat \ {0}
           /\ i <= j => TurnIndex(rows)[i] <= TurnIndex(rows)[j]
  <1>0. i \in Nat \ {0} /\ j \in Nat \ {0} /\ 1 \in DOMAIN rows
    OBVIOUS
  <1>1. /\ TurnIndex(rows)[i] = Cardinality(BreaksUpTo(rows, i))
        /\ TurnIndex(rows)[j] = Cardinality(BreaksUpTo(rows, j))
    BY DEF TurnIndex, BreaksUpTo
  <1>2. IsFiniteSet(BreaksUpTo(rows, i)) /\ IsFiniteSet(BreaksUpTo(rows, j))
    BY BreaksAreFinite
  <1>3. 1 \in BreaksUpTo(rows, i)
    BY <1>0 DEF BreaksUpTo, TurnBreaks
  <1>4. Cardinality(BreaksUpTo(rows, i)) \in Nat \ {0}
    BY <1>2, <1>3, FS_CardinalityType, FS_EmptySet
  <1>5. i <= j => BreaksUpTo(rows, i) \in SUBSET BreaksUpTo(rows, j)
    BY <1>0 DEF BreaksUpTo, TurnBreaks
  <1>6. i <= j => Cardinality(BreaksUpTo(rows, i)) <= Cardinality(BreaksUpTo(rows, j))
    BY <1>2, <1>5, FS_Subset
  <1> QED BY <1>1, <1>4, <1>6

(* A step is grouped by the number the server gave it. *)
LEMMA StepsKeepTurns ==
    ASSUME NEW T, NEW rows \in Seq(T)
    PROVE  /\ DOMAIN Steps(rows) = DOMAIN rows
           /\ \A i \in DOMAIN rows :
                 GroupKey(Steps(rows), i) = TurnIndex(rows)[i]
  <1>1. DOMAIN Steps(rows) = DOMAIN rows
    BY DEF Steps
  <1>2. ASSUME NEW i \in DOMAIN rows
        PROVE  GroupKey(Steps(rows), i) = TurnIndex(rows)[i]
    <2>1. Steps(rows)[i].turn = TurnIndex(rows)[i]
      BY DEF Steps
    <2>2. TurnIndex(rows)[i] > 0
      BY TurnsAscend
    <2> QED BY <2>1, <2>2 DEF GroupKey
  <1> QED BY <1>1, <1>2

(* However often a user text comes again, and with rows without one between,  *)
(* no two sections of a session have the same index.                          *)
THEOREM SectionsHaveTheirOwnKeys ==
    ASSUME NEW T, NEW rows \in Seq(T)
    PROVE  KeysAreDistinct(Steps(rows))
  <1>1. ASSUME NEW i \in GroupStarts(Steps(rows)), NEW j \in GroupStarts(Steps(rows)),
               i < j
        PROVE  GroupKey(Steps(rows), i) # GroupKey(Steps(rows), j)
    <2>1. i \in DOMAIN rows /\ j \in DOMAIN rows /\ j # 1
      BY <1>1, StepsKeepTurns DEF GroupStarts
    <2>2. j - 1 \in DOMAIN rows /\ i <= j - 1 /\ j - 1 <= j
      BY <1>1, <2>1
    <2>3. GroupKey(Steps(rows), j) # GroupKey(Steps(rows), j - 1)
      BY <2>1 DEF GroupStarts
    <2>4. /\ TurnIndex(rows)[i] <= TurnIndex(rows)[j - 1]
          /\ TurnIndex(rows)[j - 1] <= TurnIndex(rows)[j]
          /\ TurnIndex(rows)[j - 1] # TurnIndex(rows)[j]
      BY <2>1, <2>2, <2>3, TurnsAscend, StepsKeepTurns
    <2>5. /\ TurnIndex(rows)[i] \in Nat /\ TurnIndex(rows)[j] \in Nat
          /\ TurnIndex(rows)[j - 1] \in Nat
      BY <2>1, <2>2, TurnsAscend
    <2> QED BY <2>1, <2>4, <2>5, StepsKeepTurns
  <1>2. GroupStarts(Steps(rows)) \subseteq Nat
    BY StepsKeepTurns DEF GroupStarts
  <1> QED BY <1>1, <1>2 DEF KeysAreDistinct

-----------------------------------------------------------------------------
(* The routes: what the request page shows is the request its address names.

   Nothing in the page itself sees to that: it cancels no fetch and stores any
   answer.  The argument is about the window's history.  An entry that shows a
   request is the one its document began with (a request is only ever reached
   by location.assign or by opening a window), so two entries of a document are
   never two requests; a move within a document therefore never turns one
   request page into another, and every fetch of a page is of its own id.

   A session page may be turned into another, and may show the one before; what
   it shows is a session all the same, whose sections have keys of their own.  *)

(* An entry of a request is where its document began. *)
RequestsBegin == \A i \in 1 .. Len(hist) :
                    hist[i].route.page = "request" => hist[i].doc = i

RouteInv == /\ tour \in Tours
            /\ \E S : hist \in Seq(S)
            /\ at \in 0 .. Len(hist)
            /\ \A i \in 1 .. Len(hist) : hist[i].route \in Routes
            /\ RequestsBegin

LEMMA RoutesStart == Init => RouteInv
  <1> SUFFICES ASSUME Init PROVE RouteInv
    OBVIOUS
  <1>1. hist = <<>> /\ at = 0 /\ tour \in Tours
    BY DEF Init
  <1>2. hist \in Seq({}) /\ Len(hist) = 0
    BY <1>1
  <1> QED BY <1>1, <1>2 DEF RouteInv, RequestsBegin

(* A new entry behind the one shown. *)
LEMMA Pushed ==
    ASSUME RouteInv, NEW route, NEW doc, Push(route, doc),
           route.page = "request" => doc = at + 1, tour' = tour
    PROVE  RouteInv' /\ route \in Routes /\ Here' = route
  <1>1. PICK S : hist \in Seq(S)
    BY DEF RouteInv
  <1>2. at \in 0 .. Len(hist) /\ Len(hist) \in Nat
    BY <1>1 DEF RouteInv
  <1> DEFINE kept  == SubSeq(hist, 1, at)
             entry == [route |-> route, doc |-> doc]
             T     == S \cup {entry}
  <1>3. hist' = Append(kept, entry) /\ at' = at + 1
    BY DEF Push
  <1>4. entry \in T /\ entry.route = route /\ entry.doc = doc
    OBVIOUS
  <1>5. /\ kept \in Seq(T) /\ Len(kept) = at
        /\ \A i \in 1 .. at : kept[i] = hist[i]
    <2>1. hist \in Seq(T) /\ \A i \in 1 .. at : hist[i] \in T
      BY <1>1, <1>2
    <2>2. /\ kept \in Seq(T)
          /\ Len(kept) = IF 1 <= at THEN at - 1 + 1 ELSE 0
          /\ \A i \in 1 .. at - 1 + 1 : kept[i] = hist[1 + i - 1]
      BY <1>2, <2>1, SubSeqProperties
    <2> QED BY <1>2, <2>2
  <1>r. route \in Routes
    <2>1. route \in tour.routes /\ tour \in [start : Routes, routes : SUBSET Routes]
      BY DashboardAssumption DEF Push, RouteInv
    <2> QED BY <2>1
  <1> HIDE DEF kept, entry, T
  <1>6. /\ hist' \in Seq(T) /\ Len(hist') = at + 1
        /\ \A i \in 1 .. at : hist'[i] = hist[i]
        /\ hist'[at + 1] = entry
    BY <1>2, <1>3, <1>4, <1>5
  <1>7. at' \in 0 .. Len(hist')
    BY <1>2, <1>3, <1>6
  <1>8. ASSUME NEW i \in 1 .. Len(hist'), hist'[i].route.page = "request"
        PROVE  hist'[i].doc = i
    <2>1. CASE i \in 1 .. at
      <3>1. hist'[i] = hist[i] /\ i \in 1 .. Len(hist)
        BY <1>2, <1>6, <2>1
      <3> QED BY <1>8, <3>1 DEF RouteInv, RequestsBegin
    <2>2. CASE i = at + 1
      BY <1>4, <1>6, <1>8, <2>2
    <2> QED BY <1>2, <1>6, <2>1, <2>2
  <1>9. ASSUME NEW i \in 1 .. Len(hist')
        PROVE  hist'[i].route \in Routes
    <2>1. CASE i \in 1 .. at
      <3>1. hist'[i] = hist[i] /\ i \in 1 .. Len(hist)
        BY <1>2, <1>6, <2>1
      <3> QED BY <3>1 DEF RouteInv
    <2>2. CASE i = at + 1
      BY <1>4, <1>6, <1>r, <2>2
    <2> QED BY <1>2, <1>6, <2>1, <2>2
  <1>10. tour' \in Tours
    BY DEF RouteInv
  <1>11. Here' = route
    BY <1>2, <1>3, <1>4, <1>6 DEF Here
  <1> QED BY <1>6, <1>7, <1>8, <1>9, <1>10, <1>11, <1>r DEF RouteInv, RequestsBegin

(* The request page is left or entered anew, unless the window moves within a  *)
(* document from one request to another.                                       *)
DetailAnew == DetailLeaves \/ \E id \in Logged : DetailEnters(id)

LEMMA ShowsAnew ==
    ASSUME NEW route \in Routes, NEW same, Show(route, same),
           ~(same /\ Here.page = "request" /\ route.page = "request")
    PROVE  DetailAnew
  <1>1. DetailLeaves \/ (route.page = "request" /\ DetailEnters(route.id))
    BY DEF Show, Outlet
  <1>2. route.page = "request" => route.id \in Logged
    BY DEF Routes
  <1> QED BY <1>1, <1>2 DEF DetailAnew

(* The session page is of the session the address names. *)
TraceMoves == \/ TraceLeaves \/ UNCHANGED traceVars
              \/ \E s \in Sessions : TraceEnters(s) \/ TraceTurns(s)

LEMMA ShowsSession ==
    ASSUME NEW route \in Routes, NEW same, Show(route, same)
    PROVE  TraceMoves
  <1>1. CASE route.page = "session"
    <2>1. route.id \in Sessions
      BY <1>1 DEF Routes
    <2>2. TraceEnters(route.id) \/ TraceTurns(route.id) \/ UNCHANGED traceVars
      BY <1>1 DEF Show, Outlet
    <2> QED BY <2>1, <2>2 DEF TraceMoves
  <1>2. CASE route.page # "session"
    BY <1>2 DEF Show, Outlet, TraceMoves
  <1> QED BY <1>1, <1>2

(* What a move may do to the history, the request page and the session page;   *)
(* the window shows its route afterwards.                                      *)
Moved == /\ RouteInv'
         /\ DetailAnew
         /\ TraceMoves
         /\ \E route \in Routes : \E same : Show(route, same) /\ Here' = route

LEMMA MovedBy ==
    ASSUME RouteInv', NEW route \in Routes, NEW same, Show(route, same),
           Here' = route,
           ~(same /\ Here.page = "request" /\ route.page = "request")
    PROVE  Moved
  <1>1. DetailAnew
    BY ShowsAnew
  <1>2. TraceMoves
    BY ShowsSession
  <1> QED BY <1>1, <1>2 DEF Moved

LEMMA NavigateMoves ==
    ASSUME RouteInv, NEW route, Navigate(route), route.page # "request"
    PROVE  Moved
  <1>1. Push(route, hist[at].doc) /\ Show(route, TRUE)
    BY DEF Navigate
  <1>2. tour' = tour
    BY <1>1 DEF Show
  <1>3. RouteInv' /\ route \in Routes /\ Here' = route
    BY <1>1, <1>2, Pushed
  <1> QED BY <1>1, <1>3, MovedBy

LEMMA AssignMoves ==
    ASSUME RouteInv, NEW route, Assign(route)
    PROVE  Moved
  <1>1. Push(route, at + 1) /\ Show(route, FALSE)
    BY DEF Assign
  <1>2. tour' = tour
    BY <1>1 DEF Show
  <1>3. RouteInv' /\ route \in Routes /\ Here' = route
    BY <1>1, <1>2, Pushed
  <1> QED BY <1>1, <1>3, MovedBy

LEMMA TraverseMoves ==
    ASSUME RouteInv, NEW n \in DOMAIN hist, Traverse(n)
    PROVE  Moved
  <1>1. PICK S : hist \in Seq(S)
    BY DEF RouteInv
  <1>2. /\ n \in 1 .. Len(hist) /\ n # at /\ at # 0 /\ at \in 1 .. Len(hist)
        /\ at' = n /\ hist' = hist
        /\ Show(hist[n].route, hist[n].doc = hist[at].doc)
    BY <1>1 DEF Traverse, RouteInv
  <1>3. Here = hist[at].route /\ Here' = hist[n].route
    BY <1>2 DEF Here
  <1>4. ~(/\ hist[n].doc = hist[at].doc /\ Here.page = "request"
          /\ hist[n].route.page = "request")
    BY <1>2, <1>3 DEF RouteInv, RequestsBegin
  <1>5. tour' = tour
    BY <1>2 DEF Show
  <1>6. RouteInv'
    BY <1>1, <1>2, <1>5 DEF RouteInv, RequestsBegin
  <1>7. hist[n].route \in Routes
    BY <1>2 DEF RouteInv
  <1> QED BY <1>2, <1>3, <1>4, <1>6, <1>7, MovedBy

LEMMA MovesAnew == RouteInv /\ Moves => Moved
  <1> SUFFICES ASSUME RouteInv, Moves PROVE Moved
    OBVIOUS
  <1>1. CASE Start
    BY <1>1, AssignMoves DEF Start
  <1>2. CASE \E n \in DOMAIN hist : Traverse(n)
    BY <1>2, TraverseMoves
  <1>3. CASE Reload
    <2>1. Show(Here, FALSE) /\ hist' = hist /\ at' = at
      BY <1>3 DEF Reload
    <2>2. tour' = tour /\ Here' = Here
      BY <2>1 DEF Show, Here
    <2>3. RouteInv'
      BY <2>1, <2>2 DEF RouteInv, RequestsBegin
    <2>4. Here \in Routes
      <3>1. at # 0 /\ at \in 1 .. Len(hist)
        BY <1>3 DEF Reload, RouteInv
      <3> QED BY <3>1 DEF Here, RouteInv
    <2> QED BY <2>1, <2>2, <2>3, <2>4, MovedBy
  <1>4. CASE NavLink
    <2>1. PICK route \in NavLinks : Navigate(route)
      BY <1>4 DEF NavLink
    <2>2. route.page # "request"
      BY DEF NavLinks, To
    <2> QED BY <2>1, <2>2, NavigateMoves
  <1>5. ASSUME NEW s, Navigate(To("session", s))
        PROVE  Moved
    <2>1. To("session", s).page # "request"
      BY DEF To
    <2> QED BY <1>5, <2>1, NavigateMoves
  <1>6. CASE OpenSession
    BY <1>5, <1>6 DEF OpenSession
  <1>7. CASE SessionLink
    BY <1>5, <1>7 DEF SessionLink
  <1>8. CASE WindowBlocked
    BY <1>8, AssignMoves DEF WindowBlocked
  <1> QED BY <1>1, <1>2, <1>3, <1>4, <1>6, <1>7, <1>8 DEF Moves

(* What may happen to the two pages. *)
DetailMay == DetailAnew \/ DetailStep \/ UNCHANGED <<detail, detailCalls>>

TraceMay == TraceMoves \/ TraceStep

LEMMA PagesChange == RouteInv /\ [Next]_vars => RouteInv' /\ DetailMay /\ TraceMay
  <1> SUFFICES ASSUME RouteInv, [Next]_vars
               PROVE  RouteInv' /\ DetailMay /\ TraceMay
    OBVIOUS
  <1>1. CASE Moves
    BY <1>1, MovesAnew DEF Moved, DetailMay, TraceMay
  <1>2. CASE ~Moves
    <2>1. UNCHANGED routeVars
      BY <1>2 DEF Next, InFeed, InSessions, InDetail, InDebug, InUsage, vars
    <2>2. RouteInv'
      BY <2>1 DEF RouteInv, RequestsBegin, routeVars
    <2>3. DetailStep \/ UNCHANGED <<detail, detailCalls>>
      BY <1>2 DEF Next, InFeed, InSessions, InDetail, InDebug, InUsage, vars,
                  pageVars, detailVars
    <2>4. TraceStep \/ UNCHANGED traceVars
      BY <1>2 DEF Next, InFeed, InSessions, InDetail, InDebug, InUsage, vars,
                  pageVars, sessionVars, SessionStep, ListStep, NewActivity
    <2> QED BY <2>2, <2>3, <2>4 DEF DetailMay, TraceMay, TraceMoves
  <1> QED BY <1>1, <1>2

-----------------------------------------------------------------------------
(* The cells of a logged request, whatever its messages: each is a cell of one *)
(* of them.                                                                    *)
LEMMA MessageCellsAre ==
    ASSUME NEW m, m.calls \in Seq(Range(m.calls)), NEW i
    PROVE  /\ MessageCells(m, i) \in Seq(Range(MessageCells(m, i)))
           /\ \A c \in Range(MessageCells(m, i)) : c.message = i
  <1> DEFINE said    == [id |-> <<i, "role", m.role>>, message |-> i, call |-> 0,
                         kind |-> KindForRole(m.role)]
             thought == [id |-> <<i, "reasoning", 0>>, message |-> i, call |-> 0,
                         kind |-> "REASONING"]
             tool(t) == [id |-> <<i, "tool", IF m.calls[t] = NoId
                                             THEN t ELSE m.calls[t]>>,
                         message |-> i, call |-> t, kind |-> "TOOL"]
             tools   == [t \in DOMAIN m.calls |-> tool(t)]
             T       == {said, thought} \cup {tool(t) : t \in DOMAIN m.calls}
             first   == CellIf(m.reasoning, thought)
             second  == CellIf(m.content, said)
             cells   == first \o second \o tools
  <1>1. said.message = i /\ thought.message = i /\ \A t : tool(t).message = i
    OBVIOUS
  <1>2. MessageCells(m, i) = IF cells = <<>> THEN <<said>> ELSE cells
    BY DEF MessageCells
  <1>3. tools \in Seq(T)
    <2>1. DOMAIN m.calls = 1 .. Len(m.calls) /\ Len(m.calls) \in Nat
      OBVIOUS
    <2>2. \A t \in DOMAIN m.calls : tool(t) \in T
      OBVIOUS
    <2> HIDE DEF tool, T
    <2>3. tools \in [1 .. Len(m.calls) -> T]
      BY <2>1, <2>2
    <2> QED BY <2>1, <2>3, SeqDef
  <1>4. said \in T /\ thought \in T /\ \A c \in T : c.message = i
    BY <1>1
  <1> HIDE DEF said, thought, tools, T
  <1>5. first \in Seq(T) /\ second \in Seq(T) /\ <<said>> \in Seq(T)
    BY <1>4 DEF CellIf
  <1> HIDE DEF first, second
  <1>6. first \o second \in Seq(T)
    BY <1>5, ConcatProperties
  <1>7. cells \in Seq(T)
    BY <1>3, <1>6, ConcatProperties
  <1> HIDE DEF cells
  <1>8. MessageCells(m, i) \in Seq(T)
    BY <1>2, <1>5, <1>7
  <1> DEFINE s == MessageCells(m, i)
  <1> HIDE DEF s
  <1>9. /\ s \in Seq(Range(s))
        /\ \A c \in Range(s) : c \in T
    <2>1. s \in Seq(T)
      BY <1>8 DEF s
    <2>2. /\ Len(s) \in Nat /\ DOMAIN s = 1 .. Len(s)
          /\ \A k \in 1 .. Len(s) : s[k] \in T
          /\ s = [k \in 1 .. Len(s) |-> s[k]]
      BY <2>1
    <2>3. \A k \in 1 .. Len(s) : s[k] \in Range(s)
      BY <2>2 DEF Range
    <2>4. s \in [1 .. Len(s) -> Range(s)]
      BY <2>2, <2>3
    <2>5. s \in Seq(Range(s))
      BY <2>2, <2>4, SeqDef
    <2> QED BY <2>2, <2>5 DEF Range
  <1> QED BY <1>4, <1>9 DEF s

LEMMA CellsOfMessages ==
    ASSUME NEW ms, ms \in Seq(Range(ms)),
           \A m \in Range(ms) : m.calls \in Seq(Range(m.calls))
    PROVE  \E T : /\ BuildTrajectoryCells(ms) \in Seq(T)
                  /\ \A c \in T : c.message \in DOMAIN ms
  <1> DEFINE own(i) == MessageCells(ms[i], i)
             T      == UNION {Range(own(i)) : i \in DOMAIN ms}
             lists  == [i \in DOMAIN ms |-> own(i)]
  <1>1. DOMAIN ms = 1 .. Len(ms) /\ Len(ms) \in Nat
        /\ \A i \in DOMAIN ms : ms[i] \in Range(ms)
    BY DEF Range
  <1>2. ASSUME NEW i \in DOMAIN ms
        PROVE  own(i) \in Seq(Range(own(i))) /\ \A c \in Range(own(i)) : c.message = i
    <2>1. ms[i].calls \in Seq(Range(ms[i].calls))
      BY <1>1
    <2> QED BY <2>1, MessageCellsAre
  <1> HIDE DEF own
  <1>3. \A c \in T : c.message \in DOMAIN ms
    BY <1>2
  <1>4. \A i \in DOMAIN ms : Range(own(i)) \subseteq T
    OBVIOUS
  <1> HIDE DEF T
  <1>5. ASSUME NEW i \in DOMAIN ms PROVE own(i) \in Seq(T)
    <2> DEFINE s == own(i)
               R == Range(s)
    <2>1. s \in Seq(R) /\ R \subseteq T
      BY <1>2, <1>4
    <2> HIDE DEF s, R
    <2>2. s \in Seq(T)
      BY <2>1
    <2> QED BY <2>2 DEF s
  <1>6. lists \in Seq(Seq(T))
    <2> DEFINE U == Seq(T)
    <2>1. \A i \in DOMAIN ms : own(i) \in U
      BY <1>5
    <2> HIDE DEF U
    <2>2. lists \in [1 .. Len(ms) -> U]
      BY <1>1, <2>1
    <2> HIDE DEF lists
    <2>3. lists \in Seq(U)
      BY <1>1, <2>2, SeqDef
    <2> QED BY <2>3 DEF U
  <1>7. BuildTrajectoryCells(ms) = FlattenSeq(lists)
    BY DEF BuildTrajectoryCells, own
  <1> HIDE DEF lists
  <1> QED BY <1>3, <1>6, <1>7, FlattenedList

LEMMA ShownCells ==
    ASSUME NEW shown \in Logged \cup {NoDetail}
    PROVE  \E T : /\ CellsOf[shown] \in Seq(T)
                  /\ \A c \in T : /\ shown \in Logged
                                  /\ c.message \in DOMAIN MessagesOf[shown]
  <1>1. CASE shown = NoDetail
    <2>1. CellsOf[shown] = <<>>
      BY <1>1 DEF CellsOf
    <2> DEFINE none == {}
    <2>2. <<>> \in Seq(none) /\ \A c \in none : FALSE
      OBVIOUS
    <2> HIDE DEF none
    <2> QED BY <2>1, <2>2
  <1>2. CASE shown \in Logged
    <2> DEFINE ms == MessagesOf[shown]
    <2>1. CellsOf[shown] = BuildTrajectoryCells(ms)
      BY <1>2, DetailAssumption DEF CellsOf
    <2>2. /\ ms \in Seq(Range(ms))
          /\ \A m \in Range(ms) : m.calls \in Seq(Range(m.calls))
      BY <1>2, DetailAssumption
    <2> HIDE DEF ms
    <2>3. \E T : /\ BuildTrajectoryCells(ms) \in Seq(T)
                 /\ \A c \in T : c.message \in DOMAIN ms
      BY <2>2, CellsOfMessages
    <2> QED BY <1>2, <2>1, <2>3 DEF ms
  <1> QED BY <1>1, <1>2

(* Where the cell with an id is found: a place in the list, or none. *)
LEMMA CellPlace ==
    ASSUME NEW T, NEW cells \in Seq(T), NEW id
    PROVE  /\ CellAt(cells, id) \in 0 .. Len(cells)
           /\ CellAt(cells, id) # 0 => cells[CellAt(cells, id)].id = id
  <1> DEFINE I == {i \in DOMAIN cells : cells[i].id = id}
  <1>1. DOMAIN cells = 1 .. Len(cells) /\ Len(cells) \in Nat
    OBVIOUS
  <1>2. CASE I = {}
    BY <1>1, <1>2 DEF CellAt
  <1>3. CASE I # {}
    <2>1. \E i \in I : \A j \in I : i <= j
      <3>1. I \subseteq Nat
        BY <1>1
      <3> HIDE DEF I
      <3> QED BY <1>3, <3>1, LeastOf
    <2>2. CellAt(cells, id) = CHOOSE i \in I : \A j \in I : i <= j
      BY <1>3 DEF CellAt
    <2>3. CellAt(cells, id) \in I
      BY <2>1, <2>2
    <2> QED BY <1>1, <2>3
  <1> QED BY <1>2, <1>3

(* The blocks drawn are blocks the page has a place for. *)
LEMMA BlocksHaveKeys ==
    ASSUME NEW d, d.shown \in Logged \cup {NoDetail}
    PROVE  Blocks(d) \subseteq BlockKeys
  <1>1. {<<"request", 0>>, <<"response", 0>>} \subseteq BlockKeys
    BY DEF BlockKeys
  <1>2. ASSUME CellAt(Cells(d), d.cell) # 0
        PROVE  EventBlocks(d) \subseteq BlockKeys
    <2>1. PICK T : /\ Cells(d) \in Seq(T)
                   /\ \A c \in T : /\ d.shown \in Logged
                                   /\ c.message \in DOMAIN MessagesOf[d.shown]
      BY ShownCells DEF Cells
    <2>2. CellAt(Cells(d), d.cell) \in 1 .. Len(Cells(d))
      <3>1. CellAt(Cells(d), d.cell) \in 0 .. Len(Cells(d)) /\ Len(Cells(d)) \in Nat
        BY <2>1, CellPlace
      <3> QED BY <1>2, <3>1
    <2>3. Selected(d) \in T
      BY <2>1, <2>2 DEF Selected
    <2>4. d.shown \in Logged /\ Message(d) \in Range(MessagesOf[d.shown])
      BY <2>1, <2>3 DEF Message, Range
    <2>5. Message(d).calls \in Seq(Range(Message(d).calls))
      BY <2>4, DetailAssumption
    <2>6. DOMAIN Message(d).calls \subseteq Nat \ {0}
      BY <2>5
    <2>7. MessageBubble(Message(d)) \subseteq BlockKeys
      BY <2>6 DEF MessageBubble, BlockKeys
    <2>8. {<<"reasoning", 0>>, <<"code", 0>>} \subseteq BlockKeys
      BY DEF BlockKeys
    <2>9. \/ EventBlocks(d) \in {{<<"reasoning", 0>>}, {<<"code", 0>>}, {}}
          \/ EventBlocks(d) = MessageBubble(Message(d))
      BY DEF EventBlocks
    <2> QED BY <2>7, <2>8, <2>9
  <1> QED BY <1>1, <1>2 DEF Blocks
-----------------------------------------------------------------------------
(* The page: a record of these fields, showing its own request or nothing, and *)
(* a cell of what it shows.                                                    *)
Fields == {"mounted", "id", "shown", "loading", "cell", "tab", "blocks"}

AreBlocks(blocks) == /\ DOMAIN blocks \subseteq BlockKeys
                     /\ blocks \in [DOMAIN blocks -> Block]

IsPageOf(d, id) == /\ d = [k \in Fields |-> d[k]]
                   /\ d.mounted = TRUE
                   /\ d.id = id
                   /\ d.shown \in {id, NoDetail}
                   /\ d.loading \in BOOLEAN
                   /\ d.tab \in DOMAIN Tabs
                   /\ AreBlocks(d.blocks)

CellOf(shown) == {NoCell} \cup CellIds(shown)

DetailInv == /\ ~detail.mounted => detail = NoView /\ detailCalls = <<>>
             /\ detail.mounted => /\ detail.id \in Logged
                                  /\ IsPageOf(detail, detail.id)
                                  /\ detail.cell \in CellOf(detail.shown)
                                  /\ detailCalls \in Seq({detail.id})

LEMMA EditedCell ==
    ASSUME NEW id, NEW d, IsPageOf(d, id), NEW v, NEW e, e = [d EXCEPT !.cell = v]
    PROVE  IsPageOf(e, id) /\ e.cell = v /\ e.shown = d.shown
  BY DEF IsPageOf, Fields

LEMMA EditedTab ==
    ASSUME NEW id, NEW d, IsPageOf(d, id), NEW v \in DOMAIN Tabs,
           NEW e, e = [d EXCEPT !.tab = v]
    PROVE  IsPageOf(e, id) /\ e.cell = d.cell /\ e.shown = d.shown
  BY DEF IsPageOf, Fields

LEMMA EditedBlocks ==
    ASSUME NEW id, NEW d, IsPageOf(d, id), NEW v, AreBlocks(v),
           NEW e, e = [d EXCEPT !.blocks = v]
    PROVE  IsPageOf(e, id) /\ e.cell = d.cell /\ e.shown = d.shown
  BY DEF IsPageOf, Fields

LEMMA TimersAreBounded == MaxTimers \in Nat
  BY DetailAssumption

LEMMA BlockTurns ==
    ASSUME NEW b \in Block
    PROVE  /\ [b EXCEPT !.open = ~@] \in Block
           /\ b.timers < MaxTimers => [b EXCEPT !.copied = TRUE, !.timers = @ + 1] \in Block
           /\ b.timers > 0 => [b EXCEPT !.copied = FALSE, !.timers = @ - 1] \in Block
  <1>1. b.timers \in 0 .. MaxTimers /\ MaxTimers \in Nat
    BY TimersAreBounded DEF Block
  <1>2. /\ b.timers < MaxTimers => b.timers + 1 \in 0 .. MaxTimers
        /\ b.timers > 0 => b.timers - 1 \in 0 .. MaxTimers
    BY <1>1
  <1> DEFINE limit == 0 .. MaxTimers
  <1> HIDE DEF limit
  <1>3. \A n \in limit : /\ [b EXCEPT !.copied = TRUE, !.timers = n] \in Block
                          /\ [b EXCEPT !.copied = FALSE, !.timers = n] \in Block
    BY DEF Block, limit
  <1>4. [b EXCEPT !.open = ~@] \in Block
    BY DEF Block
  <1> QED BY <1>2, <1>3, <1>4, Zenon DEF limit

LEMMA DrawnKeeps ==
    ASSUME NEW id \in Logged, NEW d, IsPageOf(d, id)
    PROVE  /\ IsPageOf(Drawn(d), id)
           /\ Drawn(d).cell = d.cell /\ Drawn(d).shown = d.shown
  <1> DEFINE blocks == [k \in Blocks(d) |-> IF k \in DOMAIN d.blocks
                                            THEN d.blocks[k] ELSE NewBlock]
  <1>1. Drawn(d) = [d EXCEPT !.blocks = blocks]
    BY DEF Drawn
  <1>2. DOMAIN blocks \subseteq BlockKeys
    <2>1. d.shown \in Logged \cup {NoDetail}
      BY DEF IsPageOf
    <2> QED BY <2>1, BlocksHaveKeys
  <1>3. NewBlock \in Block
    BY TimersAreBounded DEF NewBlock, Block
  <1>4. \A k \in DOMAIN d.blocks : d.blocks[k] \in Block
    BY DEF IsPageOf, AreBlocks
  <1>5. AreBlocks(blocks)
    BY <1>2, <1>3, <1>4 DEF AreBlocks
  <1> HIDE DEF blocks
  <1> QED BY <1>1, <1>5, EditedBlocks

LEMMA ReselectedKeeps ==
    ASSUME NEW id \in Logged, NEW d, IsPageOf(d, id)
    PROVE  /\ IsPageOf(Reselected(d), id)
           /\ Reselected(d).shown = d.shown
           /\ Reselected(d).cell \in CellOf(d.shown)
  <1> DEFINE c == IF Cells(d) = <<>> THEN NoCell
                  ELSE IF CellAt(Cells(d), d.cell) # 0 THEN d.cell
                  ELSE Cells(d)[1].id
  <1>1. Reselected(d) = [d EXCEPT !.cell = c]
    BY DEF Reselected
  <1>2. c \in CellOf(d.shown)
    <2>1. d.shown \in Logged \cup {NoDetail}
      BY DEF IsPageOf
    <2>2. PICK T : Cells(d) \in Seq(T)
      BY <2>1, ShownCells DEF Cells
    <2>3. \A i \in 1 .. Len(Cells(d)) : Cells(d)[i].id \in CellIds(d.shown)
      BY <2>2 DEF Cells, CellIds
    <2>4. CASE Cells(d) = <<>>
      BY <2>4 DEF CellOf
    <2>5. CASE Cells(d) # <<>>
      <3>1. 1 \in 1 .. Len(Cells(d))
        BY <2>2, <2>5, EmptySeq
      <3>2. /\ CellAt(Cells(d), d.cell) \in 0 .. Len(Cells(d))
            /\ CellAt(Cells(d), d.cell) # 0
               => Cells(d)[CellAt(Cells(d), d.cell)].id = d.cell
        BY <2>2, CellPlace
      <3>3. CellAt(Cells(d), d.cell) # 0
            => CellAt(Cells(d), d.cell) \in 1 .. Len(Cells(d))
        BY <2>2, <3>2
      <3> QED BY <2>3, <2>5, <3>1, <3>2, <3>3 DEF CellOf
    <2> QED BY <2>4, <2>5
  <1> HIDE DEF c
  <1> QED BY <1>1, <1>2, EditedCell

(* To show the invariant of a mounted page it is enough to show these. *)
LEMMA DetailKept ==
    ASSUME NEW id \in Logged, IsPageOf(detail', id),
           detail'.cell \in CellOf(detail'.shown), detailCalls' \in Seq({id})
    PROVE  DetailInv' /\ detail'.mounted
  <1>1. detail'.mounted /\ detail'.id = id
    BY DEF IsPageOf
  <1> QED BY <1>1 DEF DetailInv

LEMMA DetailStepInv == DetailInv /\ DetailStep => DetailInv' /\ detail'.mounted
  <1> SUFFICES ASSUME DetailInv, DetailStep PROVE DetailInv' /\ detail'.mounted
    OBVIOUS
  <1> DEFINE id == detail.id
  <1>1. /\ IsPageOf(detail, id) /\ detailCalls \in Seq({id})
        /\ detail.cell \in CellOf(detail.shown)
    BY DEF DetailStep, DetailInv
  <1>i. id \in Logged
    BY DEF DetailStep, DetailInv
  <1>b. AreBlocks(detail.blocks)
    BY <1>1 DEF IsPageOf
  <1> HIDE DEF id
  <1>c. PICK T : Cells(detail) \in Seq(T)
    <2>1. detail.shown \in Logged \cup {NoDetail}
      BY <1>1, <1>i DEF IsPageOf
    <2> QED BY <2>1, ShownCells DEF Cells
  <1>k. \A i \in 1 .. Len(Cells(detail)) : Cells(detail)[i].id \in CellOf(detail.shown)
    BY <1>c DEF Cells, CellIds, CellOf
  <1>2. ASSUME NEW c \in CellOf(detail.shown), SelectCell(c)
        PROVE  DetailInv' /\ detail'.mounted
    <2> DEFINE d == [detail EXCEPT !.cell = c]
    <2>1. IsPageOf(d, id) /\ d.cell = c /\ d.shown = detail.shown
      BY <1>1, EditedCell
    <2>2. detail' = Drawn(d) /\ detailCalls' = detailCalls
      BY <1>2 DEF SelectCell
    <2> HIDE DEF d
    <2>3. IsPageOf(detail', id) /\ detail'.cell = c /\ detail'.shown = detail.shown
      BY <1>i, <2>1, <2>2, DrawnKeeps
    <2> QED BY <1>1, <1>2, <1>i, <2>2, <2>3, DetailKept
  <1>3. ASSUME NEW t \in DOMAIN Tabs, SetTab(t)
        PROVE  DetailInv' /\ detail'.mounted
    <2> DEFINE d == [detail EXCEPT !.tab = t]
    <2>1. IsPageOf(d, id) /\ d.cell = detail.cell /\ d.shown = detail.shown
      BY <1>1, <1>3, EditedTab
    <2>2. detail' = Drawn(d) /\ detailCalls' = detailCalls
      BY <1>3 DEF SetTab
    <2> HIDE DEF d
    <2>3. IsPageOf(detail', id) /\ detail'.cell = detail.cell
          /\ detail'.shown = detail.shown
      BY <1>i, <2>1, <2>2, DrawnKeeps
    <2> QED BY <1>1, <1>i, <2>2, <2>3, DetailKept
  <1>4. CASE TrajectoryStep
    <2>0. Cells(detail) # <<>>
      BY <1>4 DEF TrajectoryStep, DetailShows
    <2>1. CASE ClickCell
      <3>1. PICK s \in OverviewSpans(Cells(detail)) : SelectCell(s.id)
        BY <2>1 DEF ClickCell
      <3>2. s.id \in CellOf(detail.shown)
        BY <1>c, <1>k DEF OverviewSpans
      <3> QED BY <1>2, <3>1, <3>2
    <2>2. ASSUME NEW key \in {"ArrowDown", "ArrowUp", "Home", "End"}, CellKey(key)
          PROVE  DetailInv' /\ detail'.mounted
      <3> DEFINE cells == Cells(detail)
                 now   == CellAt(cells, detail.cell)
      <3>1. Len(cells) \in Nat /\ Len(cells) # 0 /\ now \in 0 .. Len(cells)
        BY <1>c, <2>0, EmptySeq, CellPlace
      <3>2. SelectCell(cells[KeyTarget(cells, now, key)].id)
        BY <2>2 DEF CellKey
      <3> HIDE DEF now, cells
      <3>3. KeyTarget(cells, now, key) \in 1 .. Len(cells)
        BY <3>1 DEF KeyTarget
      <3>4. cells[KeyTarget(cells, now, key)].id \in CellOf(detail.shown)
        BY <1>k, <3>3 DEF cells
      <3> QED BY <1>2, <3>2, <3>4
    <2>3. CASE TabKey
      <3>1. detail.tab \in 1 .. 4
        BY <1>1 DEF IsPageOf, Tabs
      <3>2. DOMAIN Tabs = 1 .. 4 /\ Len(Tabs) = 4
        BY DEF Tabs
      <3>3. /\ (detail.tab % 4) + 1 \in 1 .. 4
            /\ ((detail.tab + 4 - 2) % 4) + 1 \in 1 .. 4
        BY <3>1
      <3> QED BY <1>3, <2>3, <3>2, <3>3 DEF TabKey
    <2> QED BY <1>3, <1>4, <2>1, <2>2, <2>3 DEF TrajectoryStep
  <1>5. ASSUME NEW k \in DOMAIN detail.blocks, NEW b \in Block, SetBlock(k, b)
        PROVE  DetailInv' /\ detail'.mounted
    <2> DEFINE blocks == [detail.blocks EXCEPT ![k] = b]
    <2>1. detail' = [detail EXCEPT !.blocks = blocks] /\ detailCalls' = detailCalls
      BY <1>5 DEF SetBlock
    <2>2. AreBlocks(blocks)
      BY <1>b DEF AreBlocks
    <2> HIDE DEF blocks
    <2>3. IsPageOf(detail', id) /\ detail'.cell = detail.cell
          /\ detail'.shown = detail.shown
      BY <1>1, <2>1, <2>2, EditedBlocks
    <2> QED BY <1>1, <1>i, <2>1, <2>3, DetailKept
  <1>s. ASSUME NEW k \in DOMAIN detail.blocks
        PROVE  detail.blocks[k] \in Block
    BY <1>b DEF AreBlocks
  <1>6. CASE BlockStep
    <2>1. PICK k \in DOMAIN detail.blocks : ToggleBlock(k) \/ CopyBlock(k)
      BY <1>6 DEF BlockStep
    <2>2. /\ [detail.blocks[k] EXCEPT !.open = ~@] \in Block
          /\ detail.blocks[k].timers < MaxTimers
             => [detail.blocks[k] EXCEPT !.copied = TRUE, !.timers = @ + 1] \in Block
      BY <1>s, BlockTurns, Zenon
    <2> QED BY <1>5, <2>1, <2>2 DEF ToggleBlock, CopyBlock
  <1>7. CASE CopyTimers
    <2>1. PICK k \in DOMAIN detail.blocks : CopyTimer(k)
      BY <1>7 DEF CopyTimers
    <2>2. detail.blocks[k].timers > 0
          => [detail.blocks[k] EXCEPT !.copied = FALSE, !.timers = @ - 1] \in Block
      BY <1>s, BlockTurns, Zenon
    <2> QED BY <1>5, <2>1, <2>2 DEF CopyTimer
  <1>8. CASE DetailAnswers
    <2>1. ASSUME NEW i \in DOMAIN detailCalls, NEW shown \in {id, NoDetail},
                 DetailArrives(i, shown)
          PROVE  DetailInv' /\ detail'.mounted
      <3> DEFINE d == [detail EXCEPT !.shown = shown, !.loading = FALSE]
                 e == Reselected(d)
      <3>1. detail' = Drawn(e) /\ detailCalls' = RemoveAt(detailCalls, i)
        BY <2>1 DEF DetailArrives
      <3>2. IsPageOf(d, id) /\ d.shown = shown
        BY <1>1, <2>1 DEF IsPageOf, Fields
      <3> HIDE DEF d
      <3>3. IsPageOf(e, id) /\ e.shown = shown /\ e.cell \in CellOf(shown)
        BY <1>i, <3>2, ReselectedKeeps
      <3> HIDE DEF e
      <3>4. IsPageOf(detail', id) /\ detail'.shown = shown
            /\ detail'.cell \in CellOf(shown)
        BY <1>i, <3>1, <3>3, DrawnKeeps
      <3>5. detailCalls' \in Seq({id})
        BY <1>1, <3>1, RemovedPlace
      <3> QED BY <1>i, <3>4, <3>5, DetailKept
    <2>2. \A i \in DOMAIN detailCalls : detailCalls[i] = id
      BY <1>1
    <2> QED BY <1>8, <2>1, <2>2 DEF DetailAnswers
  <1>9. CASE UNCHANGED <<detail, detailCalls>>
    BY <1>1, <1>9, <1>i, DetailKept
  <1> QED BY <1>4, <1>6, <1>7, <1>8, <1>9 DEF DetailStep

LEMMA DetailStarts == Init => DetailInv
  <1>1. ~NoView.mounted
    BY DEF NoView
  <1> QED BY <1>1 DEF Init, DetailInit, DetailInv

LEMMA DetailNext == RouteInv /\ DetailInv /\ [Next]_vars => DetailInv'
  <1>1. DetailLeaves => DetailInv'
    <2>1. DetailLeaves => ~detail'.mounted
      BY DEF DetailLeaves, NoView
    <2> QED BY <2>1 DEF DetailInv, DetailLeaves
  <1>2. ASSUME NEW id \in Logged, DetailEnters(id)
        PROVE  DetailInv' /\ detail'.mounted
    <2>1. /\ detail' = [mounted |-> TRUE, id |-> id, shown |-> NoDetail,
                        loading |-> TRUE, cell |-> NoCell, tab |-> 1,
                        blocks |-> <<>>]
          /\ detailCalls' \in Seq({id})
      BY <1>2 DEF DetailEnters
    <2>2. AreBlocks(<<>>) /\ 1 \in DOMAIN Tabs
      BY DEF AreBlocks, Tabs
    <2>3. IsPageOf(detail', id)
      BY <2>1, <2>2 DEF IsPageOf, Fields
    <2>4. detail'.cell \in CellOf(detail'.shown)
      BY <2>1 DEF CellOf
    <2> QED BY <2>1, <2>3, <2>4, DetailKept
  <1>3. DetailInv /\ UNCHANGED <<detail, detailCalls>> => DetailInv'
    BY DEF DetailInv, IsPageOf
  <1> QED BY <1>1, <1>2, <1>3, PagesChange, DetailStepInv DEF DetailMay, DetailAnew

(* The request page shows the request of its address or nothing, however its   *)
(* fetches and the user's moves interleave.                                    *)
THEOREM RequestOfTheAddress == Spec => []ShownIsRoutes
  <1>1. DetailInv => ShownIsRoutes
    BY DEF DetailInv, IsPageOf, ShownIsRoutes
  <1>2. RouteInv /\ DetailInv /\ [Next]_vars => RouteInv' /\ DetailInv'
    BY PagesChange, DetailNext
  <1> QED BY <1>1, <1>2, RoutesStart, DetailStarts, PTL DEF Spec

-----------------------------------------------------------------------------
(* What may happen to the list of sessions. *)
LEMMA ListChanges ==
    [Next]_vars
    => \/ (ListEnters \/ ListLeaves \/ UNCHANGED listVars) /\ UNCHANGED recent
       \/ ListStep
       \/ NewActivity
  <1>1. ASSUME NEW route, NEW same, Show(route, same)
        PROVE  (ListEnters \/ ListLeaves \/ UNCHANGED listVars) /\ UNCHANGED recent
    BY <1>1 DEF Show, Outlet
  <1>2. Moves => (ListEnters \/ ListLeaves \/ UNCHANGED listVars) /\ UNCHANGED recent
    BY <1>1, MovesShow
  <1> QED BY <1>2 DEF Next, InFeed, InSessions, InDetail, InDebug, InUsage,
                      vars, pageVars, SessionStep, TraceStep, sessionVars, listVars

(* The first of the sessions, or one that is there. *)
Within(o) == o \in Nat /\ (o = 0 \/ o < Len(recent))

(* A page asked for, and the one the last answer showed, is within the sessions *)
(* there are; sessions are never forgotten, so it stays there.                  *)
ListInv ==
    /\ recent \in Seq(Sessions)
    /\ list \in Lists \cup {NoPage}
    /\ listCalls \in Seq(Nat)
    /\ ~list.mounted => listCalls = <<>>
    /\ \A i \in DOMAIN listCalls : Within(listCalls[i])
    /\ list.mounted => /\ Within(list.offset)
                       /\ list.more = TRUE => list.offset + PageSize < Len(recent)
                       /\ list.offset > 0 => list.rows # <<>>

LEMMA ListMounted == ~NoPage.mounted /\ \A l \in Lists : l.mounted
  BY DEF NoPage, Lists

(* To show the invariant of a mounted page it is enough to show these. *)
LEMMA ListKept ==
    ASSUME recent' \in Seq(Sessions), list' \in Lists, listCalls' \in Seq(Nat),
           \A i \in DOMAIN listCalls' : Within(listCalls[i])',
           Within(list.offset)',
           list'.more = TRUE => list'.offset + PageSize < Len(recent'),
           list'.offset > 0 => list'.rows # <<>>
    PROVE  ListInv' /\ list'.mounted
  <1>1. list'.mounted
    BY ListMounted
  <1> QED BY <1>1 DEF ListInv

(* A page of the sessions from an offset that is within them. *)
LEMMA PageOfSessions ==
    ASSUME recent \in Seq(Sessions), NEW o, Within(o)
    PROVE  LET page == ListSessions(o)
           IN  /\ page.data \in Seq(Sessions) /\ page.total \in Nat
               /\ page.offset = o /\ page.more \in BOOLEAN
               /\ page.more = TRUE => o + PageSize < Len(recent)
               /\ o > 0 => page.data # <<>>
  <1> DEFINE end == IF o + PageSize <= Len(recent) THEN o + PageSize ELSE Len(recent)
             data == SubSeq(recent, o + 1, end)
  <1>0. PageSize \in Nat \ {0} /\ Len(recent) \in Nat /\ o \in Nat
    BY SessionAssumption DEF Within
  <1>1. end \in Nat /\ end <= Len(recent) /\ o <= end
    BY <1>0 DEF Within
  <1>2. o > 0 => o + 1 <= end
    BY <1>0 DEF Within
  <1>3. \A i \in o + 1 .. end : recent[i] \in Sessions
    BY <1>0, <1>1
  <1>4. /\ data \in Seq(Sessions)
        /\ Len(data) = IF o + 1 <= end THEN end - (o + 1) + 1 ELSE 0
    BY <1>0, <1>1, <1>3, SubSeqProperties
  <1>5. Len(data) = end - o
    BY <1>0, <1>1, <1>4
  <1>6. ListSessions(o) = [data |-> data, total |-> Len(recent), offset |-> o,
                           more |-> o + Len(data) < Len(recent)]
    BY DEF ListSessions
  <1>7. o + Len(data) < Len(recent) => o + PageSize < Len(recent)
    BY <1>0, <1>1, <1>5
  <1> HIDE DEF data, end
  <1>8. ASSUME o > 0 PROVE data # <<>>
    <2>1. end - o > 0
      BY <1>0, <1>1, <1>2, <1>8
    <2>2. Len(<<>>) = 0
      BY EmptyList
    <2> QED BY <1>5, <2>1, <2>2
  <1> DEFINE page == ListSessions(o)
  <1>9. /\ page.data = data /\ page.total = Len(recent) /\ page.offset = o
        /\ page.more = (o + Len(data) < Len(recent))
    BY <1>6
  <1> HIDE DEF page
  <1>10. page.more \in BOOLEAN /\ (page.more = TRUE => o + PageSize < Len(recent))
    <2>1. CASE o + Len(data) < Len(recent)
      BY <1>7, <1>9, <2>1
    <2>2. CASE ~(o + Len(data) < Len(recent))
      <3>1. page.more = FALSE
        <4> DEFINE yes == o + Len(data) < Len(recent)
        <4>1. page.more = yes /\ ~yes
          BY <1>9, <2>2
        <4>2. yes = FALSE
          <5>1. yes \in BOOLEAN
            BY <1>0, <1>5
          <5> QED BY <4>1, <5>1
        <4> HIDE DEF yes
        <4> QED BY <4>1, <4>2
      <3> QED BY <3>1
    <2> QED BY <2>1, <2>2
  <1>11. page.data \in Seq(Sessions) /\ page.total \in Nat /\ (o > 0 => page.data # <<>>)
    BY <1>0, <1>4, <1>8, <1>9
  <1> QED BY <1>9, <1>10, <1>11 DEF page

LEMMA ListStepInv == ListInv /\ ListStep => ListInv' /\ list'.mounted
  <1> SUFFICES ASSUME ListInv, ListStep PROVE ListInv' /\ list'.mounted
    OBVIOUS
  <1>1. UNCHANGED recent /\ recent \in Seq(Sessions) /\ listCalls \in Seq(Nat)
    BY DEF ListStep, ListInv
  <1>m. list.mounted /\ list \in Lists
    <2>1. list.mounted
      BY DEF ListStep, ListPrevious, ListNextPage, ListAnswers, ListInv
    <2> QED BY <2>1, ListMounted DEF ListInv
  <1>2. /\ Within(list.offset) /\ list.offset \in Nat
        /\ list.more = TRUE => list.offset + PageSize < Len(recent)
        /\ list.offset > 0 => list.rows # <<>>
        /\ \A i \in DOMAIN listCalls : Within(listCalls[i])
    BY <1>m DEF ListInv, Within
  <1>p. PageSize \in Nat /\ Len(recent) \in Nat
    BY <1>1, SessionAssumption
  <1>w. \A o : Within(o)' <=> Within(o)
    BY <1>1 DEF Within
  <1>3. ASSUME NEW o, Within(o), Load(o)
        PROVE  ListInv' /\ list'.mounted
    <2>1. list' = [list EXCEPT !.loading = TRUE, !.error = FALSE]
          /\ listCalls' = Append(listCalls, o) /\ o \in Nat
      BY <1>3 DEF Load, Within
    <2>2. /\ list' \in Lists /\ list'.offset = list.offset
          /\ list'.more = list.more /\ list'.rows = list.rows
      BY <1>m, <2>1 DEF Lists
    <2>3. listCalls' \in Seq(Nat)
      BY <1>1, <2>1
    <2>4. ASSUME NEW i \in DOMAIN listCalls' PROVE Within(listCalls'[i])
      <3>1. \/ listCalls'[i] = o
            \/ i \in DOMAIN listCalls /\ listCalls'[i] = listCalls[i]
        BY <1>1, <2>1
      <3> QED BY <1>2, <1>3, <3>1
    <2> QED BY <1>1, <1>2, <1>w, <2>2, <2>3, <2>4, ListKept
  <1>4. CASE ListPrevious
    <2>1. list.offset # 0
          /\ Load(IF list.offset > PageSize THEN list.offset - PageSize ELSE 0)
      BY <1>4 DEF ListPrevious
    <2>2. Within(IF list.offset > PageSize THEN list.offset - PageSize ELSE 0)
      BY <1>2, <1>p DEF Within
    <2> QED BY <1>3, <2>1, <2>2
  <1>5. CASE ListNextPage
    <2>1. list.more = TRUE /\ Load(list.offset + PageSize)
      BY <1>5, <1>m DEF ListNextPage, Lists
    <2>2. Within(list.offset + PageSize)
      BY <1>2, <1>p, <2>1 DEF Within
    <2> QED BY <1>3, <2>1, <2>2
  <1>6. CASE ListAnswers
    <2>1. PICK i \in DOMAIN listCalls : ListAnswer(i) \/ ListFail(i)
      BY <1>6 DEF ListAnswers
    <2>2. listCalls' = RemoveAt(listCalls, i)
      BY <2>1 DEF ListAnswer, ListFail
    <2>3. /\ listCalls' \in Seq(Nat)
          /\ \A j \in DOMAIN listCalls' : Within(listCalls'[j])
      BY <1>1, <1>2, <2>2, RemovedPlace
    <2>4. CASE ListAnswer(i)
      <3> DEFINE page == ListSessions(listCalls[i])
      <3>1. /\ page.data \in Seq(Sessions) /\ page.total \in Nat
            /\ page.offset = listCalls[i] /\ page.more \in BOOLEAN
            /\ page.more = TRUE => listCalls[i] + PageSize < Len(recent)
            /\ listCalls[i] > 0 => page.data # <<>>
        BY <1>1, <1>2, PageOfSessions
      <3>2. list' = [list EXCEPT !.rows = page.data, !.total = page.total,
                                 !.offset = page.offset, !.more = page.more,
                                 !.loading = FALSE]
        BY <2>4 DEF ListAnswer
      <3>3. Within(listCalls[i]) /\ listCalls[i] \in Nat
        BY <1>2 DEF Within
      <3> HIDE DEF page
      <3>4. /\ list' \in Lists /\ list'.offset = listCalls[i]
            /\ list'.more = page.more /\ list'.rows = page.data
        BY <1>m, <3>1, <3>2, <3>3 DEF Lists
      <3> QED BY <1>1, <1>w, <2>3, <3>1, <3>3, <3>4, ListKept
    <2>5. CASE ListFail(i)
      <3>1. list' = [list EXCEPT !.error = TRUE, !.loading = FALSE]
        BY <2>5 DEF ListFail
      <3>2. /\ list' \in Lists /\ list'.offset = list.offset
            /\ list'.more = list.more /\ list'.rows = list.rows
        BY <1>m, <3>1 DEF Lists
      <3> QED BY <1>1, <1>2, <1>w, <2>3, <3>2, ListKept
    <2> QED BY <2>1, <2>4, <2>5
  <1> QED BY <1>4, <1>5, <1>6 DEF ListStep

(* Activity adds a session or moves one to the front: there are never fewer. *)
LEMMA ActivityInv == ListInv /\ NewActivity => ListInv'
  <1> SUFFICES ASSUME ListInv, NewActivity PROVE ListInv'
    OBVIOUS
  <1>1. UNCHANGED listVars
    BY DEF NewActivity
  <1>2. PICK s \in Sessions : recent' = <<s>> \o RemoveFirst(recent, s)
    BY DEF NewActivity, Activity
  <1>3. recent \in Seq(Sessions) /\ Len(recent) \in Nat
    BY DEF ListInv
  <1>4. recent' \in Seq(Sessions) /\ Len(recent') \in Nat /\ Len(recent') >= Len(recent)
    <2> DEFINE rest == RemoveFirst(recent, s)
    <2>1. rest \in Seq(Sessions) /\ (rest = recent \/ Len(rest) = Len(recent) - 1)
      BY <1>3, RemovedFirst
    <2>2. recent' = <<s>> \o rest
      BY <1>2
    <2> HIDE DEF rest
    <2>3. <<s>> \in Seq(Sessions) /\ Len(<<s>>) = 1
      OBVIOUS
    <2>4. recent' \in Seq(Sessions) /\ Len(recent') = 1 + Len(rest)
      BY <2>1, <2>2, <2>3, ConcatProperties
    <2> QED BY <1>3, <2>1, <2>4
  <1>5. \A o : Within(o) => Within(o)'
    BY <1>3, <1>4 DEF Within
  <1>6. list' = list /\ listCalls' = listCalls
    BY <1>1 DEF listVars
  <1>7. CASE list.mounted
    <2>1. /\ list \in Lists /\ Within(list.offset)
          /\ list.more = TRUE => list.offset + PageSize < Len(recent)
          /\ list.offset > 0 => list.rows # <<>>
          /\ listCalls \in Seq(Nat)
          /\ \A i \in DOMAIN listCalls : Within(listCalls[i])
      BY <1>7, ListMounted DEF ListInv
    <2>2. list.more = TRUE => list.offset + PageSize < Len(recent')
      BY <1>3, <1>4, <2>1, SessionAssumption DEF Within
    <2> QED BY <1>4, <1>5, <1>6, <2>1, <2>2, ListKept
  <1>8. CASE ~list.mounted
    <2>1. list = NoPage /\ listCalls = <<>>
      BY <1>8, ListMounted DEF ListInv
    <2> QED BY <1>4, <1>6, <2>1, ListMounted DEF ListInv
  <1> QED BY <1>7, <1>8

LEMMA ListStarts == Init => ListInv
  <1> SUFFICES ASSUME Init PROVE ListInv
    OBVIOUS
  <1>1. recent = <<>> /\ list = NoPage /\ listCalls = <<>>
    BY DEF Init, SessionInit
  <1> QED BY <1>1, ListMounted DEF ListInv

LEMMA ListNext == ListInv /\ [Next]_vars => ListInv'
  <1> SUFFICES ASSUME ListInv, [Next]_vars PROVE ListInv'
    OBVIOUS
  <1>1. ASSUME ListEnters, UNCHANGED recent
        PROVE  ListInv'
    <2>1. list' = [mounted |-> TRUE, rows |-> <<>>, total |-> 0, offset |-> 0,
                   more |-> FALSE, loading |-> TRUE, error |-> FALSE]
          /\ listCalls' = <<0>>
      BY <1>1 DEF ListEnters
    <2>2. list' \in Lists /\ list'.offset = 0 /\ list'.more = FALSE
      BY <2>1 DEF Lists
    <2>3. listCalls' \in Seq(Nat) /\ \A i \in DOMAIN listCalls' : listCalls'[i] = 0
      BY <2>1
    <2>4. Within(0)' /\ recent' \in Seq(Sessions)
      BY <1>1 DEF Within, ListInv
    <2>5. Within(list.offset)' /\ \A i \in DOMAIN listCalls' : Within(listCalls[i])'
      BY <2>2, <2>3 DEF Within
    <2>6. /\ list'.more = TRUE => list'.offset + PageSize < Len(recent')
          /\ list'.offset > 0 => list'.rows # <<>>
      BY <2>2
    <2> QED BY <2>2, <2>3, <2>4, <2>5, <2>6, ListKept
  <1>2. ASSUME ListLeaves, UNCHANGED recent
        PROVE  ListInv'
    <2>1. list' = NoPage /\ listCalls' = <<>> /\ recent' \in Seq(Sessions)
      BY <1>2 DEF ListLeaves, ListInv
    <2> QED BY <2>1, ListMounted DEF ListInv
  <1>3. ASSUME UNCHANGED listVars, UNCHANGED recent
        PROVE  ListInv'
    <2>1. list' = list /\ listCalls' = listCalls /\ recent' = recent
      BY <1>3 DEF listVars
    <2>2. \A o : Within(o) <=> Within(o)'
      BY <2>1 DEF Within
    <2> QED BY <2>1, <2>2 DEF ListInv
  <1> QED BY <1>1, <1>2, <1>3, ListChanges, ListStepInv, ActivityInv

(* Whatever becomes active between two presses of the pager, a page that is not *)
(* the first shows sessions: they are never fewer than when it was offered.     *)
THEOREM PagesAlwaysFull == Spec => []LaterPagesAreFull
  <1>1. ListInv => LaterPagesAreFull
    BY DEF ListInv, LaterPagesAreFull
  <1> QED BY <1>1, ListStarts, ListNext, PTL DEF Spec

-----------------------------------------------------------------------------
(* The session page shows a session, or none; what is pinned is a step there   *)
(* can be, and what is collapsed are numbers of turns.                         *)
TraceInv == trace \in Traces \cup {NoPage} /\ traceCalls \in Seq(Sessions)

LEMMA TraceMounted == ~NoPage.mounted /\ \A t \in Traces : t.mounted
  BY DEF NoPage, Traces

LEMMA FetchedIsTrace ==
    ASSUME NEW t, NEW s \in Sessions
    PROVE  /\ t \in Traces => Fetched(t, s) \in Traces
           /\ t = NoPage => Fetched(t, s) = NoPage
  <1>1. t \in Traces => Fetched(t, s) \in Traces
    BY DEF Traces, Fetched
  <1>2. t = NoPage => Fetched(t, s) = NoPage
    BY DEF Fetched, NoPage
  <1> QED BY <1>1, <1>2

LEMMA TraceMovesInv == TraceInv /\ TraceMoves => TraceInv'
  <1> SUFFICES ASSUME TraceInv, TraceMoves PROVE TraceInv'
    OBVIOUS
  <1>1. CASE TraceLeaves
    BY <1>1 DEF TraceLeaves, TraceInv
  <1>2. CASE UNCHANGED traceVars
    BY <1>2 DEF traceVars, TraceInv
  <1>3. ASSUME NEW s \in Sessions, TraceEnters(s)
        PROVE  TraceInv'
    <2> DEFINE new == [mounted |-> TRUE, id |-> s, session |-> NoSession,
                       loading |-> TRUE, error |-> FALSE, pinned |-> NoStep,
                       collapsed |-> {}]
    <2>1. new \in Traces
      BY DEF Traces
    <2>2. trace' = Fetched(new, s) /\ traceCalls' = <<s>>
      BY <1>3 DEF TraceEnters
    <2> HIDE DEF new
    <2>3. trace' \in Traces /\ traceCalls' \in Seq(Sessions)
      BY <2>1, <2>2, FetchedIsTrace
    <2> QED BY <2>3 DEF TraceInv
  <1>4. ASSUME NEW s \in Sessions, TraceTurns(s)
        PROVE  TraceInv'
    <2>1. trace' \in Traces \cup {NoPage}
      BY <1>4, FetchedIsTrace DEF TraceTurns, TraceInv
    <2>2. traceCalls' \in Seq(Sessions)
      BY <1>4 DEF TraceTurns, TraceInv
    <2> QED BY <2>1, <2>2 DEF TraceInv
  <1> QED BY <1>1, <1>2, <1>3, <1>4 DEF TraceMoves

(* The steps of a session, and the numbers of its sections. *)
LEMMA SessionSteps ==
    ASSUME NEW s \in Sessions
    PROVE  /\ \E n \in Nat : DOMAIN StepsOf(s) = 1 .. n
           /\ \A i \in DOMAIN StepsOf(s) :
                 /\ GroupKey(StepsOf(s), i) \in Nat
                 /\ GroupKey(StepsOf(s), i) = StepsOf(s)[i].turn
  <1> DEFINE rows == RowsOf[s]
  <1>1. rows \in Seq(Range(rows))
    BY SessionAssumption
  <1>2. StepsOf(s) = Steps(rows)
    BY DEF StepsOf
  <1> HIDE DEF rows
  <1>3. DOMAIN rows = 1 .. Len(rows) /\ Len(rows) \in Nat
    BY <1>1
  <1>4. DOMAIN Steps(rows) = DOMAIN rows
    BY <1>1, StepsKeepTurns
  <1>5. ASSUME NEW i \in DOMAIN rows
        PROVE  /\ GroupKey(Steps(rows), i) \in Nat
               /\ GroupKey(Steps(rows), i) = Steps(rows)[i].turn
    <2>1. GroupKey(Steps(rows), i) = TurnIndex(rows)[i] /\ TurnIndex(rows)[i] \in Nat
      BY <1>1, StepsKeepTurns, TurnsAscend
    <2>2. Steps(rows)[i].turn = TurnIndex(rows)[i]
      BY DEF Steps
    <2> QED BY <2>1, <2>2
  <1> QED BY <1>2, <1>3, <1>4, <1>5

LEMMA TraceStepInv == TraceInv /\ TraceStep => TraceInv' /\ trace'.mounted
  <1> SUFFICES ASSUME TraceInv, TraceStep PROVE TraceInv' /\ trace'.mounted
    OBVIOUS
  <1>1. trace \in Traces /\ traceCalls \in Seq(Sessions)
    BY TraceMounted DEF TraceStep, TraceInv
  <1>q. ASSUME trace' \in Traces, traceCalls' \in Seq(Sessions)
        PROVE  TraceInv' /\ trace'.mounted
    BY <1>q, TraceMounted DEF TraceInv
  <1>2. ASSUME NEW turn \in Sections(trace), ToggleTurn(turn)
        PROVE  TraceInv' /\ trace'.mounted
    <2>1. turn.index \in Nat
      <3>1. trace.session \in Sessions
        BY <1>1 DEF Sections, Traces
      <3>2. PICK i \in GroupStarts(StepsOf(trace.session)) :
               turn = [index |-> GroupKey(StepsOf(trace.session), i),
                       steps |-> GroupAt(StepsOf(trace.session), i)]
        BY DEF Sections, GroupSessionTurns
      <3>3. i \in DOMAIN StepsOf(trace.session)
        BY DEF GroupStarts
      <3> QED BY <3>1, <3>2, <3>3, SessionSteps
    <2>2. trace.collapsed \in SUBSET Nat
      BY <1>1 DEF Traces
    <2> DEFINE c == IF turn.index \in trace.collapsed
                    THEN trace.collapsed \ {turn.index}
                    ELSE trace.collapsed \cup {turn.index}
    <2>3. c \in SUBSET Nat
      BY <2>1, <2>2
    <2>4. trace' = [trace EXCEPT !.collapsed = c] /\ traceCalls' = traceCalls
      BY <1>2 DEF ToggleTurn
    <2> HIDE DEF c
    <2>5. trace' \in Traces
      BY <1>1, <2>3, <2>4 DEF Traces
    <2> QED BY <1>1, <1>q, <2>4, <2>5
  <1>3. ASSUME NEW id \in AllSteps, FocusFinding(id)
        PROVE  TraceInv' /\ trace'.mounted
    <2>1. PICK turn : /\ trace' = [trace EXCEPT !.collapsed = trace.collapsed \ {turn},
                                                !.pinned = id]
                      /\ traceCalls' = traceCalls
      BY <1>3 DEF FocusFinding
    <2>2. trace.collapsed \in SUBSET Nat
      BY <1>1 DEF Traces
    <2> DEFINE c == trace.collapsed \ {turn}
    <2>3. c \in SUBSET Nat /\ trace' = [trace EXCEPT !.collapsed = c, !.pinned = id]
      BY <2>1, <2>2
    <2> HIDE DEF c
    <2>4. trace' \in Traces
      BY <1>1, <2>3 DEF Traces
    <2> QED BY <1>1, <1>q, <2>1, <2>4
  <1>4. CASE TraceAnswers
    <2>1. PICK i \in DOMAIN traceCalls : TraceAnswer(i) \/ TraceFail(i)
      BY <1>4 DEF TraceAnswers
    <2>2. traceCalls' \in Seq(Sessions)
      <3>1. traceCalls' = RemoveAt(traceCalls, i)
        BY <2>1 DEF TraceAnswer, TraceFail
      <3> QED BY <1>1, <3>1, RemovedPlace
    <2>3. CASE TraceAnswer(i)
      <3>1. traceCalls[i] \in Sessions
        BY <1>1
      <3>2. trace' = [trace EXCEPT !.session = traceCalls[i], !.loading = FALSE]
        BY <2>3 DEF TraceAnswer
      <3>3. trace' \in Traces
        BY <1>1, <3>1, <3>2 DEF Traces
      <3> QED BY <1>q, <2>2, <3>3
    <2>4. CASE TraceFail(i)
      <3>1. trace' = [trace EXCEPT !.session = NoSession, !.error = TRUE,
                                   !.loading = FALSE]
        BY <2>4 DEF TraceFail
      <3>2. trace' \in Traces
        BY <1>1, <3>1 DEF Traces
      <3> QED BY <1>q, <2>2, <3>2
    <2> QED BY <2>1, <2>3, <2>4
  <1> QED BY <1>2, <1>3, <1>4 DEF TraceStep

LEMMA TraceStarts == Init => TraceInv
  <1>1. Init => trace = NoPage /\ traceCalls = <<>>
    BY DEF Init, SessionInit
  <1>2. <<>> \in Seq(Sessions)
    OBVIOUS
  <1> QED BY <1>1, <1>2 DEF TraceInv

LEMMA TraceNext == RouteInv /\ TraceInv /\ [Next]_vars => RouteInv' /\ TraceInv'
  BY PagesChange, TraceMovesInv, TraceStepInv DEF TraceMay

(* The sections of a session page have keys of their own, whatever rows its    *)
(* session has and whichever session it shows.                                 *)
THEOREM SectionsOfTheWindow == Spec => []TurnKeysDistinct
  <1>1. TraceInv => TurnKeysDistinct
    <2> SUFFICES ASSUME TraceInv, trace.mounted, trace.session # NoSession
                 PROVE  KeysAreDistinct(StepsOf(trace.session))
      BY DEF TurnKeysDistinct
    <2>1. trace.session \in Sessions
      BY TraceMounted DEF TraceInv, Traces
    <2>2. RowsOf[trace.session] \in Seq(Range(RowsOf[trace.session]))
      BY <2>1, SessionAssumption
    <2> QED BY <2>2, SectionsHaveTheirOwnKeys DEF StepsOf
  <1> QED BY <1>1, RoutesStart, TraceStarts, TraceNext, PTL DEF Spec

-----------------------------------------------------------------------------
(* A clicked finding *)

(* Every step is in a section, and the section has the number of the step: it   *)
(* is the one that starts last, not after the step; had a step between another  *)
(* number, the first such would start a later one.                              *)
LEMMA SectionOfStep ==
    ASSUME NEW s \in Sessions, NEW j \in DOMAIN StepsOf(s)
    PROVE  \E u \in GroupSessionTurns(StepsOf(s)) :
              u.index = StepsOf(s)[j].turn /\ j \in u.steps
  <1> DEFINE steps == StepsOf(s)
             begun == {k \in GroupStarts(steps) : k <= j}
  <1>1. PICK n \in Nat : DOMAIN steps = 1 .. n
    BY SessionSteps
  <1>2. \A k \in 1 .. n : GroupKey(steps, k) = steps[k].turn
    BY <1>1, SessionSteps
  <1>3. /\ \A k \in GroupStarts(steps) : k \in 1 .. n
        /\ 1 \in GroupStarts(steps) /\ j \in 1 .. n
    BY <1>1 DEF GroupStarts
  <1> HIDE DEF steps
  <1>4. begun \subseteq 0 .. n /\ begun # {}
    <2>1. \A k \in begun : k \in 0 .. n
      BY <1>3
    <2>2. 1 \in begun
      BY <1>3
    <2> QED BY <2>1, <2>2
  <1>5. PICK i \in begun : \A k \in begun : k <= i
    <2> HIDE DEF begun
    <2> QED BY <1>4, GreatestOf
  <1>6. i \in GroupStarts(steps) /\ i \in 1 .. n /\ i <= j
    BY <1>3, <1>5
  <1>7. GroupKey(steps, i) = GroupKey(steps, j)
    <2> DEFINE other == {k \in i .. j : GroupKey(steps, k) # GroupKey(steps, i)}
    <2> SUFFICES ASSUME other # {} PROVE FALSE
      BY <1>3, <1>6
    <2>1. other \subseteq Nat
      BY <1>3, <1>6
    <2>2. PICK k \in other : \A l \in other : k <= l
      <3> HIDE DEF other
      <3> QED BY <2>1, LeastOf
    <2>3. /\ k \in i .. j /\ k # i /\ k \in 1 .. n /\ k - 1 \in i .. j
          /\ GroupKey(steps, k) # GroupKey(steps, i)
      BY <1>3, <1>6, <2>2
    <2>4. k - 1 \notin other
      BY <1>3, <1>6, <2>2, <2>3
    <2>5. GroupKey(steps, k) # GroupKey(steps, k - 1)
      BY <2>3, <2>4
    <2>6. k \in GroupStarts(steps)
      BY <1>1, <2>3, <2>5 DEF GroupStarts
    <2>7. k \in begun /\ ~(k <= i)
      BY <1>3, <1>6, <2>3, <2>6
    <2> QED BY <1>5, <2>7
  <1>8. j \in GroupAt(steps, i)
    <2>1. \A k \in GroupStarts(steps) : k <= i \/ j < k
      BY <1>3, <1>5
    <2> QED BY <1>1, <1>3, <1>6, <2>1 DEF GroupAt
  <1> DEFINE u == [index |-> GroupKey(steps, i), steps |-> GroupAt(steps, i)]
  <1>9. u \in GroupSessionTurns(steps)
    BY <1>6 DEF GroupSessionTurns
  <1>10. u.index = steps[j].turn /\ j \in u.steps
    BY <1>2, <1>3, <1>7, <1>8
  <1> HIDE DEF u
  <1> QED BY <1>9, <1>10 DEF steps

(* A finding that is clicked leads to its step, in whichever section that is   *)
(* and whatever was collapsed.                                                 *)
THEOREM FindingsLead == Spec => FocusShowsStep
  <1>1. ASSUME TraceInv, NEW id \in AllSteps, trace.mounted, FocusFinding(id)
        PROVE  id \in StepsShown(trace')
    <2>1. trace \in Traces
      BY <1>1, TraceMounted DEF TraceInv
    <2>2. trace.session \in Sessions /\ id \in StepIds(trace.session)
      BY <1>1, <2>1 DEF FocusFinding, Traces
    <2> DEFINE steps == StepsOf(trace.session)
               step == CHOOSE st \in Range(steps) : st.id = id
    <2>3. \E st \in Range(steps) : st.id = id
      BY <2>2 DEF StepIds, Range
    <2>4. step \in Range(steps) /\ step.id = id
      BY <2>3
    <2>5. PICK j \in DOMAIN steps : step = steps[j]
      BY <2>4 DEF Range
    <2>6. trace' = [trace EXCEPT !.collapsed = trace.collapsed \ {step.turn},
                                 !.pinned = id]
      BY <1>1 DEF FocusFinding
    <2>7. /\ trace'.session = trace.session /\ trace'.session # NoSession
          /\ step.turn \notin trace'.collapsed
      <3> HIDE DEF step
      <3> QED BY <2>1, <2>2, <2>6, SessionAssumption DEF Traces
    <2>8. PICK u \in GroupSessionTurns(steps) : u.index = steps[j].turn /\ j \in u.steps
      BY <2>2, SectionOfStep
    <2> HIDE DEF step
    <2>9. u \in Sections(trace') /\ u.index \notin trace'.collapsed
      BY <2>5, <2>7, <2>8 DEF Sections
    <2>10. j \in UNION {turn.steps : turn \in {v \in Sections(trace') :
                                                v.index \notin trace'.collapsed}}
      BY <2>8, <2>9
    <2>11. id = StepsOf(trace'.session)[j].id
      BY <2>4, <2>5, <2>7
    <2> QED BY <2>10, <2>11 DEF StepsShown
  <1>2. TraceInv /\ [Next]_vars =>
          [\A id \in AllSteps :
              trace.mounted /\ FocusFinding(id) => id \in StepsShown(trace')]_sessionVars
    BY <1>1
  <1> QED BY <1>2, RoutesStart, TraceStarts, TraceNext, PTL DEF Spec, FocusShowsStep

-----------------------------------------------------------------------------
(* The window *)

(* What is known of each page on its own. *)
PagesInv == /\ RouteInv /\ FeedInv /\ ListInv /\ TraceInv
            /\ DetailInv /\ SplitInv /\ DebugInv /\ UsageInv

LEMMA PagesStart == Init => PagesInv
  <1>1. Init => SplitInv
    BY SplitStarts DEF Init, DetailInit
  <1> QED BY <1>1, RoutesStart, FeedStarts, ListStarts, TraceStarts, DetailStarts,
             DebugStarts, UsageStarts DEF PagesInv

LEMMA PagesNext == PagesInv /\ [Next]_vars => PagesInv'
  <1> SUFFICES ASSUME PagesInv, [Next]_vars PROVE PagesInv'
    OBVIOUS
  <1>1. /\ RouteInv /\ FeedInv /\ ListInv /\ TraceInv
        /\ DetailInv /\ SplitInv /\ DebugInv /\ UsageInv
    BY DEF PagesInv
  <1>2. RouteInv' /\ TraceInv' /\ DetailInv'
    BY <1>1, TraceNext, DetailNext
  <1>3. FeedInv' /\ ListInv'
    BY <1>1, FeedMoves, ListNext
  <1>4. SplitInv' /\ DebugInv' /\ UsageInv'
    BY <1>1, SplitNextInv, DebugNext, UsageNext
  <1> QED BY <1>2, <1>3, <1>4 DEF PagesInv

Entries == [route : Routes, doc : 1 .. MaxHistory]

(* A page is there while its route is shown, and only the request page has a   *)
(* split.                                                                      *)
PagesAreRoutes ==
    /\ feed.mounted   <=> Here.page = "list"
    /\ list.mounted   <=> Here.page = "sessions"
    /\ trace.mounted  <=> Here.page = "session"
    /\ detail.mounted <=> Here.page = "request"
    /\ debug.mounted  <=> Here.page = "debug"
    /\ usage.mounted  <=> Here.page = "usage"
    /\ ~trace.mounted => traceCalls = <<>>
    /\ ~detail.mounted => ~split.mounted

(* Each route brings its page, however it is shown. *)
LEMMA ShowBrings ==
    ASSUME PagesInv, PagesAreRoutes, NEW route, NEW same,
           Show(route, same), Here' = route
    PROVE  PagesAreRoutes'
  <1>0. /\ FeedInv /\ TraceInv /\ DetailInv
    BY DEF PagesInv
  <1>1. feed'.mounted <=> Here'.page = "list"
    <2>1. FeedLeaves => ~feed'.mounted
      BY FeedMounted DEF FeedLeaves
    <2>2. FeedEnters => feed'.mounted
      <3>1. UNCHANGED log
        BY DEF Show
      <3> QED BY <1>0, <3>1, FeedEntersInv
    <2> QED BY <2>1, <2>2 DEF Show, Outlet, PagesAreRoutes, feedState
  <1>2. list'.mounted <=> Here'.page = "sessions"
    <2>1. (ListLeaves => ~list'.mounted) /\ (ListEnters => list'.mounted)
      BY DEF ListLeaves, ListEnters, NoPage
    <2> QED BY <2>1 DEF Show, Outlet, PagesAreRoutes, listVars
  <1>3. /\ trace'.mounted <=> Here'.page = "session"
        /\ ~trace'.mounted => traceCalls' = <<>>
    <2>1. /\ TraceLeaves => ~trace'.mounted /\ traceCalls' = <<>>
          /\ TraceEnters(route.id) => trace'.mounted
      <3>1. TraceLeaves => ~trace'.mounted /\ traceCalls' = <<>>
        BY DEF TraceLeaves, NoPage
      <3>2. TraceEnters(route.id) => trace'.mounted
        BY DEF TraceEnters, Fetched
      <3> QED BY <3>1, <3>2
    <2>2. trace.mounted /\ TraceTurns(route.id) => trace'.mounted
      <3>1. trace.mounted => trace \in Traces
        BY <1>0, TraceMounted DEF TraceInv
      <3>2. trace \in Traces /\ TraceTurns(route.id) => trace'.mounted
        BY DEF TraceTurns, Fetched, Traces
      <3> QED BY <3>1, <3>2
    <2> QED BY <2>1, <2>2 DEF Show, Outlet, PagesAreRoutes, traceVars
  <1>4. detail'.mounted <=> Here'.page = "request"
    <2>1. (DetailLeaves => ~detail'.mounted) /\ (DetailEnters(route.id) => detail'.mounted)
      BY DEF DetailLeaves, DetailEnters, NoView
    <2>2. detail.mounted /\ DetailTurns(route.id) => detail'.mounted
      <3> SUFFICES ASSUME detail.mounted, DetailTurns(route.id) PROVE detail'.mounted
        OBVIOUS
      <3>1. detail = [k \in Fields |-> detail[k]] /\ detail.mounted = TRUE
        BY <1>0 DEF DetailInv, IsPageOf
      <3>2. detail' = Drawn([detail EXCEPT !.id = route.id, !.loading = TRUE])
        BY DEF DetailTurns
      <3> QED BY <3>1, <3>2 DEF Drawn, Fields
    <2> QED BY <2>1, <2>2 DEF Show, Outlet, PagesAreRoutes
  <1>5. ~detail'.mounted => ~split'.mounted
    <2> SUFFICES ASSUME ~detail'.mounted PROVE ~split'.mounted
      OBVIOUS
    <2>1. CASE ~same \/ route # Here
      <3>1. split' = NoSplit
        BY <2>1 DEF Show, SplitReloads, SplitLeaves
      <3> QED BY <3>1, NoSplitIsNotThere
    <2>2. CASE same /\ route = Here
      <3>1. split' = split
        BY <2>2 DEF Show
      <3>2. Here.page # "request"
        BY <1>4, <2>2
      <3> QED BY <3>1, <3>2 DEF PagesAreRoutes
    <2> QED BY <2>1, <2>2
  <1>6. debug'.mounted <=> Here'.page = "debug"
    <2>1. (DebugLeaves => ~debug'.mounted) /\ (DebugEnters => debug'.mounted)
      BY DEF DebugLeaves, DebugEnters, NoDebug
    <2> QED BY <2>1 DEF Show, Outlet, PagesAreRoutes, debugVars
  <1>7. usage'.mounted <=> Here'.page = "usage"
    <2>1. (UsageLeaves => ~usage'.mounted) /\ (UsageEnters => usage'.mounted)
      BY DEF UsageLeaves, UsageEnters, NoUsage
    <2> QED BY <2>1 DEF Show, Outlet, PagesAreRoutes, usageVars
  <1> QED BY <1>1, <1>2, <1>3, <1>4, <1>5, <1>6, <1>7 DEF PagesAreRoutes

(* What happens on a page does not take it away. *)
LEMMA StepsStay ==
    ASSUME PagesInv, PagesAreRoutes, [Next]_vars, ~Moves
    PROVE  PagesAreRoutes'
  <1>0. /\ FeedInv /\ ListInv /\ TraceInv /\ DetailInv /\ DebugInv /\ UsageInv
    BY DEF PagesInv
  <1>h. hist' = hist /\ at' = at
    BY DEF Next, InFeed, InSessions, InDetail, InDebug, InUsage, vars, routeVars
  <1>r. Here' = Here
    BY <1>h DEF Here
  <1>1. CASE InFeed(FeedStep)
    <2>1. feed'.mounted
      BY <1>0, <1>1, FeedStepInv DEF InFeed
    <2>2. feed.mounted
      <3>1. calls # <<>> => feed.mounted
        BY <1>0 DEF FeedInv, FeedTypeOK
      <3>2. calls = <<>> => DOMAIN calls = {}
        OBVIOUS
      <3>3. FeedAnswers => feed.mounted
        BY <3>1, <3>2 DEF FeedAnswers
      <3>4. ASSUME NEW id, Open(id) PROVE feed.mounted
        BY <3>4 DEF Open, OpenRow, KeyEnter
      <3>5. ASSUME NEW v, SetSearch(v) \/ SetMethod(v) \/ SetStatus(v)
            PROVE  feed.mounted
        BY <3>5 DEF SetSearch, SetMethod, SetStatus
      <3>6. NextPage \/ PrevPage \/ KeyDown \/ KeyUp \/ SearchTimer => feed.mounted
        BY DEF NextPage, PrevPage, KeyDown, KeyUp, SearchTimer
      <3> QED BY <1>1, <3>3, <3>4, <3>5, <3>6 DEF InFeed, FeedStep
    <2>3. UNCHANGED <<list, trace, traceCalls, detail, split, debug, usage>>
      BY <1>1 DEF InFeed, sessionVars, listVars, traceVars, detailVars, splitVars,
                  debugVars, usageVars
    <2> QED BY <1>r, <2>1, <2>2, <2>3 DEF PagesAreRoutes
  <1>2. CASE InSessions(SessionStep)
    <2>1. UNCHANGED <<feed, detail, split, debug, usage>>
      BY <1>2 DEF InSessions, feedState, detailVars, splitVars, debugVars, usageVars
    <2>2. ListStep => list.mounted /\ list'.mounted /\ UNCHANGED <<trace, traceCalls>>
      <3>1. ListStep => list'.mounted
        BY <1>0, ListStepInv
      <3>2. ListStep => list.mounted
        BY <1>0 DEF ListStep, ListPrevious, ListNextPage, ListAnswers, ListInv
      <3> QED BY <3>1, <3>2 DEF ListStep, traceVars
    <2>3. TraceStep => trace.mounted /\ trace'.mounted /\ UNCHANGED list
      <3>1. TraceStep => trace'.mounted
        BY <1>0, TraceStepInv
      <3> QED BY <3>1 DEF TraceStep, listVars
    <2>4. NewActivity => UNCHANGED <<list, trace, traceCalls>>
      BY DEF NewActivity, listVars, traceVars
    <2>5. ListStep \/ TraceStep \/ NewActivity
      BY <1>2 DEF InSessions, SessionStep
    <2> QED BY <1>r, <2>1, <2>2, <2>3, <2>4, <2>5 DEF PagesAreRoutes
  <1>3. CASE InDetail(DetailStep)
    <2>1. detail.mounted /\ detail'.mounted
      <3>1. DetailStep /\ detail.mounted
        BY <1>3 DEF InDetail, DetailStep
      <3> QED BY <1>0, <3>1, DetailStepInv
    <2>2. UNCHANGED <<feed, list, trace, traceCalls, debug, usage>>
      BY <1>3 DEF InDetail, feedState, sessionVars, listVars, traceVars, debugVars,
                  usageVars
    <2> QED BY <1>r, <2>1, <2>2 DEF PagesAreRoutes
  <1>4. CASE InDebug(DebugStep)
    <2>1. debug.mounted /\ debug'.mounted
      <3>1. DebugStep /\ debug.mounted
        BY <1>4 DEF InDebug, DebugStep
      <3> QED BY <1>0, <3>1, DebugStepInv
    <2>2. UNCHANGED <<feed, list, trace, traceCalls, detail, split, usage>>
      BY <1>4 DEF InDebug, feedState, sessionVars, listVars, traceVars, detailVars,
                  splitVars, usageVars
    <2> QED BY <1>r, <2>1, <2>2 DEF PagesAreRoutes
  <1>5. CASE InUsage(UsageStep)
    <2>1. usage.mounted /\ usage'.mounted
      <3>1. UsageStep /\ usage.mounted
        BY <1>5 DEF InUsage, UsageStep
      <3> QED BY <1>0, <3>1, UsageStepInv
    <2>2. UNCHANGED <<feed, list, trace, traceCalls, detail, split, debug>>
      BY <1>5 DEF InUsage, feedState, sessionVars, listVars, traceVars, detailVars,
                  splitVars, debugVars
    <2> QED BY <1>r, <2>1, <2>2 DEF PagesAreRoutes
  <1>6. CASE UNCHANGED vars
    <2>1. UNCHANGED <<feed, list, trace, traceCalls, detail, split, debug, usage>>
      BY <1>6 DEF vars, pageVars, feedState, sessionVars, listVars, traceVars,
                  detailVars, splitVars, debugVars, usageVars
    <2> QED BY <1>r, <2>1 DEF PagesAreRoutes
  <1> QED BY <1>1, <1>2, <1>3, <1>4, <1>5, <1>6 DEF Next

(* The entries of the history: a new one is of the document before it or of    *)
(* its own place, so it needs the window to show something.                    *)
LEMMA EntriesStay ==
    ASSUME PagesInv, PagesAreRoutes, hist \in Seq(Entries), [Next]_vars
    PROVE  hist' \in Seq(Entries)
  <1>0. RouteInv
    BY DEF PagesInv
  <1>1. at \in 0 .. Len(hist) /\ Len(hist) \in Nat
    BY <1>0 DEF RouteInv
  <1>2. at # 0 => hist[at] \in Entries
    BY <1>1
  <1>3. ASSUME NEW route, NEW doc \in 1 .. MaxHistory, Push(route, doc)
        PROVE  hist' \in Seq(Entries)
    <2> DEFINE kept  == SubSeq(hist, 1, at)
               entry == [route |-> route, doc |-> doc]
    <2>1. hist' = Append(kept, entry)
      BY <1>3 DEF Push
    <2>2. entry \in Entries
      <3>1. route \in tour.routes /\ tour \in [start : Routes, routes : SUBSET Routes]
        BY <1>0, <1>3, DashboardAssumption DEF Push, RouteInv
      <3>2. route \in Routes
        BY <3>1
      <3> QED BY <3>2 DEF Entries
    <2> HIDE DEF entry
    <2>3. kept \in Seq(Entries)
      <3>1. \A i \in 1 .. at : hist[i] \in Entries
        BY <1>1
      <3> QED BY <1>1, <3>1, SubSeqProperties
    <2> HIDE DEF kept
    <2> QED BY <2>1, <2>2, <2>3
  <1>4. ASSUME NEW route, Navigate(route), at # 0
        PROVE  hist' \in Seq(Entries)
    <2>1. hist[at].doc \in 1 .. MaxHistory
      BY <1>2, <1>4 DEF Entries
    <2> QED BY <1>3, <1>4, <2>1 DEF Navigate
  <1>5. ASSUME NEW route, Assign(route)
        PROVE  hist' \in Seq(Entries)
    <2>1. Push(route, at + 1)
      BY <1>5 DEF Assign
    <2>2. at + 1 \in 1 .. MaxHistory
      BY <1>1, <2>1, DashboardAssumption DEF Push
    <2> QED BY <1>3, <2>1, <2>2
  <1>6. (list.mounted \/ detail.mounted) => at # 0
    BY DEF PagesAreRoutes, Here, To
  <1>7. CASE Moves
    <2>1. Reload \/ (\E n \in DOMAIN hist : Traverse(n)) => hist' = hist
      BY DEF Traverse, Reload
    <2>2. NavLink => hist' \in Seq(Entries)
      BY <1>4 DEF NavLink
    <2>3. OpenSession => hist' \in Seq(Entries)
      BY <1>4, <1>6 DEF OpenSession
    <2>4. SessionLink => hist' \in Seq(Entries)
      BY <1>4, <1>6 DEF SessionLink
    <2>5. Start \/ WindowBlocked => hist' \in Seq(Entries)
      BY <1>5 DEF Start, WindowBlocked
    <2> QED BY <1>7, <2>1, <2>2, <2>3, <2>4, <2>5 DEF Moves
  <1>8. CASE ~Moves
    <2>1. hist' = hist
      BY <1>8 DEF Next, InFeed, InSessions, InDetail, InDebug, InUsage, vars, routeVars
    <2> QED BY <2>1
  <1> QED BY <1>7, <1>8

(* The whole window *)
WindowInv == PagesInv /\ PagesAreRoutes /\ hist \in Seq(Entries)

LEMMA WindowStarts == Init => WindowInv
  <1> SUFFICES ASSUME Init PROVE WindowInv
    OBVIOUS
  <1>1. hist = <<>> /\ at = 0
    BY DEF Init
  <1>2. /\ feed = Away /\ list = NoPage /\ trace = NoPage /\ detail = NoView
        /\ split = NoSplit /\ debug = NoDebug /\ usage = NoUsage /\ traceCalls = <<>>
    BY DEF Init, FeedInit, SessionInit, DetailInit, SplitInit, DebugInit, UsageInit
  <1>3. /\ ~feed.mounted /\ ~list.mounted /\ ~trace.mounted /\ ~detail.mounted
        /\ ~split.mounted /\ ~debug.mounted /\ ~usage.mounted
    BY <1>2 DEF Away, NoPage, NoView, NoSplit, NoDebug, NoUsage
  <1>4. Here.page = "none"
    BY <1>1 DEF Here, To
  <1>5. PagesAreRoutes
    BY <1>2, <1>3, <1>4 DEF PagesAreRoutes
  <1>6. hist \in Seq(Entries)
    BY <1>1
  <1> QED BY <1>5, <1>6, PagesStart DEF WindowInv

LEMMA WindowNext == WindowInv /\ [Next]_vars => WindowInv'
  <1> SUFFICES ASSUME WindowInv, [Next]_vars PROVE WindowInv'
    OBVIOUS
  <1>1. PagesInv /\ PagesAreRoutes /\ hist \in Seq(Entries)
    BY DEF WindowInv
  <1>2. PagesInv'
    BY <1>1, PagesNext
  <1>3. hist' \in Seq(Entries)
    BY <1>1, EntriesStay
  <1>4. CASE Moves
    <2>1. Moved
      BY <1>1, <1>4, MovesAnew DEF PagesInv
    <2>2. PICK route \in Routes : \E same : Show(route, same) /\ Here' = route
      BY <2>1 DEF Moved
    <2>3. PagesAreRoutes'
      BY <1>1, <2>2, ShowBrings
    <2> QED BY <1>2, <1>3, <2>3 DEF WindowInv
  <1>5. CASE ~Moves
    <2>1. PagesAreRoutes'
      BY <1>1, <1>5, StepsStay
    <2> QED BY <1>2, <1>3, <2>1 DEF WindowInv
  <1> QED BY <1>4, <1>5

(* Every page of the window is of its type, and a page is mounted exactly     *)
(* while the window shows a route of it: no answer, timer or move ever leaves *)
(* a page behind, or brings up two.                                           *)
THEOREM TypeInvariance == Spec => []TypeOK
  <1>1. WindowInv => TypeOK
    <2> SUFFICES ASSUME WindowInv PROVE TypeOK
      OBVIOUS
    <2>1. /\ RouteInv /\ FeedInv /\ ListInv /\ TraceInv
          /\ DetailInv /\ SplitInv /\ DebugInv /\ UsageInv
      BY DEF WindowInv, PagesInv
    <2>2. PagesAreRoutes /\ hist \in Seq(Entries)
      BY DEF WindowInv
    <2>3. FeedTypeOK /\ DebugTypeOK /\ UsageTypeOK
      BY <2>1 DEF FeedInv, DebugInv, UsageInv
    <2>4. SessionTypeOK
      BY <2>1, <2>2 DEF ListInv, TraceInv, PagesAreRoutes, SessionTypeOK
    <2>5. DetailTypeOK
      <3>1. SplitTypeOK
        BY <2>1 DEF SplitInv
      <3>2. ~detail.mounted => detail = NoView /\ detailCalls = <<>> /\ ~split.mounted
        BY <2>1, <2>2 DEF DetailInv, PagesAreRoutes
      <3>3. detailCalls \in Seq(Logged)
        <4>1. CASE detail.mounted
          <5>1. detail.id \in Logged /\ detailCalls \in Seq({detail.id})
            BY <2>1, <4>1 DEF DetailInv
          <5> QED BY <5>1
        <4>2. CASE ~detail.mounted
          BY <3>2, <4>2, EmptySeq
        <4> QED BY <4>1, <4>2
      <3>4. ASSUME detail.mounted
            PROVE  /\ detail.id \in Logged /\ detail.shown \in Logged \cup {NoDetail}
                   /\ detail.loading \in BOOLEAN
                   /\ detail.cell \in {NoCell} \cup CellIds(detail.shown)
                   /\ detail.tab \in DOMAIN Tabs
                   /\ DOMAIN detail.blocks \subseteq BlockKeys
                   /\ \A k \in DOMAIN detail.blocks : detail.blocks[k] \in Block
        BY <2>1, <3>4 DEF DetailInv, IsPageOf, AreBlocks, CellOf
      <3> QED BY <3>1, <3>2, <3>3, <3>4 DEF DetailTypeOK
    <2>6. at \in 0 .. Len(hist) /\ tour \in Tours
      BY <2>1 DEF RouteInv
    <2> QED BY <2>2, <2>3, <2>4, <2>5, <2>6 DEF TypeOK, PagesAreRoutes, Entries
  <1> QED BY <1>1, WindowStarts, WindowNext, PTL DEF Spec
=============================================================================
