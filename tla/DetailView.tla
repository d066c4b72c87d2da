---------------------------- MODULE DetailView -----------------------------
(* The page of one logged request (pages/DetailPage.tsx): its trajectory with
   the overview strip and the ledger, the details of the selected cell
   (EventDetails.tsx) in their split pane, and the blocks that can be folded
   and copied (MessageDisplay.tsx, ReasoningBlock.tsx, ToolCallBlock.tsx,
   CodeBlock.tsx).  The state of a block belongs to its place on the page, not
   to what it shows: React keeps it as long as the same block is drawn there,
   whichever cell is selected.  *)
EXTENDS SplitPane, Trajectory

CONSTANTS Logged,     \* the ids of the logged requests
          MessagesOf, \* the messages of each
          NoDetail,   \* nothing fetched, or nothing found
          MaxTimers   \* BOUND: "Copied" timers a block has at once

ASSUME DetailAssumption ==
    /\ NoDetail \notin Logged /\ MaxTimers \in Nat
    /\ \A id \in Logged :
          /\ MessagesOf[id] \in Seq(Range(MessagesOf[id]))
          /\ \A m \in Range(MessagesOf[id]) : m.calls \in Seq(Range(m.calls))

VARIABLES detail,     \* the page's state, or NoView
          detailCalls \* the ids being fetched

detailVars == <<detail, detailCalls, splitVars>>

NoView == [mounted |-> FALSE]

Tabs == <<"summary", "payload", "result", "timing">>

CellsOf == [id \in Logged \cup {NoDetail} |->
               IF id = NoDetail THEN <<>>
               ELSE BuildTrajectoryCells(MessagesOf[id])]

CellIds(id) == {CellsOf[id][i].id : i \in DOMAIN CellsOf[id]}

BlockKeys == {<<"request", 0>>, <<"response", 0>>, <<"code", 0>>,
              <<"reasoning", 0>>, <<"bubble", 0>>, <<"bubbleReasoning", 0>>}
             \cup ({"tool"} \X (Nat \ {0}))

Block == [copied : BOOLEAN, timers : 0 .. MaxTimers, open : BOOLEAN]

DetailTypeOK ==
    /\ SplitTypeOK
    /\ ~detail.mounted => detail = NoView /\ detailCalls = <<>> /\ ~split.mounted
    /\ detailCalls \in Seq(Logged)
    /\ detail.mounted =>
         /\ detail.id \in Logged /\ detail.shown \in Logged \cup {NoDetail}
         /\ detail.loading \in BOOLEAN
         /\ detail.cell \in {NoCell} \cup CellIds(detail.shown)
         /\ detail.tab \in DOMAIN Tabs
         /\ DOMAIN detail.blocks \subseteq BlockKeys
         /\ \A k \in DOMAIN detail.blocks : detail.blocks[k] \in Block

-----------------------------------------------------------------------------
Cells(d) == CellsOf[d.shown]

\* the page shows a skeleton, "Request not found", the two bodies of a request
\* without messages, or its trajectory
DetailShows(d) == CASE d.loading          -> "skeleton"
                    [] d.shown = NoDetail -> "missing"
                    [] Cells(d) = <<>>    -> "bodies"
                    [] OTHER              -> "trajectory"

Selected(d) == Cells(d)[CellAt(Cells(d), d.cell)]

Message(d) == MessagesOf[d.shown][Selected(d).message]

\* the result tab: a tool call has none, anything else its message's content
HasResult(d) == Selected(d).call = 0 /\ Message(d).content

\* what the result tab draws: the message with its reasoning and tool calls
MessageBubble(message) ==
    {<<"bubble", 0>>}
    \cup {k \in {<<"bubbleReasoning", 0>>} : message.reasoning}
    \cup {<<"tool", t>> : t \in DOMAIN message.calls}

\* the panel under the tabs: summary and timing have no blocks
EventBlocks(d) ==
    CASE Tabs[d.tab] = "payload" ->
           IF Selected(d).kind = "REASONING" THEN {<<"reasoning", 0>>}
                                             ELSE {<<"code", 0>>}
      [] Tabs[d.tab] = "result" -> IF HasResult(d)
                                   THEN MessageBubble(Message(d)) ELSE {}
      [] OTHER -> {}

Blocks(d) == CASE DetailShows(d) = "bodies" ->
                    {<<"request", 0>>, <<"response", 0>>}
               [] DetailShows(d) = "trajectory" /\ CellAt(Cells(d), d.cell) # 0 ->
                    EventBlocks(d)
               [] OTHER -> {}

NewBlock == [copied |-> FALSE, timers |-> 0, open |-> FALSE]

\* after a render: blocks no longer drawn lose their state, timers included
Drawn(d) == [d EXCEPT !.blocks =
                [k \in Blocks(d) |-> IF k \in DOMAIN @ THEN @[k] ELSE NewBlock]]

\* the effect on the cells: a selection that names none of them goes to the
\* first, or to none
Reselected(d) ==
    [d EXCEPT !.cell = IF Cells(d) = <<>> THEN NoCell
                       ELSE IF CellAt(Cells(d), @) # 0 THEN @
                       ELSE Cells(d)[1].id]

-----------------------------------------------------------------------------
DetailEnters(id) ==
    /\ detail' = [mounted |-> TRUE, id |-> id, shown |-> NoDetail,
                  loading |-> TRUE, cell |-> NoCell, tab |-> 1,
                  blocks |-> <<>>]
    /\ detailCalls' = <<id>>

DetailLeaves == detail' = NoView /\ detailCalls' = <<>>

\* the address names another request and the page stays: the effect on the id
DetailTurns(id) ==
    /\ detail' = Drawn([detail EXCEPT !.id = id, !.loading = TRUE])
    /\ detailCalls' = Append(detailCalls, id)

\* an answer, or none (404, another status, the network): what arrives is
\* shown, and the split is there as long as the trajectory is
DetailArrives(i, shown) ==
    /\ \E d \in {Reselected([detail EXCEPT !.shown = shown,
                                           !.loading = FALSE])} :
          detail' = Drawn(d)
    /\ detailCalls' = RemoveAt(detailCalls, i)
    /\ IF DetailShows(detail') # "trajectory"
       THEN SplitLeaves /\ UNCHANGED stored
       ELSE IF split.mounted THEN UNCHANGED splitVars ELSE SplitEnters

DetailAnswers == \E i \in DOMAIN detailCalls :
                    \/ DetailArrives(i, detailCalls[i])
                    \/ DetailArrives(i, NoDetail)

\* setSelectedCellId
SelectCell(id) == /\ detail' = Drawn([detail EXCEPT !.cell = id])
                  /\ UNCHANGED detailCalls

\* a click in the ledger or on the strip
ClickCell == \E s \in OverviewSpans(Cells(detail)) : SelectCell(s.id)

\* the arrow keys anywhere on the page, Home and End in the ledger
CellKey(key) ==
    LET cells == Cells(detail)
    IN  SelectCell(cells[KeyTarget(cells, CellAt(cells, detail.cell), key)].id)

SetTab(t) == /\ detail' = Drawn([detail EXCEPT !.tab = t])
             /\ UNCHANGED detailCalls

\* ArrowRight and ArrowLeft on the tabs go round
TabKey == \/ SetTab((detail.tab % Len(Tabs)) + 1)
          \/ SetTab(((detail.tab + Len(Tabs) - 2) % Len(Tabs)) + 1)

\* reasoning and tool calls fold; a folded one has no copy button
Foldable(k) == k[1] \in {"reasoning", "bubbleReasoning", "tool"}

SetBlock(k, b) == /\ detail' = [detail EXCEPT !.blocks[k] = b]
                  /\ UNCHANGED detailCalls

ToggleBlock(k) ==
    /\ Foldable(k)
    /\ SetBlock(k, [detail.blocks[k] EXCEPT !.open = ~@])

\* handleCopy: "Copied" for two seconds, each copy with a timer of its own (a
\* clipboard that refuses changes nothing; code is then copied another way)
CopyBlock(k) ==
    /\ Foldable(k) => detail.blocks[k].open
    /\ detail.blocks[k].timers < MaxTimers
    /\ SetBlock(k, [detail.blocks[k] EXCEPT !.copied = TRUE, !.timers = @ + 1])

CopyTimer(k) ==
    /\ detail.blocks[k].timers > 0
    /\ SetBlock(k, [detail.blocks[k] EXCEPT !.copied = FALSE, !.timers = @ - 1])

CopyTimers == \E k \in DOMAIN detail.blocks : CopyTimer(k)

TrajectoryStep ==
    /\ DetailShows(detail) = "trajectory"
    /\ \/ ClickCell
       \/ \E key \in {"ArrowDown", "ArrowUp", "Home", "End"} : CellKey(key)
       \/ \E t \in DOMAIN Tabs : SetTab(t)
       \/ TabKey

BlockStep == \E k \in DOMAIN detail.blocks :
                ToggleBlock(k) \/ CopyBlock(k)

DetailStep ==
    /\ detail.mounted
    /\ \/ (TrajectoryStep \/ BlockStep \/ CopyTimers) /\ UNCHANGED splitVars
       \/ DetailAnswers
       \/ SplitStep /\ UNCHANGED <<detail, detailCalls>>

DetailInit == detail = NoView /\ detailCalls = <<>> /\ SplitInit

-----------------------------------------------------------------------------
(* What the page shows is the request its address names, although no fetch is
   ever cancelled and any answer is stored: a request page is only reached in
   a document of its own (DetailPage.tsx:20-27, lib/openRequestWindow.ts).  *)
ShownIsRoutes == detail.mounted => detail.shown \in {detail.id, NoDetail}
=============================================================================
